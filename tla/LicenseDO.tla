------------------------------ MODULE LicenseDO ------------------------------
(***************************************************************************)
(* The Durable Object of one license: seats, activations, idempotency and  *)
(* nonce caches, the projection outbox and the alarm that drives expiry,   *)
(* reclamation and delivery (durable/license.rs).                          *)
(*                                                                         *)
(* A request handler runs its SQL without awaiting anything, so it is one  *)
(* step.  alarm() awaits the queue once per outbox row: it is a step that  *)
(* reclaims and takes its batch, one step per row sent, and a step that    *)
(* schedules the next alarm with the time read when it started.  A request *)
(* that changes nothing is a stuttering step and has no action.            *)
(***************************************************************************)
EXTENDS Integers, Sequences, FiniteSets, FiniteSetsExt

CONSTANTS
    Machine,        \* machine ids the router may draw
    NoMachine,      \* a projection of the license alone; revoke kind License
    Body,           \* activation request bodies (their hash is the body)
    NoBody,
    Fingerprint,
    FpOf,           \* the device fingerprint a body carries
    Key,            \* idempotency keys of activations
    Nonce,          \* nonces of device-signed requests
    DeactKey, AdminOp, ForgetOp, \* idempotency keys of the other operations
    NoOp,
    AdminReq,       \* the journaled body of an admin update
    ForgetTarget,   \* the machine a forget operation erases
    SeatCount, HeartbeatSec, Expiry, \* what the callers of /init pass (D1 values)
    Epoch, Floor,   \* authoritative revocation epochs and security floors
    PendingTtl, NonceTtl, IdemTtl, Retention, \* 60 s, 48 h, 24 h, 90 d
    BatchSize,      \* OUTBOX_BATCH_SIZE
    MaxFlush,       \* bound: how long one alarm run may await the queue, in s
    MaxTime,        \* bound: the clock stops here
    Backlog         \* bound: requests are not taken above this many unsent rows

NoTime == -1
HEARTBEAT_GRACE_MULTIPLIER == 3

ASSUME MachineAssumption ==
    /\ IsFiniteSet(Machine)
    /\ NoMachine \notin Machine
    /\ NoBody \notin Body
    /\ NoOp \notin AdminOp
    /\ FpOf \in [Body -> Fingerprint]

ASSUME InputAssumption ==
    /\ SeatCount \subseteq Nat \ {0}
    /\ HeartbeatSec \subseteq Nat
    /\ Expiry \subseteq Nat \cup {NoTime}
    /\ Epoch \subseteq Nat \ {0}
    /\ Floor \subseteq Nat
    /\ ForgetTarget \in [ForgetOp -> Machine]
    /\ AdminReq \in [AdminOp -> [version: Nat \ {0}, seats: Nat \ {0},
                                 status: {"active", "suspended", "expired"},
                                 heartbeat: Nat, expires: Nat \cup {NoTime}]]

ASSUME BoundAssumption ==
    /\ PendingTtl \in Nat \ {0} /\ NonceTtl \in Nat \ {0}
    /\ IdemTtl \in Nat \ {0} /\ Retention \in Nat \ {0}
    /\ BatchSize \in Nat \ {0} /\ MaxFlush \in Nat
    /\ MaxTime \in Nat /\ Backlog \in Nat

VARIABLES
    now,
    initialized,    \* meta.license_id is stored
    seats, heartbeat, expires, status, \* meta; heartbeat 0 and NoTime: no row
    adminVersion,
    pendingAdmin,   \* the pending_admin_* rows: an AdminOp, or NoOp
    revocationEpoch, securityFloor,
    act,            \* table activations
    minted,         \* machine ids drawn so far (random, so never drawn again)
    nonces,         \* table nonces: seen_at
    idem,           \* table idem, kind 'reserve'
    opIdem,         \* table idem, the other kinds: created_at
    outbox,         \* unsent rows of table outbox, in id order
    sent,           \* what a consumer of every sent event would show
    alarm,          \* the time the alarm is set for
    flush           \* the alarm run that is awaiting the queue

config == <<initialized, seats, heartbeat, expires, status>>
admin == <<adminVersion, pendingAdmin>>
levels == <<revocationEpoch, securityFloor>>
rows == <<act, minted>>
caches == <<nonces, idem, opIdem>>
delivery == <<outbox, sent, flush>>
vars == <<now, config, admin, levels, rows, caches, delivery, alarm>>

Live == {"active", "pending"}
NoRow == [fp |-> NoBody, status |-> "none", created |-> NoTime,
          seen |-> NoTime, hb |-> NoTime]
NoEntry == [st |-> "none", body |-> NoBody, m |-> NoMachine, at |-> NoTime]

(***************************************************************************)
(* Helpers of the handlers.                                                *)
(***************************************************************************)
Max2(a, b) == IF a > b THEN a ELSE b

LiveRows(a) == {m \in Machine : a[m].status \in Live}

\* SELECT COUNT(*) FROM activations WHERE status IN (0, 3)
Occupied(a) == Cardinality(LiveRows(a))

\* expires_at.is_some_and(|expiry| now >= expiry)
Lapsed == expires # NoTime /\ now >= expires

\* COALESCE(last_hb_at, last_seen_at, created_at); last_seen_at is never NULL
LastBeat(m) == IF act[m].hb # NoTime THEN act[m].hb ELSE act[m].seen

\* Variant of append_projection that counts only the active rows.
ProjectionActiveOnly(a, lic, m) ==
    [m |-> m, mst |-> IF m = NoMachine THEN "none" ELSE a[m].status,
     lst |-> lic, used |-> Cardinality({x \in Machine : a[x].status = "active"})]

\* append_projection: the event for machine m (or the license alone), read
\* from the tables as they are after the handler's updates
ProjectionOf(a, lic, m) ==
    [m |-> m, mst |-> IF m = NoMachine THEN "none" ELSE a[m].status,
     lst |-> lic, used |-> Occupied(a)]

\* Variant that reclaims without projecting.
ProjectionsDropped(a, lic, order) == <<>>

\* one append_projection per row a RETURNING clause gave, in its order
ProjectionsOf(a, lic, order) ==
    [i \in DOMAIN order |-> ProjectionOf(a, lic, order[i])]

\* The times schedule_next_alarm(t) takes the minimum of, by their source.
OutboxWake(t) == IF outbox # <<>> THEN {t} ELSE {}
PendingWake ==
    {act[m].created + PendingTtl : m \in {x \in Machine : act[x].status = "pending"}}
NonceWake == {nonces[n] + NonceTtl : n \in {x \in Nonce : nonces[x] # NoTime}}
IdemWake ==
    {idem[k].at + IdemTtl : k \in {x \in Key : idem[x].st # "none"}}
    \cup {opIdem[o] + IdemTtl : o \in {x \in DOMAIN opIdem : opIdem[x] # NoTime}}
RetentionWake ==
    {act[m].seen + Retention : m \in {x \in Machine : act[x].status = "released"}}
HeartbeatWake ==
    {LastBeat(m) + HEARTBEAT_GRACE_MULTIPLIER * heartbeat :
        m \in {x \in Machine : heartbeat # 0 /\ act[x].status = "active"}}
ExpiryWake == {x \in {expires} : status = "active" /\ expires # NoTime}

\* Variant: the heartbeat's deadline is forgotten.
WakeTimesNoHeartbeat(t) ==
    OutboxWake(t) \cup PendingWake \cup NonceWake \cup IdemWake \cup RetentionWake \cup ExpiryWake

WakeTimes(t) ==
    OutboxWake(t) \cup PendingWake \cup NonceWake \cup IdemWake
    \cup RetentionWake \cup HeartbeatWake \cup ExpiryWake

\* schedule_next_alarm(t): set_alarm takes a delay relative to the time of the
\* call, computed from the t the handler read when it started.
ScheduleNextAlarm(t) ==
    IF WakeTimes(t) = {} THEN NoTime
    ELSE now + Max2(0, Min(WakeTimes(t)) - t)

\* UPDATE activations SET status = st, last_seen_at = now WHERE machine_id = m
SetStatus(m, st) == [act EXCEPT ![m].status = st, ![m].seen = now]

\* record_nonce: INSERT OR IGNORE, TRUE when a row was written
FreshNonce(n) == nonces[n] = NoTime
RecordNonce(n) == nonces' = [nonces EXCEPT ![n] = now]

Reschedule == alarm' = ScheduleNextAlarm(now)'

Project(m) == outbox' = Append(outbox, ProjectionOf(act', status', m))

Init ==
    /\ now = 0
    /\ initialized = FALSE
    /\ seats = 0 /\ heartbeat = 0 /\ expires = NoTime /\ status = "none"
    /\ adminVersion = 0 /\ pendingAdmin = NoOp
    /\ revocationEpoch = 0 /\ securityFloor = 0
    /\ act = [m \in Machine |-> NoRow]
    /\ minted = {}
    /\ nonces = [n \in Nonce |-> NoTime]
    /\ idem = [k \in Key |-> NoEntry]
    /\ opIdem = [o \in DeactKey \cup AdminOp \cup ForgetOp |-> NoTime]
    /\ outbox = <<>>
    /\ sent = [lic |-> "none", used |-> 0, mach |-> [m \in Machine |-> "none"]]
    /\ alarm = NoTime
    /\ flush = [on |-> FALSE, left |-> 0, start |-> 0]

(***************************************************************************)
(* /init, /admin-update, /admin-forget                                     *)
(***************************************************************************)

\* The caller passes what it read from D1.  A parked admin update, present only
\* before the first /init, then overrides it (apply_pending_admin_update).
InitLicense(s, h, e) ==
    /\ initialized' = TRUE
    /\ IF pendingAdmin # NoOp
         THEN /\ seats' = AdminReq[pendingAdmin].seats
              /\ heartbeat' = AdminReq[pendingAdmin].heartbeat
              /\ expires' = AdminReq[pendingAdmin].expires
              /\ status' = AdminReq[pendingAdmin].status
         ELSE /\ seats' = s /\ heartbeat' = h /\ expires' = e
              /\ status' = IF status = "none" THEN "active" ELSE status
    /\ pendingAdmin' = NoOp
    /\ UNCHANGED <<now, adminVersion, levels, rows, caches, delivery>>
    /\ Reschedule

\* An update that is not newer than the stored version is recorded and dropped.
AdminUpdateStale(o) ==
    /\ opIdem[o] = NoTime
    /\ adminVersion >= AdminReq[o].version
    /\ opIdem' = [opIdem EXCEPT ![o] = now]
    /\ UNCHANGED <<now, config, admin, levels, rows, nonces, idem, delivery, alarm>>

\* Before the first /init the update is parked in the pending_admin_* rows.
AdminUpdateParked(o) ==
    /\ opIdem[o] = NoTime
    /\ adminVersion < AdminReq[o].version
    /\ ~initialized
    /\ pendingAdmin' = o
    /\ adminVersion' = AdminReq[o].version
    /\ opIdem' = [opIdem EXCEPT ![o] = now]
    /\ UNCHANGED <<now, config, levels, rows, nonces, idem, delivery, alarm>>

MayUpdate == initialized /\ status # "revoked"

AdminUpdateApplied(o) ==
    /\ opIdem[o] = NoTime
    /\ adminVersion < AdminReq[o].version
    /\ MayUpdate
    /\ status' = AdminReq[o].status
    /\ seats' = AdminReq[o].seats
    /\ heartbeat' = AdminReq[o].heartbeat
    /\ expires' = AdminReq[o].expires
    /\ adminVersion' = AdminReq[o].version
    /\ opIdem' = [opIdem EXCEPT ![o] = now]
    /\ UNCHANGED <<now, initialized, pendingAdmin, levels, rows, nonces, idem, sent, flush>>
    /\ Project(NoMachine)
    /\ Reschedule

AdminUpdate(o) == AdminUpdateStale(o) \/ AdminUpdateParked(o) \/ AdminUpdateApplied(o)

\* The row goes without a projection and without touching the alarm.
AdminForget(o) ==
    /\ opIdem[o] = NoTime
    /\ act' = IF initialized THEN [act EXCEPT ![ForgetTarget[o]] = NoRow] ELSE act
    /\ opIdem' = [opIdem EXCEPT ![o] = now]
    /\ UNCHANGED <<now, config, admin, levels, minted, nonces, idem, delivery, alarm>>

(***************************************************************************)
(* /reserve: the stored security floor is raised before the idempotency    *)
(* lookup, and stays raised whatever the answer is.                        *)
(***************************************************************************)
RaiseFloor(f) ==
    /\ securityFloor' = Max2(securityFloor, f)
    /\ UNCHANGED revocationEpoch

ReserveOpen == initialized /\ status = "active" /\ ~Lapsed

\* Variant that replays only finished activations.
ReplayableIssued(k) == idem[k].st = "issued"

\* A cached reservation answers a repeated request while it carries the
\* envelope or its machine still holds its seat.
Replayable(k) == idem[k].st = "issued" \/ act[idem[k].m].status \in Live

\* No entry, or one that is dropped because it can no longer be replayed.
ReserveProceeds(k, b) ==
    /\ ReserveOpen
    /\ idem[k].st # "none" => idem[k].body = b /\ ~Replayable(k)

\* Variant that overlooks pending rows.
SameDeviceActive(b) == {m \in Machine : act[m].status = "active" /\ act[m].fp = FpOf[b]}

SameDevice(b) == {m \in LiveRows(act) : act[m].fp = FpOf[b]}

\* Variant with an off-by-one.
SeatFreeOffByOne == Occupied(act) <= seats

SeatFree == Occupied(act) < seats

\* the replayed reservation, or idempotency_conflict
ReserveAnswered(k, b, f) ==
    /\ ReserveOpen
    /\ idem[k].st # "none"
    /\ idem[k].body # b \/ Replayable(k)
    /\ RaiseFloor(f)
    /\ UNCHANGED <<now, config, admin, rows, caches, delivery, alarm>>

\* activation_pending or seat_exhausted; the stale entry is gone all the same
ReserveRefused(k, b, f) ==
    /\ ReserveProceeds(k, b)
    /\ IF SameDevice(b) # {}
         THEN \A m \in SameDevice(b) : act[m].status = "pending"
         ELSE ~SeatFree
    /\ RaiseFloor(f)
    /\ idem' = [idem EXCEPT ![k] = NoEntry]
    /\ UNCHANGED <<now, config, admin, rows, nonces, opIdem, delivery, alarm>>

\* ORDER BY status, created_at LIMIT 1 found an active row of the device
ReserveReused(k, b, f) ==
    /\ ReserveProceeds(k, b)
    /\ \E m \in SameDevice(b) :
         /\ act[m].status = "active"
         /\ \A x \in SameDevice(b) :
              act[x].status = "active" => act[m].created <= act[x].created
         /\ idem' = [idem EXCEPT ![k] = [st |-> "held", body |-> b, m |-> m, at |-> now]]
    /\ RaiseFloor(f)
    /\ UNCHANGED <<now, config, admin, rows, nonces, opIdem, delivery>>
    /\ Reschedule

\* No live row of the device and a free seat: a pending row for the machine id
\* the router drew.
ReserveNew(k, b, m, f) ==
    /\ ReserveProceeds(k, b)
    /\ SameDevice(b) = {}
    /\ SeatFree
    /\ m \notin minted
    /\ minted' = minted \cup {m}
    /\ act' = [act EXCEPT ![m] = [fp |-> FpOf[b], status |-> "pending",
                                  created |-> now, seen |-> now, hb |-> NoTime]]
    /\ idem' = [idem EXCEPT ![k] = [st |-> "held", body |-> b, m |-> m, at |-> now]]
    /\ RaiseFloor(f)
    /\ UNCHANGED <<now, config, admin, nonces, opIdem, sent, flush>>
    /\ Project(m)
    /\ Reschedule

(***************************************************************************)
(* /complete stores the signed credential; /commit                         *)
(***************************************************************************)
CompleteAnswered(k) ==
    /\ idem[k].st = "issued"
    /\ UNCHANGED <<now, config, admin, levels, rows, caches, delivery>>
    /\ Reschedule

\* Variant that completes whatever became of the row.
CompletableAnyway(m) == act[m].status # "none"

Completable(m) == act[m].status \in Live

Complete(k) ==
    LET m == idem[k].m
    IN  /\ idem[k].st = "held"
        /\ Completable(m)
        /\ act' = [act EXCEPT ![m].status = "active", ![m].seen = now,
                              ![m].fp = FpOf[idem[k].body]]
        /\ idem' = [idem EXCEPT ![k].st = "issued"]
        /\ UNCHANGED <<now, config, admin, levels, minted, nonces, opIdem, sent, flush>>
        /\ Project(m)
        /\ Reschedule

Commit(m) ==
    /\ act[m].status \in Live
    /\ IF act[m].status = "pending"
         THEN /\ act' = SetStatus(m, "active")
              /\ UNCHANGED status
              /\ Project(m)
         ELSE UNCHANGED <<act, status, outbox>>
    /\ UNCHANGED <<now, initialized, seats, heartbeat, expires, admin, levels,
                   minted, caches, sent, flush>>
    /\ Reschedule

(***************************************************************************)
(* Requests signed by the device: /deactivate, /heartbeat, /validate       *)
(***************************************************************************)

\* authenticate_device finds the row whatever its status
Known(m) == act[m].status # "none"

DeactivateAnswered(k) ==
    /\ opIdem[k] # NoTime
    /\ UNCHANGED <<now, config, admin, levels, rows, caches, delivery>>
    /\ Reschedule

\* plan_deactivation fails after the nonce was recorded
DeactivateRefused(k, m, n) ==
    /\ opIdem[k] = NoTime
    /\ act[m].status = "revoked"
    /\ FreshNonce(n)
    /\ RecordNonce(n)
    /\ UNCHANGED <<now, config, admin, levels, rows, idem, opIdem, delivery, alarm>>

Deactivate(k, m, n) ==
    /\ opIdem[k] = NoTime
    /\ act[m].status \in Live \cup {"released"}
    /\ FreshNonce(n)
    /\ RecordNonce(n)
    /\ opIdem' = [opIdem EXCEPT ![k] = now]
    /\ IF act[m].status \in Live
         THEN /\ act' = SetStatus(m, "released")
              /\ UNCHANGED status
              /\ Project(m)
         ELSE UNCHANGED <<act, status, outbox>>
    /\ UNCHANGED <<now, initialized, seats, heartbeat, expires, admin, levels,
                   minted, idem, sent, flush>>
    /\ Reschedule

Heartbeat(m, n) ==
    /\ status = "active" /\ ~Lapsed
    /\ act[m].status = "active"
    /\ FreshNonce(n)
    /\ RecordNonce(n)
    /\ act' = [act EXCEPT ![m].hb = now, ![m].seen = now]
    /\ UNCHANGED <<now, config, admin, levels, minted, idem, opIdem, sent, flush>>
    /\ Project(m)
    /\ Reschedule

\* The caller's known epoch and floor were not above the raised ones, else the
\* request is refused before it changes anything.
RaiseLevels(e, f) ==
    /\ revocationEpoch' = Max2(revocationEpoch, e)
    /\ securityFloor' = Max2(securityFloor, f)

\* replayed_nonce, or a license that is neither revoked nor usable: the levels
\* (and in the second case the nonce) stay, and no alarm is scheduled
ValidateRefused(m, n, e, f) ==
    /\ Known(m)
    /\ RaiseLevels(e, f)
    /\ \/ ~FreshNonce(n) /\ UNCHANGED nonces
       \/ /\ FreshNonce(n)
          /\ status # "revoked" /\ act[m].status \in Live
          /\ status # "active" \/ Lapsed
          /\ RecordNonce(n)
    /\ UNCHANGED <<now, config, admin, rows, idem, opIdem, delivery, alarm>>

ValidateKill(m, n, e, f) ==
    /\ Known(m)
    /\ status = "revoked" \/ act[m].status \in {"released", "revoked"}
    /\ RaiseLevels(e, f)
    /\ FreshNonce(n)
    /\ RecordNonce(n)
    /\ UNCHANGED <<now, config, admin, rows, idem, opIdem, delivery>>
    /\ Reschedule

ValidateTicket(m, n, e, f) ==
    /\ act[m].status \in Live
    /\ status = "active" /\ ~Lapsed
    /\ RaiseLevels(e, f)
    /\ FreshNonce(n)
    /\ RecordNonce(n)
    /\ act' = [act EXCEPT ![m].seen = now]
    /\ UNCHANGED <<now, config, admin, minted, idem, opIdem, sent, flush>>
    /\ Project(m)
    /\ Reschedule

(***************************************************************************)
(* /revoke, with plan_license and plan_machine.  t = NoMachine revokes the *)
(* license.                                                                *)
(***************************************************************************)
AlreadyRevoked(t) == IF t = NoMachine THEN status = "revoked" ELSE act[t].status = "revoked"

\* A repeated revocation only advances the epoch.
RevokeAgain(t, e) ==
    /\ initialized
    /\ AlreadyRevoked(t)
    /\ revocationEpoch' = Max2(revocationEpoch, e)
    /\ UNCHANGED <<now, config, admin, securityFloor, rows, caches, delivery>>
    /\ Reschedule

Revoke(t, e) ==
    /\ initialized
    /\ t # NoMachine => Known(t)
    /\ ~AlreadyRevoked(t)
    /\ e > revocationEpoch
    /\ revocationEpoch' = e
    /\ IF t = NoMachine
         THEN status' = "revoked" /\ UNCHANGED act
         ELSE /\ act' = SetStatus(t, "revoked")
              /\ UNCHANGED status
    /\ UNCHANGED <<now, initialized, seats, heartbeat, expires, admin, securityFloor,
                   minted, caches, sent, flush>>
    /\ Project(t)
    /\ Reschedule

(***************************************************************************)
(* alarm(): reclaim, flush_outbox, schedule_next_alarm                     *)
(***************************************************************************)

Released(a, S) ==
    [m \in Machine |-> IF m \in S THEN [a[m] EXCEPT !.status = "released", !.seen = now]
                                  ELSE a[m]]

OverduePending ==
    {m \in Machine : act[m].status = "pending" /\ act[m].created <= now - PendingTtl}

Zombies ==
    {m \in Machine : /\ heartbeat # 0
                     /\ act[m].status = "active"
                     /\ LastBeat(m) < now - HEARTBEAT_GRACE_MULTIPLIER * heartbeat}

\* Variant: a license expires only once nobody holds a seat of it.
EndedWhenEmpty == status = "active" /\ Lapsed /\ LiveRows(act) = {}

Ended == status = "active" /\ Lapsed

Retired == {m \in Machine : act[m].status = "released" /\ act[m].seen <= now - Retention}

\* The activations after each of the four passes of reclaim, in order.
PassPending == Released(act, OverduePending)
PassZombies == Released(PassPending, Zombies)
PassEnded == IF Ended THEN Released(PassZombies, LiveRows(PassZombies)) ELSE PassZombies
PassRetired == [m \in Machine |-> IF m \in Retired THEN NoRow ELSE PassEnded[m]]

\* The orders in which a pass may come upon its rows: UPDATE ... RETURNING names none.
Orders(S) ==
    {f \in [1..Cardinality(S) -> S] :
        \A i, j \in 1..Cardinality(S) : f[i] = f[j] => i = j}

Reclaim ==
    /\ act' = PassRetired
    /\ status' = IF Ended THEN "expired" ELSE status
    /\ \E p \in Orders(OverduePending), z \in Orders(Zombies) :
         \E x \in Orders(IF Ended THEN LiveRows(PassZombies) ELSE {}) :
           outbox' = outbox \o ProjectionsOf(PassPending, status, p)
                            \o ProjectionsOf(PassZombies, status, z)
                            \o ProjectionsOf(PassEnded, "expired", x)
                            \o (IF Ended THEN <<ProjectionOf(PassEnded, "expired", NoMachine)>>
                                         ELSE <<>>)
    /\ nonces' = [n \in Nonce |-> IF nonces[n] <= now - NonceTtl THEN NoTime ELSE nonces[n]]
    /\ idem' = [k \in Key |-> IF idem[k].at <= now - IdemTtl THEN NoEntry ELSE idem[k]]
    /\ opIdem' = [o \in DOMAIN opIdem |->
                    IF opIdem[o] <= now - IdemTtl THEN NoTime ELSE opIdem[o]]
    /\ UNCHANGED <<now, initialized, seats, heartbeat, expires, admin, levels, minted, sent>>

\* The alarm fires at or after its time, and is cleared as it fires.  Without
\* unsent rows the run awaits nothing and schedules at once.
AlarmFire ==
    /\ alarm # NoTime /\ alarm <= now
    /\ ~flush.on
    /\ Reclaim
    /\ IF outbox' = <<>>
         THEN UNCHANGED flush /\ Reschedule
         ELSE /\ flush' = [on |-> TRUE, start |-> now,
                           left |-> Min({Len(outbox'), BatchSize})]
              /\ alarm' = NoTime

\* What a consumer that applies events in order shows after event e.
Show(view, e) ==
    [lic |-> e.lst, used |-> e.used,
     mach |-> IF e.m = NoMachine THEN view.mach ELSE [view.mach EXCEPT ![e.m] = e.mst]]

\* queue.send of the oldest unsent row, and its sent_at
FlushSend ==
    /\ flush.on /\ flush.left > 0
    /\ sent' = Show(sent, Head(outbox))
    /\ outbox' = Tail(outbox)
    /\ flush' = [flush EXCEPT !.left = @ - 1]
    /\ UNCHANGED <<now, config, admin, levels, rows, caches, alarm>>

\* queue.send fails, or the object dies before or after the send took effect and
\* before sent_at is stored.  alarm() returns the error and sets no alarm: the
\* platform runs it again, taken here to be as often as it takes (its retries
\* are in fact limited, and then the next request that schedules sets it).
FlushFail ==
    /\ flush.on /\ flush.left > 0
    /\ sent' \in {sent, Show(sent, Head(outbox))}
    /\ flush' = [on |-> FALSE, left |-> 0, start |-> 0]
    /\ alarm' = now
    /\ UNCHANGED <<now, config, admin, levels, rows, caches, outbox>>

\* schedule_next_alarm with the time the alarm run started at
FlushEnd ==
    /\ flush.on /\ flush.left = 0
    /\ flush' = [on |-> FALSE, left |-> 0, start |-> 0]
    /\ UNCHANGED <<now, config, admin, levels, rows, caches, outbox, sent>>
    /\ alarm' = ScheduleNextAlarm(flush.start)

Tick ==
    /\ now < MaxTime
    /\ flush.on => now < flush.start + MaxFlush
    /\ now' = now + 1
    /\ UNCHANGED <<config, admin, levels, rows, caches, delivery, alarm>>

Request ==
    \/ \E s \in SeatCount, h \in HeartbeatSec, e \in Expiry : InitLicense(s, h, e)
    \/ \E o \in AdminOp : AdminUpdate(o)
    \/ \E o \in ForgetOp : AdminForget(o)
    \/ \E k \in Key, b \in Body, f \in Floor :
         \/ ReserveAnswered(k, b, f)
         \/ ReserveRefused(k, b, f)
         \/ ReserveReused(k, b, f)
         \/ \E m \in Machine : ReserveNew(k, b, m, f)
    \/ \E k \in Key : CompleteAnswered(k) \/ Complete(k)
    \/ \E m \in Machine : Commit(m)
    \/ \E k \in DeactKey : DeactivateAnswered(k)
    \/ \E k \in DeactKey, m \in Machine, n \in Nonce :
         DeactivateRefused(k, m, n) \/ Deactivate(k, m, n)
    \/ \E m \in Machine, n \in Nonce : Heartbeat(m, n)
    \/ \E t \in Machine \cup {NoMachine}, e \in Epoch : RevokeAgain(t, e) \/ Revoke(t, e)
    \/ \E m \in Machine, n \in Nonce, e \in Epoch \cup {0}, f \in Floor :
         \/ ValidateRefused(m, n, e, f)
         \/ ValidateKill(m, n, e, f)
         \/ ValidateTicket(m, n, e, f)

Next ==
    \/ Len(outbox) <= Backlog /\ Request
    \/ AlarmFire
    \/ FlushSend
    \/ FlushFail
    \/ FlushEnd
    \/ Tick

Spec == Init /\ [][Next]_vars

\* Time passes, the platform runs an alarm that is due and the rest of a run it
\* has started, and the queue does not refuse the same row for ever.
FairSpec ==
    /\ Spec
    /\ WF_vars(Tick) /\ WF_vars(AlarmFire) /\ WF_vars(FlushEnd)
    /\ SF_vars(FlushSend)

(***************************************************************************)
(* Properties                                                              *)
(***************************************************************************)
Time == Nat \cup {NoTime}
RowStatus == Live \cup {"none", "released", "revoked"}
Row == {NoRow} \cup [fp: Fingerprint, status: RowStatus \ {"none"},
                     created: Nat, seen: Nat, hb: Time]
Entry == {NoEntry} \cup [st: {"held", "issued"}, body: Body, m: Machine, at: Nat]
LicenseStatus == {"none", "active", "suspended", "expired", "revoked"}
Event == [m: Machine \cup {NoMachine}, mst: RowStatus, lst: LicenseStatus, used: Nat]

TablesOK ==
    /\ now \in Nat
    /\ initialized \in BOOLEAN
    /\ seats \in Nat /\ heartbeat \in Nat /\ expires \in Time
    /\ status \in LicenseStatus
    /\ adminVersion \in Nat /\ pendingAdmin \in AdminOp \cup {NoOp}
    /\ revocationEpoch \in Nat /\ securityFloor \in Nat
    /\ act \in [Machine -> Row]
    /\ minted \subseteq Machine
    /\ nonces \in [Nonce -> Time]
    /\ idem \in [Key -> Entry]
    /\ opIdem \in [DeactKey \cup AdminOp \cup ForgetOp -> Time]
    /\ outbox \in Seq(Event)
    /\ sent \in [lic: LicenseStatus, used: Nat, mach: [Machine -> RowStatus]]
    /\ flush \in [on: BOOLEAN, left: Nat, start: Nat]
    /\ flush.left <= Len(outbox)

\* Every table and meta row of the object keeps its type, an alarm run finds the
\* rows of its batch unsent, and the alarm is unset or set for a time.
TypeOK == TablesOK /\ alarm \in Time

\* Only a usable license grants a seat, and never beyond the seats it has at
\* that moment, whatever interleaving of reservations, completions, releases
\* and seat changes came before (reserve, complete, commit).
SeatGrant ==
    [][Occupied(act') > Occupied(act) => /\ ReserveOpen
                                         /\ Occupied(act') <= seats]_vars

\* One device never holds two seats of a license, although a retried activation
\* draws a new machine id each time and complete rewrites the fingerprint.
OneSeatPerDevice ==
    \A x, y \in Machine :
        act[x].status \in Live /\ act[y].status \in Live /\ act[x].fp = act[y].fp => x = y

\* What OneSeatPerDevice and RevokedIsFinal rest on.  A row and a reservation
\* carry a machine id that was drawn; a reservation of an existing row carries
\* its device; the license has a status exactly once it is initialized, and from
\* then on no parked admin update is left to be applied.
LedgerInv ==
    /\ \A m \in Machine : Known(m) => m \in minted
    /\ \A k \in Key : idem[k].st # "none" =>
         /\ idem[k].m \in minted
         /\ Known(idem[k].m) => act[idem[k].m].fp = FpOf[idem[k].body]
    /\ OneSeatPerDevice
    /\ (status = "none") = ~initialized
    /\ initialized => pendingAdmin = NoOp

\* A seat that was released, revoked, erased or purged never comes back to life
\* under the same machine id: not by a late complete or commit, a replayed
\* reservation or a device request.
DeadStaysDead ==
    [][\A m \in minted : act[m].status \notin Live => act'[m].status \notin Live]_vars

\* Revoking a license or a machine is final: no admin update, /init, expiry or
\* device request leads out of it (only an erase removes the machine's row).
RevokedIsFinal ==
    [][/\ status = "revoked" => status' = "revoked"
       /\ \A m \in Machine :
            act[m].status = "revoked" => act'[m].status \in {"revoked", "none"}]_vars

\* While its machine lives, or once it carries the credential, a reservation
\* stays bound to its key until the idempotency window has passed.
KeyKeepsItsMachine ==
    [][\A k \in Key :
         /\ idem[k].st # "none"
         /\ idem[k].st = "issued" \/ act[idem[k].m].status \in Live
         /\ now < idem[k].at + IdemTtl
         => idem'[k].m = idem[k].m /\ idem'[k].body = idem[k].body]_vars

\* The times at which something the alarm must do becomes due.
Deadlines == PendingWake \cup RetentionWake \cup HeartbeatWake \cup ExpiryWake

\* Nothing waits on an alarm that is not set: unsent events have one that is
\* due, and every reclaim deadline has one that is due or comes no later than
\* the deadline plus the time an alarm run spends awaiting the queue.
AlarmCovers ==
    ~flush.on =>
        /\ outbox # <<>> => alarm # NoTime /\ alarm <= now
        /\ \A d \in Deadlines : alarm # NoTime /\ (alarm <= now \/ alarm <= d + MaxFlush)

\* What AlarmCovers rests on: schedule_next_alarm is called with a time at most
\* one alarm run old.
FlushTimely == flush.on => flush.start <= now /\ now <= flush.start + MaxFlush

\* What an in-order consumer shows of machine m after the rows still unsent.
Shown(m) ==
    LET I == {i \in DOMAIN outbox : outbox[i].m = m}
    IN  IF I = {} THEN sent.mach[m] ELSE outbox[Max(I)].mst

\* No change of an activation or of the license status bypasses the outbox:
\* once it drains, a consumer shows the status of every row the object holds.
ChangesAreProjected ==
    /\ \A m \in Machine : Known(m) => Shown(m) = act[m].status
    /\ IF outbox # <<>> THEN outbox[Len(outbox)].lst = status
                        ELSE sent.lic \in {"none", status}

\* The seats_used a consumer shows once the outbox drains never understates the
\* occupied seats (an erase, which sends nothing, leaves it too high).
SeatsUsedNotUnderstated ==
    IF outbox # <<>> THEN outbox[Len(outbox)].used >= Occupied(act)
                     ELSE sent.used >= Occupied(act)

\* What ProjectionFaithful rests on: the first /init, which sends no event, finds
\* an object that has told nothing and holds no activation.
SilentBeforeInit ==
    ~initialized => outbox = <<>> /\ sent.lic = "none" /\ \A m \in Machine : ~Known(m)

\* A reservation never stays pending: it is completed, released, revoked or
\* erased, also when the router dies between /reserve and /complete.
PendingResolved ==
    \A m \in Machine :
        act[m].status = "pending" /\ act[m].created + PendingTtl + MaxFlush < MaxTime
            ~> act[m].status # "pending"

\* Every outbox row is handed to the queue, through failed sends and restarts.
OutboxDrains == outbox # <<>> ~> outbox = <<>>

\* A license whose end has passed stops being active and frees its seats, also
\* without any request; unless its end was moved first.
ExpiryHappens ==
    \A e \in Expiry :
        status = "active" /\ expires = e /\ e # NoTime /\ e + MaxFlush < MaxTime
            ~> status # "active" \/ expires # e

\* What D1 is told of a license is what its object holds: every change of
\* a machine or of the license has its event, and the newest one does not
\* understate the seats in use (append_projection, reclaim).
ProjectionFaithful == ChangesAreProjected /\ SeatsUsedNotUnderstated

\* What falls due happens without any request: a pending reservation is
\* resolved, the outbox drains and a license past its end expires (alarm,
\* reclaim, flush_outbox).
DueHappens == PendingResolved /\ OutboxDrains /\ ExpiryHappens
==============================================================================
