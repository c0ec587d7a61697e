--------------------------- MODULE LicenseDOProofs ---------------------------
(***************************************************************************)
(* Proofs about LicenseDO, for any sets of machines, keys, bodies and      *)
(* operations and any time-to-live values.                                 *)
(***************************************************************************)
EXTENDS LicenseDO, FiniteSetTheorems, WellFoundedInduction, TLAPS

\* A non-empty set of naturals has the minimum schedule_next_alarm takes.
LEMMA MinNat ==
    ASSUME NEW S \in SUBSET Nat, S # {}
    PROVE  Min(S) \in S /\ \A y \in S : Min(S) <= y
<1> DEFINE Below(x) == {s \in S : s <= x}
           Family == {Below(x) : x \in S}
<1>1. ASSUME NEW x \in S PROVE Below(x) \in FiniteSubsetsOf(Nat)
  BY FS_BoundedSetOfNaturals, Zenon DEF FiniteSubsetsOf
<1>2. Family \subseteq FiniteSubsetsOf(Nat) /\ Family # {}
  BY <1>1, Zenon
<1>3. PICK F \in Family : \A G \in Family : <<G, F>> \notin StrictSubsetOrdering(Nat)
  BY <1>2, WFMin, FS_StrictSubsetOrderingWellFounded, Zenon
<1>4. PICK x \in S : F = Below(x)
  BY <1>3
<1>5. ASSUME NEW y \in S, y < x PROVE FALSE
  <2>1. x \in Nat /\ y \in Nat /\ x \in Below(x) /\ x \notin Below(y)
    BY <1>5
  <2>2. \A s \in Below(y) : s \in Below(x)
    BY <1>5
  <2>3. <<Below(y), Below(x)>> \in StrictSubsetOrdering(Nat)
    BY <2>1, <2>2, Zenon DEF StrictSubsetOrdering
  <2> QED BY <2>3, <1>3, <1>4, Zenon
<1>6. \A y \in S : x <= y
  BY <1>5
<1> QED BY <1>6, Zenon DEF Min

\* Every time schedule_next_alarm considers is a natural number.
LEMMA WakeTimesNat ==
    ASSUME TablesOK, NEW t \in Nat
    PROVE  WakeTimes(t) \subseteq Nat
<1> USE BoundAssumption DEF TablesOK, Time, NoTime
<1>1. OutboxWake(t) \subseteq Nat
  BY DEF OutboxWake
<1>2. PendingWake \subseteq Nat
  BY DEF PendingWake, Row, NoRow
<1>7. RetentionWake \subseteq Nat
  BY DEF RetentionWake, Row, NoRow
<1>3. NonceWake \subseteq Nat
  BY DEF NonceWake
<1>4. IdemWake \subseteq Nat
  BY DEF IdemWake, Entry, NoEntry
<1>5. HeartbeatWake \subseteq Nat
  BY DEF HeartbeatWake, Row, NoRow, LastBeat, HEARTBEAT_GRACE_MULTIPLIER
<1>6. ExpiryWake \subseteq Nat
  BY DEF ExpiryWake
<1> QED BY <1>1, <1>2, <1>3, <1>4, <1>5, <1>6, <1>7, Zenon DEF WakeTimes

\* schedule_next_alarm sets the alarm no earlier than now, or deletes it.
LEMMA ScheduleType ==
    ASSUME TablesOK, NEW t \in Nat
    PROVE  ScheduleNextAlarm(t) \in Time
<1>1. WakeTimes(t) # {} => Min(WakeTimes(t)) \in Nat
  BY WakeTimesNat, MinNat
<1> QED BY <1>1 DEF ScheduleNextAlarm, Time, TablesOK, Max2

\* The occupied seats of any activations table are finitely many.
LEMMA OccupiedNat ==
    ASSUME NEW a
    PROVE  IsFiniteSet(LiveRows(a)) /\ Occupied(a) \in Nat
BY MachineAssumption, FS_Subset, FS_CardinalityType DEF LiveRows, Occupied

\* append_projection builds a well-formed event.
LEMMA ProjectionType ==
    ASSUME NEW a \in [Machine -> Row], NEW lic \in LicenseStatus,
           NEW m \in Machine \cup {NoMachine}
    PROVE  ProjectionOf(a, lic, m) \in Event
<1>1. Occupied(a) \in Nat
  BY OccupiedNat
<1>2. CASE m = NoMachine
  BY <1>1, <1>2 DEF ProjectionOf, Event, RowStatus
<1>3. CASE m \in Machine
  BY <1>1, <1>3, MachineAssumption DEF ProjectionOf, Event, Row, NoRow, RowStatus
<1> QED BY <1>2, <1>3

LEMMA ProjectType ==
    ASSUME outbox \in Seq(Event), act' \in [Machine -> Row], status' \in LicenseStatus,
           NEW m \in Machine \cup {NoMachine}, Project(m)
    PROVE  outbox' \in Seq(Event) /\ Len(outbox') >= Len(outbox)
<1>1. ProjectionOf(act', status', m) \in Event
  BY ProjectionType
<1> QED BY <1>1 DEF Project

LEMMA ProjectionsType ==
    ASSUME NEW a \in [Machine -> Row], NEW lic \in LicenseStatus,
           NEW S \in SUBSET Machine, NEW order \in Orders(S)
    PROVE  /\ ProjectionsOf(a, lic, order) \in Seq(Event)
           /\ Len(ProjectionsOf(a, lic, order)) = Cardinality(S)
<1>1. Cardinality(S) \in Nat
  BY MachineAssumption, FS_Subset, FS_CardinalityType
<1>2. order \in [1..Cardinality(S) -> S]
  BY DEF Orders
<1>3. \A i \in 1..Cardinality(S) : ProjectionOf(a, lic, order[i]) \in Event
  BY <1>2, ProjectionType
<1> QED BY <1>1, <1>2, <1>3 DEF ProjectionsOf

LEMMA NoRowType == NoRow \in Row /\ NoEntry \in Entry
BY DEF Row, Entry

\* A row that is not there is neither live nor revoked.
LEMMA NoRowIsDead == NoRow.status = "none" /\ "none" \notin Live /\ "none" # "revoked"
BY DEF NoRow, Live

\* A reservation that is held or issued carries a body and a machine.
LEMMA FullEntry ==
    ASSUME NEW x \in Entry, x.st # "none"
    PROVE  x \in [st: {"held", "issued"}, body: Body, m: Machine, at: Nat] /\ x.m \in Machine
<1>1. x # NoEntry
  BY DEF NoEntry
<1>2. x \in [st: {"held", "issued"}, body: Body, m: Machine, at: Nat]
  BY <1>1, Zenon DEF Entry
<1> QED BY ONLY <1>2

\* A row with a status is a full row.
LEMMA FullRow ==
    ASSUME NEW x \in Row, x.status # "none"
    PROVE  x \in Row \ {NoRow}
BY NoRowIsDead, Zenon

\* Updating the status and last_seen_at of an existing row keeps it a row.
LEMMA SetStatusType ==
    ASSUME act \in [Machine -> Row], now \in Nat, NEW m \in Machine, act[m].status # "none",
           NEW st \in RowStatus \ {"none"}
    PROVE  SetStatus(m, st) \in [Machine -> Row]
<1>1. act[m] \in Row \ {NoRow}
  BY DEF NoRow
<1> QED BY <1>1, Zenon DEF SetStatus, Row

\* The object starts with empty tables.
LEMMA TypeInit == Init => TypeOK
<1> SUFFICES ASSUME Init PROVE TypeOK
  OBVIOUS
<1> USE DEF Init
<1>1. act \in [Machine -> Row] /\ idem \in [Key -> Entry]
  BY NoRowType
<1>2. /\ status \in LicenseStatus /\ expires \in Time /\ alarm \in Time
      /\ nonces \in [Nonce -> Time]
      /\ opIdem \in [DeactKey \cup AdminOp \cup ForgetOp -> Time]
  BY DEF LicenseStatus, Time
<1>3. sent \in [lic: LicenseStatus, used: Nat, mach: [Machine -> RowStatus]]
  BY DEF LicenseStatus, RowStatus
<1>4. /\ outbox \in Seq(Event) /\ flush \in [on: BOOLEAN, left: Nat, start: Nat]
      /\ flush.left <= Len(outbox)
  OBVIOUS
<1> QED BY <1>1, <1>2, <1>3, <1>4, Zenon DEF TypeOK, TablesOK

\* The greater of two naturals is one of them.
LEMMA Max2Type == \A a, b \in Nat : Max2(a, b) \in Nat
BY DEF Max2

\* The rows a request writes are well formed: one step per handler.
LEMMA RequestTables == TypeOK /\ Request => TablesOK'
<1> SUFFICES ASSUME TypeOK, Request PROVE TablesOK'
  OBVIOUS
<1> USE DEF TypeOK, TablesOK, config, admin, levels, rows, caches, delivery
<1>1. ASSUME NEW s \in SeatCount, NEW h \in HeartbeatSec, NEW e \in Expiry, InitLicense(s, h, e)
      PROVE  TablesOK'
  <2>1. seats' \in Nat /\ heartbeat' \in Nat /\ expires' \in Time /\ status' \in LicenseStatus
    <3>1. CASE pendingAdmin # NoOp
      <4>1. AdminReq[pendingAdmin] \in [version: Nat \ {0}, seats: Nat \ {0},
                                        status: {"active", "suspended", "expired"},
                                        heartbeat: Nat, expires: Nat \cup {NoTime}]
        BY <3>1, InputAssumption, Zenon
      <4> QED BY <1>1, <3>1, <4>1, Zenon DEF InitLicense, LicenseStatus, Time
    <3>2. CASE pendingAdmin = NoOp
      BY <1>1, <3>2, InputAssumption, Zenon DEF InitLicense, LicenseStatus, Time
    <3> QED BY <3>1, <3>2, Zenon
  <2>2. /\ initialized' = TRUE /\ pendingAdmin' = NoOp
        /\ UNCHANGED <<now, adminVersion, levels, rows, caches, delivery>>
    BY <1>1, Zenon DEF InitLicense
  <2> QED BY <2>1, <2>2, Zenon
<1>2. ASSUME NEW o \in AdminOp, AdminUpdateStale(o) \/ AdminUpdateParked(o)
      PROVE  TablesOK'
  <2>1. opIdem' \in [DeactKey \cup AdminOp \cup ForgetOp -> Time]
    BY <1>2, Zenon DEF AdminUpdateStale, AdminUpdateParked, Time
  <2>2. adminVersion' \in Nat /\ pendingAdmin' \in AdminOp \cup {NoOp}
    <3>1. /\ adminVersion \in Nat /\ pendingAdmin \in AdminOp \cup {NoOp}
          /\ AdminReq[o].version \in Nat /\ o \in AdminOp \cup {NoOp}
      BY InputAssumption
    <3> QED BY <1>2, <3>1, Zenon DEF AdminUpdateStale, AdminUpdateParked
  <2> QED BY <1>2, <2>1, <2>2, Zenon DEF AdminUpdateStale, AdminUpdateParked
<1>3. ASSUME NEW o \in AdminOp, AdminUpdateApplied(o)
      PROVE  TablesOK'
  <2>1. /\ status' \in LicenseStatus /\ seats' \in Nat /\ heartbeat' \in Nat
        /\ expires' \in Time /\ adminVersion' \in Nat
    BY <1>3, InputAssumption, Zenon DEF AdminUpdateApplied, LicenseStatus, Time
  <2>2. act' \in [Machine -> Row]
    BY <1>3 DEF AdminUpdateApplied
  <2>3. outbox' \in Seq(Event) /\ Len(outbox') >= Len(outbox)
    BY <1>3, <2>1, <2>2, ProjectType, Zenon DEF AdminUpdateApplied
  <2>4. opIdem' \in [DeactKey \cup AdminOp \cup ForgetOp -> Time]
    BY <1>3 DEF AdminUpdateApplied, Time
  <2>5. UNCHANGED <<now, initialized, pendingAdmin, levels, rows, nonces, idem, sent, flush>>
    BY <1>3, Zenon DEF AdminUpdateApplied
  <2>6. flush'.left <= Len(outbox')
    BY <2>3, <2>5
  <2> QED BY <2>1, <2>2, <2>3, <2>4, <2>5, <2>6, Zenon
<1>4. ASSUME NEW o \in ForgetOp, AdminForget(o)
      PROVE  TablesOK'
  <2>1. act' \in [Machine -> Row]
    BY <1>4, NoRowType, InputAssumption DEF AdminForget
  <2>2. opIdem' \in [DeactKey \cup AdminOp \cup ForgetOp -> Time]
    BY <1>4, Zenon DEF AdminForget, Time
  <2> QED BY <1>4, <2>1, <2>2 DEF AdminForget
<1>5. ASSUME NEW k \in Key, NEW b \in Body, NEW f \in Floor,
             ReserveAnswered(k, b, f) \/ ReserveRefused(k, b, f) \/ ReserveReused(k, b, f)
      PROVE  TablesOK'
  <2>1. securityFloor' \in Nat /\ revocationEpoch' \in Nat
    BY <1>5, InputAssumption, Zenon
       DEF ReserveAnswered, ReserveRefused, ReserveReused, RaiseFloor, Max2
  <2>2. idem' \in [Key -> Entry]
    <3>1. idem \in [Key -> Entry] /\ now \in Nat
      OBVIOUS
    <3>2. PICK e \in Entry : idem' \in {idem, [idem EXCEPT ![k] = e]}
      <4>1. CASE ReserveAnswered(k, b, f)
        BY <4>1, NoRowType DEF ReserveAnswered
      <4>2. CASE ReserveRefused(k, b, f)
        BY <4>2, NoRowType, Zenon DEF ReserveRefused
      <4>3. CASE ReserveReused(k, b, f)
        <5>1. PICK m \in SameDevice(b) :
                idem' = [idem EXCEPT ![k] = [st |-> "held", body |-> b, m |-> m, at |-> now]]
          BY <4>3, Zenon DEF ReserveReused
        <5>2. m \in Machine
          BY ONLY <5>1 DEF SameDevice, LiveRows
        <5>3. [st |-> "held", body |-> b, m |-> m, at |-> now] \in Entry
          BY <3>1, <5>2 DEF Entry
        <5> QED BY <5>1, <5>3, Zenon
      <4> QED BY <1>5, <4>1, <4>2, <4>3
    <3> HIDE DEF TypeOK, TablesOK
    <3> QED BY <3>1, <3>2
  <2> QED BY <1>5, <2>1, <2>2, Zenon DEF ReserveAnswered, ReserveRefused, ReserveReused
<1>6. ASSUME NEW k \in Key, NEW b \in Body, NEW f \in Floor, NEW m \in Machine,
             ReserveNew(k, b, m, f)
      PROVE  TablesOK'
  <2>1. securityFloor' \in Nat /\ revocationEpoch' \in Nat
    BY <1>6, InputAssumption, Zenon DEF ReserveNew, RaiseFloor, Max2
  <2>2. idem' \in [Key -> Entry]
    BY <1>6 DEF ReserveNew, Entry, Time
  <2>3. act' \in [Machine -> Row]
    BY <1>6, MachineAssumption, Zenon DEF ReserveNew, Row, RowStatus, Live, Time
  <2>4. outbox' \in Seq(Event) /\ Len(outbox') >= Len(outbox)
    BY <1>6, <2>3, ProjectType, Zenon DEF ReserveNew
  <2>5. /\ UNCHANGED <<now, config, admin, nonces, opIdem, sent, flush>>
        /\ minted' \subseteq Machine
    BY <1>6 DEF ReserveNew
  <2>6. status' = status
    BY ONLY <2>5 DEF config
  <2> QED BY <2>1, <2>2, <2>3, <2>4, <2>5, <2>6
<1>7. ASSUME NEW k \in Key, CompleteAnswered(k) \/ Complete(k)
      PROVE  TablesOK'
  <2>1. CASE CompleteAnswered(k)
    BY <2>1 DEF CompleteAnswered
  <2>2. CASE Complete(k)
    <3>1. idem[k] \in [st: {"held", "issued"}, body: Body, m: Machine, at: Nat]
      <4>1. idem[k] \in Entry /\ idem[k].st = "held"
        BY <2>2, Zenon DEF Complete
      <4>2. idem[k].st # "none"
        BY ONLY <4>1
      <4> QED BY ONLY <4>1, <4>2, FullEntry, Zenon
    <3>2. idem' \in [Key -> Entry]
      BY <2>2, <3>1, Zenon DEF Complete, Entry
    <3>3. act[idem[k].m] \in Row \ {NoRow}
      BY <2>2, <3>1 DEF Complete, Completable, NoRow, Live
    <3>4. act' \in [Machine -> Row]
      <4> DEFINE m == idem[k].m
                 row == [act[m] EXCEPT !.status = "active", !.seen = now,
                                       !.fp = FpOf[idem[k].body]]
      <4>1. act' = [act EXCEPT ![m] = row]
        BY <2>2, Zenon DEF Complete
      <4>2. m \in Machine /\ FpOf[idem[k].body] \in Fingerprint /\ now \in Nat
        BY <3>1, MachineAssumption
      <4>3. row \in Row
        BY <3>3, <4>2, Zenon DEF Row, RowStatus, Live
      <4> QED BY <4>1, <4>2, <4>3
    <3>5. outbox' \in Seq(Event) /\ Len(outbox') >= Len(outbox)
      BY <2>2, <3>1, <3>4, ProjectType, Zenon DEF Complete
    <3>6. UNCHANGED <<now, config, admin, levels, minted, nonces, opIdem, sent, flush>>
      BY <2>2, Zenon DEF Complete
    <3>7. flush'.left <= Len(outbox')
      <4>1. flush.left \in Nat /\ outbox \in Seq(Event) /\ flush.left <= Len(outbox)
        BY Zenon
      <4> QED BY ONLY <3>5, <3>6, <4>1
    <3> QED BY <3>2, <3>4, <3>5, <3>6, <3>7, Zenon
  <2> QED BY ONLY <1>7, <2>1, <2>2, Zenon
<1>8. ASSUME NEW m \in Machine, Commit(m)
      PROVE  TablesOK'
  <2>1. CASE act[m].status = "pending"
    <3>1. act' = SetStatus(m, "active") /\ status' = status
      BY <1>8, <2>1 DEF Commit
    <3>2. act' \in [Machine -> Row]
      BY <2>1, <3>1, SetStatusType DEF RowStatus, Live
    <3>3. outbox' \in Seq(Event) /\ Len(outbox') >= Len(outbox)
      BY <1>8, <2>1, <3>1, <3>2, ProjectType DEF Commit
    <3> QED BY <1>8, <3>1, <3>2, <3>3 DEF Commit
  <2>2. CASE act[m].status # "pending"
    BY <1>8, <2>2 DEF Commit
  <2> QED BY <2>1, <2>2, Zenon
<1>9. ASSUME NEW k \in DeactKey, DeactivateAnswered(k)
      PROVE  TablesOK'
  BY <1>9 DEF DeactivateAnswered
<1>10. ASSUME NEW k \in DeactKey, NEW m \in Machine, NEW n \in Nonce, DeactivateRefused(k, m, n)
       PROVE  TablesOK'
  BY <1>10 DEF DeactivateRefused, RecordNonce, Time
<1>11. ASSUME NEW k \in DeactKey, NEW m \in Machine, NEW n \in Nonce, Deactivate(k, m, n)
       PROVE  TablesOK'
  <2>1. /\ nonces' \in [Nonce -> Time]
        /\ opIdem' \in [DeactKey \cup AdminOp \cup ForgetOp -> Time]
    BY <1>11 DEF Deactivate, RecordNonce, Time
  <2>2. CASE act[m].status \in Live
    <3>1. act' = SetStatus(m, "released") /\ status' = status
      BY <1>11, <2>2 DEF Deactivate
    <3>2. act' \in [Machine -> Row]
      BY <2>2, <3>1, SetStatusType, Zenon DEF RowStatus, Live
    <3>3. outbox' \in Seq(Event) /\ Len(outbox') >= Len(outbox)
      BY <1>11, <2>2, <3>1, <3>2, ProjectType DEF Deactivate
    <3> QED BY <1>11, <2>1, <3>1, <3>2, <3>3 DEF Deactivate
  <2>3. CASE act[m].status \notin Live
    BY <1>11, <2>1, <2>3 DEF Deactivate
  <2> QED BY <2>2, <2>3, Zenon
<1>12. ASSUME NEW m \in Machine, NEW n \in Nonce, Heartbeat(m, n)
       PROVE  TablesOK'
  <2>1. nonces' \in [Nonce -> Time]
    BY <1>12 DEF Heartbeat, RecordNonce, Time
  <2>2. act[m] \in Row \ {NoRow}
    BY <1>12 DEF Heartbeat, NoRow
  <2>3. act' \in [Machine -> Row]
    BY <1>12, <2>2, Zenon DEF Heartbeat, Row, Time
  <2>4. outbox' \in Seq(Event) /\ Len(outbox') >= Len(outbox)
    BY <1>12, <2>3, ProjectType DEF Heartbeat
  <2> QED BY <1>12, <2>1, <2>3, <2>4 DEF Heartbeat
<1>13. ASSUME NEW t \in Machine \cup {NoMachine}, NEW e \in Epoch, RevokeAgain(t, e)
       PROVE  TablesOK'
  BY <1>13, InputAssumption DEF RevokeAgain, Max2
<1>14. ASSUME NEW t \in Machine \cup {NoMachine}, NEW e \in Epoch, Revoke(t, e)
       PROVE  TablesOK'
  <2>1. status' \in LicenseStatus
    BY <1>14 DEF Revoke, LicenseStatus
  <2>2. act' \in [Machine -> Row]
    <3>1. CASE t = NoMachine
      BY <1>14, <3>1 DEF Revoke
    <3>2. CASE t # NoMachine
      <4>1. act[t].status # "none" /\ t \in Machine
        BY <1>14, <3>2 DEF Revoke, Known
      <4>2. act' = SetStatus(t, "revoked")
        BY <1>14, <3>2 DEF Revoke
      <4> QED BY <4>1, <4>2, SetStatusType DEF RowStatus, Live
    <3> QED BY <3>1, <3>2
  <2>3. outbox' \in Seq(Event) /\ Len(outbox') >= Len(outbox)
    BY <1>14, <2>1, <2>2, ProjectType DEF Revoke
  <2>4. revocationEpoch' \in Nat
    BY <1>14, InputAssumption, Zenon DEF Revoke
  <2> QED BY <1>14, <2>1, <2>2, <2>3, <2>4 DEF Revoke
<1>15. ASSUME NEW m \in Machine, NEW n \in Nonce, NEW e \in Epoch \cup {0}, NEW f \in Floor,
              ValidateRefused(m, n, e, f) \/ ValidateKill(m, n, e, f) \/ ValidateTicket(m, n, e, f)
       PROVE  TablesOK'
  <2>1. revocationEpoch' \in Nat /\ securityFloor' \in Nat
    <3>1. RaiseLevels(e, f)
      BY <1>15, Zenon DEF ValidateRefused, ValidateKill, ValidateTicket
    <3>2. e \in Nat /\ f \in Nat
      BY InputAssumption
    <3>3. revocationEpoch \in Nat /\ securityFloor \in Nat
      BY Zenon
    <3> QED BY ONLY <3>1, <3>2, <3>3, Max2Type, Zenon DEF RaiseLevels
  <2>2. nonces' \in [Nonce -> Time]
    BY <1>15, Zenon DEF ValidateRefused, ValidateKill, ValidateTicket, RecordNonce, Time
  <2>3. CASE ValidateRefused(m, n, e, f) \/ ValidateKill(m, n, e, f)
    BY <2>1, <2>2, <2>3, Zenon DEF ValidateRefused, ValidateKill
  <2>4. CASE ValidateTicket(m, n, e, f)
    <3>1. act[m] \in Row \ {NoRow}
      BY <2>4 DEF ValidateTicket, NoRow, Live
    <3>2. act' \in [Machine -> Row]
      BY <2>4, <3>1, Zenon DEF ValidateTicket, Row
    <3>3. outbox' \in Seq(Event) /\ Len(outbox') >= Len(outbox)
      <4>1. Project(m)
        BY <2>4, Zenon DEF ValidateTicket
      <4>2. status' = status
        BY <2>4, Zenon DEF ValidateTicket
      <4> QED BY <3>2, <4>1, <4>2, ProjectType, Zenon
    <3>4. UNCHANGED <<now, config, admin, minted, idem, opIdem, sent, flush>>
      BY <2>4, Zenon DEF ValidateTicket
    <3>5. flush'.left <= Len(outbox')
      <4>1. flush.left \in Nat /\ outbox \in Seq(Event) /\ flush.left <= Len(outbox)
        BY Zenon
      <4> QED BY ONLY <3>3, <3>4, <4>1
    <3> QED BY <2>1, <2>2, <3>2, <3>3, <3>4, <3>5, Zenon
  <2> QED BY <1>15, <2>3, <2>4, Zenon
<1> QED
  BY <1>1, <1>2, <1>3, <1>4, <1>5, <1>6, <1>7, <1>8, <1>9, <1>10, <1>11, <1>12, <1>13, <1>14, <1>15, Zenon
  DEF Request, AdminUpdate

LEMMA ReleasedType ==
    ASSUME now \in Nat, NEW a \in [Machine -> Row], NEW S \in SUBSET LiveRows(a)
    PROVE  Released(a, S) \in [Machine -> Row]
<1>1. ASSUME NEW m \in S PROVE [a[m] EXCEPT !.status = "released", !.seen = now] \in Row
  <2>1. a[m] \in Row \ {NoRow}
    BY <1>1 DEF LiveRows, Live, NoRow
  <2> QED BY <2>1, Zenon DEF Row, RowStatus
<1> QED BY <1>1, Zenon DEF Released, LiveRows

\* The four passes of reclaim: each releases only live rows.
LEMMA PassesType ==
    ASSUME TablesOK
    PROVE  /\ OverduePending \subseteq LiveRows(act)
           /\ Zombies \subseteq LiveRows(PassPending)
           /\ PassPending \in [Machine -> Row]
           /\ PassZombies \in [Machine -> Row]
           /\ PassEnded \in [Machine -> Row]
           /\ PassRetired \in [Machine -> Row]
<1>1. now \in Nat /\ act \in [Machine -> Row]
  BY DEF TablesOK
<1>2. OverduePending \subseteq LiveRows(act)
  BY DEF OverduePending, LiveRows, Live
<1>3. PassPending \in [Machine -> Row]
  BY <1>1, <1>2, ReleasedType DEF PassPending
<1>4. Zombies \subseteq LiveRows(PassPending)
  BY DEF Zombies, OverduePending, PassPending, Released, LiveRows, Live
<1>5. PassZombies \in [Machine -> Row]
  BY <1>1, <1>3, <1>4, ReleasedType DEF PassZombies
<1>6. PassEnded \in [Machine -> Row]
  BY <1>1, <1>5, ReleasedType DEF PassEnded
<1>7. PassRetired \in [Machine -> Row]
  BY <1>6, NoRowType, Zenon DEF PassRetired
<1> QED BY <1>2, <1>3, <1>4, <1>5, <1>6, <1>7

LEMMA AlarmTables == TypeOK /\ AlarmFire => TablesOK'
<1> SUFFICES ASSUME TypeOK, AlarmFire PROVE TablesOK'
  OBVIOUS
<1> USE DEF TypeOK, TablesOK
<1>1. Reclaim
  BY Zenon DEF AlarmFire
<1>2. act' \in [Machine -> Row]
  BY <1>1, PassesType, Zenon DEF Reclaim
<1>3. status' \in LicenseStatus
  BY <1>1 DEF Reclaim, LicenseStatus
<1>4. outbox' \in Seq(Event) /\ Len(outbox') >= Len(outbox)
  <2>1. PICK p \in Orders(OverduePending), z \in Orders(Zombies) :
        \E x \in Orders(IF Ended THEN LiveRows(PassZombies) ELSE {}) :
           outbox' = outbox \o ProjectionsOf(PassPending, status, p)
                            \o ProjectionsOf(PassZombies, status, z)
                            \o ProjectionsOf(PassEnded, "expired", x)
                            \o (IF Ended THEN <<ProjectionOf(PassEnded, "expired", NoMachine)>>
                                         ELSE <<>>)
    BY <1>1, Zenon DEF Reclaim
  <2>2. PICK x \in Orders(IF Ended THEN LiveRows(PassZombies) ELSE {}) :
           outbox' = outbox \o ProjectionsOf(PassPending, status, p)
                            \o ProjectionsOf(PassZombies, status, z)
                            \o ProjectionsOf(PassEnded, "expired", x)
                            \o (IF Ended THEN <<ProjectionOf(PassEnded, "expired", NoMachine)>>
                                         ELSE <<>>)
    BY <2>1, Zenon
  <2>3. ProjectionsOf(PassPending, status, p) \in Seq(Event)
    BY <2>1, PassesType, ProjectionsType, Zenon DEF LiveRows
  <2>4. ProjectionsOf(PassZombies, status, z) \in Seq(Event)
    BY <2>1, PassesType, ProjectionsType, Zenon DEF LiveRows
  <2>5. ProjectionsOf(PassEnded, "expired", x) \in Seq(Event)
    BY <2>2, PassesType, ProjectionsType, Zenon DEF LiveRows, LicenseStatus
  <2>6. ProjectionOf(PassEnded, "expired", NoMachine) \in Event
    BY PassesType, ProjectionType, Zenon DEF LicenseStatus
  <2> QED BY <2>2, <2>3, <2>4, <2>5, <2>6
<1>5. /\ nonces' \in [Nonce -> Time] /\ idem' \in [Key -> Entry]
      /\ opIdem' \in [DeactKey \cup AdminOp \cup ForgetOp -> Time]
  BY <1>1, NoRowType, Zenon DEF Reclaim, Time
<1>6. flush' \in [on: BOOLEAN, left: Nat, start: Nat] /\ flush'.left <= Len(outbox')
  <2>1. CASE outbox' = <<>>
    <3>1. flush' = flush
      BY <2>1 DEF AlarmFire
    <3>2. Len(outbox') = 0 /\ Len(outbox) \in Nat /\ Len(outbox) <= 0
      BY <1>4, <2>1
    <3>3. flush \in [on: BOOLEAN, left: Nat, start: Nat] /\ flush.left <= Len(outbox)
      OBVIOUS
    <3>4. flush.left \in Nat
      BY <3>3
    <3> QED BY ONLY <3>1, <3>2, <3>3, <3>4
  <2>2. CASE outbox' # <<>>
    <3>1. {Len(outbox'), BatchSize} \in SUBSET Nat
      BY <1>4, BoundAssumption
    <3>2. /\ Min({Len(outbox'), BatchSize}) \in {Len(outbox'), BatchSize}
          /\ Min({Len(outbox'), BatchSize}) <= Len(outbox')
      BY <3>1, MinNat, Zenon
    <3>3. flush' = [on |-> TRUE, start |-> now, left |-> Min({Len(outbox'), BatchSize})]
      BY <2>2, Zenon DEF AlarmFire
    <3> QED BY <3>1, <3>2, <3>3
  <2> QED BY <2>1, <2>2
<1> QED BY <1>1, <1>2, <1>3, <1>4, <1>5, <1>6, Zenon DEF Reclaim, admin, levels

LEMMA FlushTables == TypeOK /\ (FlushSend \/ FlushFail \/ FlushEnd \/ Tick) => TablesOK'
<1> SUFFICES ASSUME TypeOK, FlushSend \/ FlushFail \/ FlushEnd \/ Tick PROVE TablesOK'
  OBVIOUS
<1> USE DEF TypeOK, TablesOK, config, admin, levels, rows, caches, delivery
<1>1. CASE Tick
  <2>1. now' = now + 1 /\ UNCHANGED <<config, admin, levels, rows, caches, delivery>>
    BY <1>1, Zenon DEF Tick
  <2>2. now \in Nat
    BY Zenon
  <2>3. now' \in Nat
    BY ONLY <2>1, <2>2
  <2> QED BY <2>1, <2>3, Zenon
<1>2. CASE FlushEnd
  <2>1. /\ UNCHANGED <<now, config, admin, levels, rows, caches, outbox, sent>>
        /\ flush' = [on |-> FALSE, left |-> 0, start |-> 0]
    BY <1>2, Zenon DEF FlushEnd
  <2>2. outbox \in Seq(Event)
    BY Zenon
  <2>3. flush' \in [on: BOOLEAN, left: Nat, start: Nat] /\ flush'.left <= Len(outbox')
    BY ONLY <2>1, <2>2
  <2> QED BY <2>1, <2>3, Zenon
<1>3. CASE FlushFail \/ FlushSend
  <2>1. outbox # <<>> /\ Head(outbox) \in Event /\ Tail(outbox) \in Seq(Event)
    BY <1>3 DEF FlushFail, FlushSend
  <2>2. Show(sent, Head(outbox)) \in [lic: LicenseStatus, used: Nat, mach: [Machine -> RowStatus]]
    BY <2>1, Zenon DEF Show, Event
  <2>3. sent' \in [lic: LicenseStatus, used: Nat, mach: [Machine -> RowStatus]]
    BY <1>3, <2>2, Zenon DEF FlushFail, FlushSend
  <2>4. CASE FlushFail
    <3>1. /\ UNCHANGED <<now, config, admin, levels, rows, caches, outbox>>
          /\ flush' = [on |-> FALSE, left |-> 0, start |-> 0]
      BY ONLY <2>4 DEF FlushFail
    <3>2. flush' \in [on: BOOLEAN, left: Nat, start: Nat] /\ flush'.left <= Len(outbox')
      BY <3>1
    <3> QED BY <2>3, <3>1, <3>2, Zenon
  <2>5. CASE FlushSend
    <3>1. flush' \in [on: BOOLEAN, left: Nat, start: Nat] /\ flush'.left = flush.left - 1
      <4>1. flush.left - 1 \in Nat
        <5>1. flush.left \in Nat /\ flush.left > 0
          BY <2>5, Zenon DEF FlushSend
        <5> QED BY ONLY <5>1
      <4>2. flush' = [flush EXCEPT !.left = flush.left - 1]
        BY <2>5 DEF FlushSend
      <4> QED BY <4>1, <4>2, Zenon
    <3>2. outbox' \in Seq(Event) /\ Len(outbox') = Len(outbox) - 1
      BY <2>1, <2>5 DEF FlushSend
    <3>3. flush'.left <= Len(outbox')
      <4>1. flush.left \in Nat /\ outbox \in Seq(Event) /\ flush.left <= Len(outbox)
        BY Zenon
      <4> QED BY ONLY <3>1, <3>2, <4>1
    <3>4. UNCHANGED <<now, config, admin, levels, rows, caches>>
      BY <2>5, Zenon DEF FlushSend
    <3> QED BY <2>3, <3>1, <3>2, <3>3, <3>4, Zenon
  <2> QED BY ONLY <1>3, <2>4, <2>5, Zenon
<1> QED BY <1>1, <1>2, <1>3, Zenon

LEMMA ScheduleNowType == TablesOK => ScheduleNextAlarm(now) \in Time
BY ScheduleType DEF TablesOK

\* A step leaves the alarm alone, deletes it, sets it for now (a retry) or sets
\* it with schedule_next_alarm.
LEMMA AlarmSteps ==
    Next => \/ alarm' \in {alarm, NoTime, now}
            \/ Reschedule
            \/ flush.on /\ alarm' = ScheduleNextAlarm(flush.start)
<1> SUFFICES ASSUME Next
             PROVE  \/ alarm' \in {alarm, NoTime, now}
                    \/ Reschedule
                    \/ flush.on /\ alarm' = ScheduleNextAlarm(flush.start)
  OBVIOUS
<1>1. CASE Request
  BY ZenonT(60), <1>1 DEF Request, InitLicense, AdminUpdate, AdminUpdateStale, AdminUpdateParked,
     AdminUpdateApplied, AdminForget, ReserveAnswered, ReserveRefused, ReserveReused,
     ReserveNew, CompleteAnswered, Complete, Commit, DeactivateAnswered, DeactivateRefused,
     Deactivate, Heartbeat, RevokeAgain, Revoke, ValidateRefused, ValidateKill, ValidateTicket
<1>2. CASE AlarmFire
  BY <1>2 DEF AlarmFire
<1>3. CASE FlushSend \/ FlushFail \/ FlushEnd \/ Tick
  BY <1>3 DEF FlushSend, FlushFail, FlushEnd, Tick
<1> QED BY <1>1, <1>2, <1>3 DEF Next

LEMMA TypeNext == TypeOK /\ [Next]_vars => TypeOK'
<1> SUFFICES ASSUME TypeOK, [Next]_vars PROVE TypeOK'
  OBVIOUS
<1>1. TablesOK'
  <2>1. CASE Next
    BY <2>1, RequestTables, AlarmTables, FlushTables DEF Next
  <2>2. CASE UNCHANGED vars
    BY <2>2, Zenon DEF TypeOK, TablesOK, vars, config, admin, levels, rows, caches, delivery
  <2> QED BY <2>1, <2>2
<1>2. alarm' \in Time
  <2>1. CASE Next
    <3>1. TablesOK' => (ScheduleNextAlarm(now) \in Time)'
      BY ScheduleNowType, PTL
    <3>2. CASE alarm' \in {alarm, NoTime, now}
      BY <3>2 DEF TypeOK, TablesOK, Time
    <3>3. CASE Reschedule
      BY <1>1, <3>1, <3>3 DEF Reschedule, Time
    <3>4. CASE alarm' = ScheduleNextAlarm(flush.start)
      BY <3>4, ScheduleType DEF TypeOK, TablesOK
    <3> QED BY <2>1, <3>2, <3>3, <3>4, AlarmSteps
  <2>2. CASE UNCHANGED vars
    BY <2>2 DEF TypeOK, vars
  <2> QED BY <2>1, <2>2
<1> QED BY <1>1, <1>2 DEF TypeOK

\* Whatever requests, alarms, failed sends and restarts happen, the tables, the
\* outbox batch of a running alarm and the alarm keep their types.
THEOREM TypeCorrect == Spec => []TypeOK
BY TypeInit, TypeNext, PTL DEF Spec

(***************************************************************************)
(* Safety                                                                  *)
(***************************************************************************)

\* A step that creates no row: rows keep their device, the dead stay dead and
\* the revoked stay revoked.
RowsShrink ==
    \A m \in Machine :
        /\ act'[m].status # "none" => Known(m) /\ act'[m].fp = act[m].fp
        /\ act'[m].status \in Live => act[m].status \in Live
        /\ act[m].status = "revoked" => act'[m].status \in {"revoked", "none"}

\* Every handler except a granted reservation only shrinks the rows.
LEMMA RequestShrinks ==
    ASSUME TypeOK, LedgerInv, Request
    PROVE  \/ RowsShrink
           \/ \E k \in Key, b \in Body, m \in Machine, f \in Floor : ReserveNew(k, b, m, f)
<1> DEFINE Goal == \/ RowsShrink
                   \/ \E k \in Key, b \in Body, m \in Machine, f \in Floor : ReserveNew(k, b, m, f)
<1>1. CASE UNCHANGED act
  BY <1>1, Zenon DEF RowsShrink, Known
<1>2. ASSUME NEW o \in ForgetOp, AdminForget(o)
      PROVE  Goal
  <2>1. act \in [Machine -> Row] /\ ForgetTarget[o] \in Machine
    BY InputAssumption, Zenon DEF TypeOK, TablesOK
  <2>2. act' = act \/ act' = [act EXCEPT ![ForgetTarget[o]] = NoRow]
    BY <1>2, Zenon DEF AdminForget
  <2>3. \A m \in Machine : act'[m] = act[m] \/ act'[m] = NoRow
    BY ONLY <2>1, <2>2, Zenon
  <2>4. RowsShrink
    BY ONLY <2>3, NoRowIsDead, Zenon DEF RowsShrink, Known
  <2> QED BY <2>4, Zenon
<1>3. ASSUME NEW k \in Key, Complete(k)
      PROVE  Goal
  <2>1. idem[k].m \in Machine
    <3>1. idem[k] \in Entry /\ idem[k].st = "held"
      BY <1>3, Zenon DEF TypeOK, TablesOK, Complete
    <3>2. idem[k].st # "none"
      BY ONLY <3>1
    <3> QED BY ONLY <3>1, <3>2, FullEntry, Zenon
  <2>2. Known(idem[k].m) /\ act[idem[k].m].fp = FpOf[idem[k].body]
    BY <1>3, <2>1, Zenon DEF LedgerInv, Complete, Completable, Known, Live
  <2>3. act[idem[k].m] \in Row \ {NoRow}
    <3>1. act \in [Machine -> Row]
      BY DEF TypeOK, TablesOK
    <3>2. act[idem[k].m] # NoRow
      BY <2>2 DEF Known, NoRow
    <3> QED BY <2>1, <3>1, <3>2, Zenon
  <2> QED BY <1>3, <2>1, <2>2, <2>3, Zenon
          DEF Complete, Completable, RowsShrink, Known, Live, TypeOK, TablesOK, Row
<1>4. ASSUME NEW m \in Machine, NEW st \in {"active", "released", "revoked"},
             act' = SetStatus(m, st), Known(m),
             st = "active" => act[m].status \in Live,
             act[m].status = "revoked" => st = "revoked"
      PROVE  RowsShrink
  <2>1. act[m] \in Row \ {NoRow}
    BY <1>4, FullRow, Zenon DEF TypeOK, TablesOK, Known
  <2> QED BY <1>4, <2>1, Zenon DEF SetStatus, RowsShrink, Known, Live, TypeOK, TablesOK, Row
<1>5. ASSUME NEW m \in Machine, Commit(m)
      PROVE  Goal
  BY <1>1, <1>4, <1>5, Zenon DEF Commit, Known, Live
<1>6. ASSUME NEW k \in DeactKey, NEW m \in Machine, NEW n \in Nonce, Deactivate(k, m, n)
      PROVE  Goal
  BY <1>1, <1>4, <1>6, Zenon DEF Deactivate, Known, Live
<1>7. ASSUME NEW t \in Machine \cup {NoMachine}, NEW e \in Epoch, Revoke(t, e)
      PROVE  Goal
  BY <1>1, <1>4, <1>7, Zenon DEF Revoke, Known
<1>8. ASSUME NEW m \in Machine, NEW n \in Nonce, NEW e, NEW f,
             Heartbeat(m, n) \/ ValidateTicket(m, n, e, f)
      PROVE  Goal
  <2>1. act[m] \in Row \ {NoRow}
    BY <1>8 DEF TypeOK, TablesOK, NoRow, Heartbeat, ValidateTicket, Live
  <2>2. act \in [Machine -> Row]
    BY DEF TypeOK, TablesOK
  <2>3. act'[m].status = act[m].status /\ act'[m].fp = act[m].fp
    <3>1. CASE act' = [act EXCEPT ![m].hb = now, ![m].seen = now]
      BY <2>1, <2>2, <3>1 DEF Row
    <3>2. CASE act' = [act EXCEPT ![m].seen = now]
      BY <2>1, <2>2, <3>2 DEF Row
    <3> QED BY <1>8, <3>1, <3>2, Zenon DEF Heartbeat, ValidateTicket
  <2>4. \A x \in Machine : x # m => act'[x] = act[x]
    BY <1>8, <2>2 DEF Heartbeat, ValidateTicket
  <2>5. RowsShrink
    BY <2>3, <2>4, Zenon DEF RowsShrink, Known
  <2> QED BY <2>5
<1>9. \/ UNCHANGED act
      \/ \E o \in ForgetOp : AdminForget(o)
      \/ \E k \in Key : Complete(k)
      \/ \E m \in Machine : Commit(m)
      \/ \E k \in DeactKey, m \in Machine, n \in Nonce : Deactivate(k, m, n)
      \/ \E t \in Machine \cup {NoMachine}, e \in Epoch : Revoke(t, e)
      \/ \E m \in Machine, n \in Nonce : Heartbeat(m, n)
      \/ \E m \in Machine, n \in Nonce, e \in Epoch \cup {0}, f \in Floor :
            ValidateTicket(m, n, e, f)
      \/ \E k \in Key, b \in Body, m \in Machine, f \in Floor : ReserveNew(k, b, m, f)
  BY ZenonT(60) DEF Request, InitLicense, AdminUpdate, AdminUpdateStale, AdminUpdateParked,
     AdminUpdateApplied, ReserveAnswered, ReserveRefused, ReserveReused,
     CompleteAnswered, DeactivateAnswered, DeactivateRefused, RevokeAgain, ValidateRefused,
     ValidateKill, rows
<1> QED BY <1>1, <1>2, <1>3, <1>5, <1>6, <1>7, <1>8, <1>9, Zenon

\* The passes of reclaim release live rows and delete released ones.
LEMMA ReclaimShrinks ==
    ASSUME TypeOK, Reclaim
    PROVE  RowsShrink
<1>1. act \in [Machine -> Row]
  BY DEF TypeOK, TablesOK
<1> DEFINE Kept(a) == \A m \in Machine :
                        \/ a[m] = act[m]
                        \/ /\ act[m].status \in Live /\ a[m].status = "released"
                           /\ a[m].fp = act[m].fp
<1>2. ASSUME NEW a \in [Machine -> Row], NEW S \in SUBSET LiveRows(a), Kept(a)
      PROVE  Kept(Released(a, S))
  <2>1. SUFFICES ASSUME NEW m \in Machine
                 PROVE  \/ Released(a, S)[m] = act[m]
                        \/ /\ act[m].status \in Live /\ Released(a, S)[m].status = "released"
                           /\ Released(a, S)[m].fp = act[m].fp
    BY Zenon
  <2>2. CASE m \in S
    <3>1. a[m] \in Row \ {NoRow} /\ a[m].status \in Live
      BY ONLY <2>2 DEF LiveRows, Live, NoRow
    <3>2. a[m] = act[m]
      BY <1>2, <3>1, Zenon DEF Live
    <3>3. Released(a, S)[m] = [a[m] EXCEPT !.status = "released", !.seen = now]
      BY <2>2 DEF Released
    <3> QED BY <3>1, <3>2, <3>3 DEF Row
  <2>3. CASE m \notin S
    BY <1>2, <2>3 DEF Released
  <2> QED BY <2>2, <2>3, Zenon
<1>3. TablesOK /\ Kept(act)
  BY Zenon DEF TypeOK
<1>4. Kept(PassPending)
  BY <1>1, <1>2, <1>3, PassesType, Zenon DEF PassPending
<1>5. Kept(PassZombies)
  BY <1>2, <1>3, <1>4, PassesType, Zenon DEF PassZombies
<1>6. Kept(PassEnded)
  BY ONLY <1>2, <1>3, <1>5, PassesType DEF PassEnded
<1>7. ASSUME NEW m \in Machine
      PROVE  act'[m] \in {NoRow, PassEnded[m]}
  BY Zenon DEF Reclaim, PassRetired
<1>8. Retired \subseteq {m \in Machine : act[m].status = "released"}
  BY DEF Retired
<1>9. ASSUME NEW m \in Machine, act[m].status = "revoked"
      PROVE  act'[m] = act[m]
  BY <1>6, <1>8, <1>9, Zenon DEF Reclaim, PassRetired, Live
<1> QED BY ONLY <1>6, <1>7, <1>9 DEF RowsShrink, Known, NoRow, Live

LEMMA NextShrinks ==
    ASSUME TypeOK, LedgerInv, [Next]_vars
    PROVE  \/ RowsShrink
           \/ \E k \in Key, b \in Body, m \in Machine, f \in Floor : ReserveNew(k, b, m, f)
<1>1. CASE Request
  BY <1>1, RequestShrinks
<1>2. CASE AlarmFire
  BY <1>2, ReclaimShrinks, Zenon DEF AlarmFire
<1>3. CASE UNCHANGED act
  BY ONLY <1>3 DEF RowsShrink, Known
<1> QED BY <1>1, <1>2, <1>3 DEF Next, FlushSend, FlushFail, FlushEnd, Tick, rows, vars

\* An idempotency entry keeps its machine and body, or is bound to an existing
\* row of its device.
EntriesFollow ==
    /\ minted' = minted
    /\ \A k \in Key : idem'[k].st # "none" =>
         \/ /\ idem[k].st # "none"
            /\ idem'[k].m = idem[k].m /\ idem'[k].body = idem[k].body
         \/ /\ Known(idem'[k].m) /\ idem'[k].m \in Machine
            /\ act[idem'[k].m].fp = FpOf[idem'[k].body]

LEMMA NextEntries ==
    ASSUME TypeOK, [Next]_vars
    PROVE  \/ EntriesFollow
           \/ \E k \in Key, b \in Body, m \in Machine, f \in Floor : ReserveNew(k, b, m, f)
<1>1. CASE UNCHANGED <<minted, idem>>
  BY ONLY <1>1 DEF EntriesFollow
<1>2. ASSUME NEW k \in Key, NEW b \in Body, NEW f \in Floor, ReserveRefused(k, b, f)
      PROVE  EntriesFollow
  BY <1>2, Zenon DEF ReserveRefused, EntriesFollow, rows, NoEntry, TypeOK, TablesOK
<1>3. ASSUME NEW k \in Key, NEW b \in Body, NEW f \in Floor, ReserveReused(k, b, f)
      PROVE  EntriesFollow
  <2>1. PICK m \in SameDevice(b) :
          idem' = [idem EXCEPT ![k] = [st |-> "held", body |-> b, m |-> m, at |-> now]]
    BY <1>3, Zenon DEF ReserveReused
  <2>2. m \in Machine /\ Known(m) /\ act[m].fp = FpOf[b]
    BY <2>1, Zenon DEF SameDevice, LiveRows, Known, Live
  <2>3. \A x \in Key : idem'[x] = IF x = k THEN [st |-> "held", body |-> b, m |-> m, at |-> now]
                                           ELSE idem[x]
    <3>1. DOMAIN idem = Key
      BY DEF TypeOK, TablesOK
    <3> QED BY <2>1, <3>1, Zenon
  <2>4. UNCHANGED <<act, minted>>
    BY <1>3, Zenon DEF ReserveReused, rows
  <2>5. idem'[k].m = m /\ idem'[k].body = b
    BY ONLY <2>3
  <2>6. \A x \in Key : x # k => idem'[x] = idem[x]
    BY ONLY <2>3
  <2> HIDE DEF TypeOK, TablesOK
  <2> QED BY <2>2, <2>4, <2>5, <2>6, Zenon DEF EntriesFollow
<1>4. ASSUME NEW k \in Key, Complete(k)
      PROVE  EntriesFollow
  <2>1. idem[k] \in [st: {"held", "issued"}, body: Body, m: Machine, at: Nat]
    <3>1. idem[k] \in Entry /\ idem[k].st = "held"
      BY <1>4, Zenon DEF TypeOK, TablesOK, Complete
    <3>2. idem[k].st # "none"
      BY ONLY <3>1
    <3> QED BY ONLY <3>1, <3>2, FullEntry, Zenon
  <2> QED BY <1>4, <2>1, Zenon DEF Complete, EntriesFollow, TypeOK, TablesOK
<1>5. CASE AlarmFire
  BY <1>5, Zenon DEF AlarmFire, Reclaim, EntriesFollow, NoEntry
<1>6. \/ UNCHANGED <<minted, idem>>
      \/ \E k \in Key, b \in Body, f \in Floor : ReserveRefused(k, b, f) \/ ReserveReused(k, b, f)
      \/ \E k \in Key : Complete(k)
      \/ AlarmFire
      \/ \E k \in Key, b \in Body, m \in Machine, f \in Floor : ReserveNew(k, b, m, f)
  BY ZenonT(60) DEF Next, vars, rows, caches, Request, InitLicense, AdminUpdate, AdminUpdateStale,
     AdminUpdateParked, AdminUpdateApplied, AdminForget, ReserveAnswered, CompleteAnswered,
     Commit, DeactivateAnswered, DeactivateRefused, Deactivate, Heartbeat, RevokeAgain, Revoke,
     ValidateRefused, ValidateKill, ValidateTicket, FlushSend, FlushFail, FlushEnd, Tick
<1> QED BY <1>1, <1>2, <1>3, <1>4, <1>5, <1>6, Zenon

\* The license gets its status with its first /init, and a parked admin update
\* is gone from then on; a revoked license stays revoked.
LEMMA StatusNext ==
    ASSUME TypeOK, LedgerInv, [Next]_vars
    PROVE  /\ (status' = "none") = ~initialized'
           /\ initialized' => pendingAdmin' = NoOp
           /\ status = "revoked" => status' = "revoked"
<1> USE DEF LedgerInv
<1>1. CASE UNCHANGED <<initialized, status, pendingAdmin>>
  BY <1>1, Zenon
<1>2. ASSUME NEW s, NEW h, NEW e, InitLicense(s, h, e)
      PROVE  /\ status' # "none" /\ initialized' /\ pendingAdmin' = NoOp
             /\ status = "revoked" => status' = "revoked"
  BY <1>2, InputAssumption, Zenon DEF InitLicense, TypeOK, TablesOK
<1>3. ASSUME NEW o \in AdminOp, AdminUpdateParked(o)
      PROVE  UNCHANGED <<initialized, status>> /\ ~initialized
  BY <1>3, Zenon DEF AdminUpdateParked, config
<1>4. ASSUME NEW o \in AdminOp, AdminUpdateApplied(o)
      PROVE  /\ UNCHANGED <<initialized, pendingAdmin>> /\ initialized
             /\ status' # "none" /\ status # "revoked"
  BY <1>4, InputAssumption, Zenon DEF AdminUpdateApplied, MayUpdate
<1>5. ASSUME NEW t \in Machine \cup {NoMachine}, NEW e \in Epoch, Revoke(t, e)
      PROVE  /\ UNCHANGED <<initialized, pendingAdmin>> /\ initialized
             /\ status' \in {status, "revoked"}
  BY <1>5, Zenon DEF Revoke, admin
<1>6. CASE AlarmFire
  BY <1>6, Zenon DEF AlarmFire, Reclaim, Ended, admin
<1> DEFINE Cases == \/ UNCHANGED <<initialized, status, pendingAdmin>>
                    \/ \E s \in SeatCount, h \in HeartbeatSec, e \in Expiry : InitLicense(s, h, e)
                    \/ \E o \in AdminOp : AdminUpdateParked(o) \/ AdminUpdateApplied(o)
                    \/ \E t \in Machine \cup {NoMachine}, e \in Epoch : Revoke(t, e)
                    \/ AlarmFire
<1> DEFINE Same == UNCHANGED <<initialized, status, pendingAdmin>>
<1>7. ASSUME NEW k \in Key, NEW b \in Body, NEW f \in Floor,
             \/ ReserveAnswered(k, b, f) \/ ReserveRefused(k, b, f) \/ ReserveReused(k, b, f)
             \/ \E m \in Machine : ReserveNew(k, b, m, f)
      PROVE  Same
  BY <1>7, Zenon DEF config, admin, ReserveAnswered, ReserveRefused, ReserveReused, ReserveNew
<1>8. ASSUME NEW k, CompleteAnswered(k) \/ Complete(k) \/ Commit(k) \/ DeactivateAnswered(k)
      PROVE  Same
  BY <1>8, Zenon DEF config, admin, CompleteAnswered, Complete, Commit, DeactivateAnswered
<1>9. ASSUME NEW k, NEW m, NEW n, NEW e, NEW f,
             \/ DeactivateRefused(k, m, n) \/ Deactivate(k, m, n) \/ Heartbeat(m, n)
             \/ RevokeAgain(m, e) \/ ValidateRefused(m, n, e, f)
             \/ ValidateKill(m, n, e, f) \/ ValidateTicket(m, n, e, f)
      PROVE  Same
  BY <1>9, Zenon DEF config, admin, DeactivateRefused, Deactivate, Heartbeat, RevokeAgain,
              ValidateRefused, ValidateKill, ValidateTicket
<1>10. ASSUME NEW o, AdminUpdateStale(o) \/ AdminForget(o)
      PROVE  Same
  BY <1>10, Zenon DEF config, admin, AdminUpdateStale, AdminForget
<1>11. Request => Cases
  BY <1>7, <1>8, <1>9, <1>10, Zenon DEF Request, AdminUpdate
<1>12. Next \/ UNCHANGED vars => Request \/ Cases
  BY Zenon DEF Next, vars, config, admin, FlushSend, FlushFail, FlushEnd, Tick
<1> HIDE DEF Cases
<1>13. Cases
  BY <1>11, <1>12, Zenon
<1> QED BY <1>1, <1>2, <1>3, <1>4, <1>5, <1>6, <1>13, Zenon DEF Cases

LEMMA LedgerInit ==
    ASSUME Init
    PROVE  LedgerInv
BY Zenon DEF Init, LedgerInv, OneSeatPerDevice, Known, Live, NoRow, NoEntry

\* A granted reservation keeps the ledger: its machine id is new, and no live
\* row has its device.
LEMMA LedgerReserve ==
    ASSUME TypeOK, LedgerInv, NEW k \in Key, NEW b \in Body, NEW m \in Machine, NEW f \in Floor,
           ReserveNew(k, b, m, f)
    PROVE  /\ \A x \in Machine : (Known(x))' => x \in minted'
           /\ \A x \in Key : idem'[x].st # "none" =>
                /\ idem'[x].m \in minted'
                /\ act'[idem'[x].m].status # "none" => act'[idem'[x].m].fp = FpOf[idem'[x].body]
           /\ OneSeatPerDevice'
<1>1. /\ m \notin minted /\ minted' = minted \cup {m}
      /\ SameDevice(b) = {}
  BY Zenon DEF ReserveNew
<1> DEFINE new == [fp |-> FpOf[b], status |-> "pending", created |-> now, seen |-> now, hb |-> NoTime]
           entry == [st |-> "held", body |-> b, m |-> m, at |-> now]
<1>2. \A x \in Machine : act'[x] = IF x = m THEN new ELSE act[x]
  <2>1. act \in [Machine -> Row]
    BY Zenon DEF TypeOK, TablesOK
  <2>2. act' = [act EXCEPT ![m] = new]
    BY Zenon DEF ReserveNew
  <2> QED BY ONLY <2>1, <2>2, Zenon
<1>3. \A x \in Key : idem'[x] = IF x = k THEN entry ELSE idem[x]
  BY Zenon DEF ReserveNew, TypeOK, TablesOK
<1>4. \A x \in Machine : (Known(x))' => x \in minted'
  BY <1>1, <1>2, Zenon DEF LedgerInv, Known
<1>5. ASSUME NEW x \in Key, idem'[x].st # "none"
      PROVE  /\ idem'[x].m \in minted'
             /\ act'[idem'[x].m].status # "none" => act'[idem'[x].m].fp = FpOf[idem'[x].body]
  <2>1. CASE x = k
    <3>1. idem'[x] = entry /\ entry.m = m /\ entry.body = b
      BY <1>3, <2>1, Zenon
    <3>2. act'[m] = new /\ new.fp = FpOf[b]
      BY <1>2, Zenon
    <3>3. m \in minted'
      BY <1>1
    <3>4. idem'[x].m = m /\ idem'[x].body = b
      BY <3>1, Zenon
    <3>5. act'[m].fp = FpOf[b]
      BY <3>2, Zenon
    <3> QED BY <3>3, <3>4, <3>5, Zenon
  <2>2. CASE x # k
    <3>1. idem'[x] = idem[x] /\ idem[x].m \in minted /\ idem[x].m # m /\ idem[x].m \in Machine
      BY <1>1, <1>3, <1>5, <2>2, Zenon DEF LedgerInv, TypeOK, TablesOK
    <3>2. act'[idem[x].m] = act[idem[x].m]
      BY <1>2, <3>1, Zenon
    <3>3. act[idem[x].m].status # "none" => act[idem[x].m].fp = FpOf[idem[x].body]
      BY <1>5, <3>1, Zenon DEF LedgerInv, Known
    <3>4. idem[x].m \in minted'
      BY <1>1, <3>1, Zenon
    <3> QED BY <3>1, <3>2, <3>3, <3>4, Zenon
  <2> QED BY <2>1, <2>2, Zenon
<1>6. OneSeatPerDevice'
  <2>1. SUFFICES ASSUME NEW x \in Machine, NEW y \in Machine, act'[x].status \in Live,
                        act'[y].status \in Live, act'[x].fp = act'[y].fp
                 PROVE  x = y
    BY Zenon DEF OneSeatPerDevice
  <2>2. \A z \in Machine : act[z].status \in Live => act[z].fp # FpOf[b]
    BY ONLY <1>1 DEF SameDevice, LiveRows
  <2>3. act'[m] = new /\ new.fp = FpOf[b]
    BY <1>2, Zenon
  <2>4. ASSUME NEW z \in Machine, z # m PROVE act'[z] = act[z]
    BY <1>2, <2>4, Zenon
  <2>5. CASE x = m /\ y = m
    BY <2>5
  <2>6. CASE x = m /\ y # m
    BY <2>1, <2>2, <2>3, <2>4, <2>6, Zenon
  <2>7. CASE x # m /\ y = m
    BY <2>1, <2>2, <2>3, <2>4, <2>7, Zenon
  <2>8. CASE x # m /\ y # m
    <3>1. act'[x] = act[x] /\ act'[y] = act[y]
      BY ONLY <2>4, <2>8
    <3> HIDE DEF new
    <3> QED BY <2>1, <3>1, Zenon DEF LedgerInv, OneSeatPerDevice
  <2> QED BY <2>5, <2>6, <2>7, <2>8
<1> QED BY <1>4, <1>5, <1>6, Zenon

LEMMA LedgerNext ==
    ASSUME TypeOK, LedgerInv, [Next]_vars
    PROVE  LedgerInv'
<1>1. /\ (status' = "none") = ~initialized'
      /\ initialized' => pendingAdmin' = NoOp
  BY StatusNext
<1>2. CASE \E k \in Key, b \in Body, m \in Machine, f \in Floor : ReserveNew(k, b, m, f)
  BY <1>1, <1>2, LedgerReserve, Zenon DEF LedgerInv, Known
<1>3. CASE RowsShrink /\ EntriesFollow
  <2>1. \A m \in Machine : act'[m].status # "none" => m \in minted'
    BY <1>3, Zenon DEF RowsShrink, EntriesFollow, LedgerInv, Known
  <2>2. ASSUME NEW k \in Key, idem'[k].st # "none"
        PROVE  /\ idem'[k].m \in minted'
               /\ act'[idem'[k].m].status # "none" =>
                    act'[idem'[k].m].fp = FpOf[idem'[k].body]
    <3>1. /\ idem'[k].m \in minted
          /\ Known(idem'[k].m) => act[idem'[k].m].fp = FpOf[idem'[k].body]
      BY <1>3, <2>2, Zenon DEF EntriesFollow, LedgerInv, Known
    <3>2. idem'[k].m \in Machine
      BY <3>1, Zenon DEF TypeOK, TablesOK
    <3> QED BY ONLY <1>3, <3>1, <3>2, Zenon DEF RowsShrink, EntriesFollow
  <2>3. OneSeatPerDevice'
    BY <1>3 DEF RowsShrink, LedgerInv, OneSeatPerDevice, Live
  <2> QED BY <1>1, <2>1, <2>2, <2>3, Zenon DEF LedgerInv, Known
<1> QED BY <1>2, <1>3, NextShrinks, NextEntries

\* In every behaviour rows and reservations carry drawn machine ids, a
\* reservation carries its row's device, and no parked admin update outlives the
\* first /init.
THEOREM LedgerCorrect == Spec => []LedgerInv
<1>1. Init => LedgerInv
  BY LedgerInit
<1>2. TypeOK /\ LedgerInv /\ [Next]_vars => LedgerInv'
  BY LedgerNext
<1> QED BY <1>1, <1>2, TypeCorrect, PTL DEF Spec

\* No interleaving of retried activations, completions and releases gives one
\* device two seats of a license.
THEOREM OneSeat == Spec => []OneSeatPerDevice
<1>1. LedgerInv => OneSeatPerDevice
  BY Zenon DEF LedgerInv
<1> QED BY <1>1, LedgerCorrect, PTL

\* A machine id whose seat was given up never holds a seat again.
THEOREM DeadStay == Spec => DeadStaysDead
<1>1. ASSUME TypeOK, LedgerInv, [Next]_vars
      PROVE  \A m \in minted : act[m].status \notin Live => act'[m].status \notin Live
  <2>1. minted \subseteq Machine
    BY ONLY <1>1 DEF TypeOK, TablesOK
  <2>2. CASE RowsShrink
    BY ONLY <2>1, <2>2 DEF RowsShrink
  <2>3. CASE \E k \in Key, b \in Body, m \in Machine, f \in Floor : ReserveNew(k, b, m, f)
    BY <1>1, <2>1, <2>3, Zenon DEF ReserveNew, TypeOK, TablesOK
  <2> QED BY <1>1, <2>2, <2>3, NextShrinks, Zenon
<1>2. TypeOK /\ LedgerInv /\ [Next]_vars
        => [\A m \in minted : act[m].status \notin Live => act'[m].status \notin Live]_vars
  BY ONLY <1>1
<1> QED BY <1>2, TypeCorrect, LedgerCorrect, PTL DEF Spec, DeadStaysDead

\* Nothing leads out of a revoked license or a revoked activation.
THEOREM RevokedFinal == Spec => RevokedIsFinal
<1>1. ASSUME TypeOK, LedgerInv, [Next]_vars
      PROVE  /\ status = "revoked" => status' = "revoked"
             /\ \A m \in Machine :
                  act[m].status = "revoked" => act'[m].status \in {"revoked", "none"}
  <2>1. CASE RowsShrink
    BY ONLY <1>1, <2>1, StatusNext DEF RowsShrink
  <2>2. CASE \E k \in Key, b \in Body, m \in Machine, f \in Floor : ReserveNew(k, b, m, f)
    <3>1. \A m \in Machine : act[m].status = "revoked" => m \in minted
      BY ONLY <1>1 DEF LedgerInv, Known
    <3>2. \A m \in Machine : act[m].status = "revoked" => act'[m] = act[m]
      BY <1>1, <2>2, <3>1, Zenon DEF ReserveNew, TypeOK, TablesOK
    <3> QED BY <1>1, <3>2, StatusNext, Zenon
  <2> QED BY ONLY <1>1, <2>1, <2>2, NextShrinks, Zenon
<1>2. TypeOK /\ LedgerInv /\ [Next]_vars
        => [/\ status = "revoked" => status' = "revoked"
            /\ \A m \in Machine :
                 act[m].status = "revoked" => act'[m].status \in {"revoked", "none"}]_vars
  BY ONLY <1>1
<1> QED BY <1>2, TypeCorrect, LedgerCorrect, PTL DEF Spec, RevokedIsFinal

\* The number of occupied seats grows only by a reservation of a usable license
\* with a free seat, and by one.
THEOREM SeatGranted == Spec => SeatGrant
<1>1. ASSUME TypeOK, LedgerInv, [Next]_vars, Occupied(act') > Occupied(act)
      PROVE  ReserveOpen /\ Occupied(act') <= seats
  <2>1. \A S \in SUBSET Machine : IsFiniteSet(S) /\ Cardinality(S) \in Nat
    BY ONLY MachineAssumption, FS_Subset, FS_CardinalityType, Zenon
  <2>2. ~RowsShrink
    <3>1. RowsShrink => LiveRows(act') \subseteq LiveRows(act)
      BY DEF RowsShrink, LiveRows
    <3>2. LiveRows(act) \in SUBSET Machine /\ LiveRows(act') \in SUBSET Machine
      BY DEF LiveRows
    <3>3. RowsShrink => Cardinality(LiveRows(act')) <= Cardinality(LiveRows(act))
      BY <2>1, <3>1, <3>2, FS_Subset
    <3> QED BY <1>1, <2>1, <3>2, <3>3 DEF Occupied
  <2>3. PICK k \in Key, b \in Body, m \in Machine, f \in Floor : ReserveNew(k, b, m, f)
    BY <1>1, <2>2, NextShrinks
  <2>4. LiveRows(act') \subseteq LiveRows(act) \cup {m}
    BY <1>1, <2>3, Zenon DEF ReserveNew, LiveRows, TypeOK, TablesOK
  <2>5. Cardinality(LiveRows(act) \cup {m}) <= Cardinality(LiveRows(act)) + 1
    <3>1. IsFiniteSet(LiveRows(act)) /\ Cardinality(LiveRows(act)) \in Nat
      BY <2>1 DEF LiveRows
    <3>2. CASE m \in LiveRows(act)
      <4>1. Cardinality(LiveRows(act) \cup {m}) = Cardinality(LiveRows(act))
        BY <3>1, <3>2, FS_AddElement, Zenon
      <4> QED BY ONLY <3>1, <4>1
    <3>3. CASE m \notin LiveRows(act)
      <4>1. Cardinality(LiveRows(act) \cup {m}) = Cardinality(LiveRows(act)) + 1
        BY <3>1, <3>3, FS_AddElement, Zenon
      <4> QED BY <3>1, <4>1
    <3> QED BY <3>2, <3>3
  <2>6. Cardinality(LiveRows(act')) <= Cardinality(LiveRows(act) \cup {m})
    <3>1. LiveRows(act) \cup {m} \in SUBSET Machine
      BY DEF LiveRows
    <3> QED BY <2>1, <2>4, <3>1, FS_Subset
  <2>7. /\ LiveRows(act) \in SUBSET Machine /\ LiveRows(act') \in SUBSET Machine
        /\ LiveRows(act) \cup {m} \in SUBSET Machine
    BY DEF LiveRows
  <2>8. Occupied(act) < seats /\ ReserveOpen
    BY <2>3, Zenon DEF ReserveNew, ReserveProceeds, SeatFree
  <2>9. seats \in Nat
    BY <1>1, Zenon DEF TypeOK, TablesOK
  <2> QED BY <2>1, <2>5, <2>6, <2>7, <2>8, <2>9 DEF Occupied
<1>2. TypeOK /\ LedgerInv /\ [Next]_vars
        => [Occupied(act') > Occupied(act) => ReserveOpen /\ Occupied(act') <= seats]_vars
  BY <1>1
<1> QED BY <1>2, TypeCorrect, LedgerCorrect, PTL DEF Spec, SeatGrant
==============================================================================
