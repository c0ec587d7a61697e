------------------------ MODULE LicenseDeliveryProofs ------------------------
(***************************************************************************)
(* Proofs that LicenseDO's alarm covers everything that waits for it, that *)
(* an idempotency key stays with its machine, and that the outbox tells of *)
(* every change.                                                           *)
(***************************************************************************)
EXTENDS LicenseDOProofs

\* What AlarmCovers asks of the alarm time a.
CoveredBy(a) ==
    /\ outbox # <<>> => a # NoTime /\ a <= now
    /\ \A d \in Deadlines : a # NoTime /\ (a <= now \/ a <= d + MaxFlush)

\* schedule_next_alarm(t) covers everything when t is at most one alarm run old:
\* its delay counts from now, so it is late by now - t at most.
LEMMA ScheduleCovers ==
    ASSUME TablesOK, NEW t \in Nat, t <= now, now <= t + MaxFlush
    PROVE  CoveredBy(ScheduleNextAlarm(t))
<1> DEFINE W == WakeTimes(t)
           a == ScheduleNextAlarm(t)
<1>1. now \in Nat /\ MaxFlush \in Nat
  BY BoundAssumption DEF TablesOK
<1>2. ASSUME NEW w \in W
      PROVE  a # NoTime /\ (a <= now \/ a <= w + MaxFlush) /\ (w <= t => a <= now)
  <2>1. W \subseteq Nat
    BY WakeTimesNat
  <2>2. w \in Nat /\ Min(W) \in Nat /\ Min(W) <= w
    BY <2>1, MinNat
  <2>3. a = now + Max2(0, Min(W) - t)
    BY <1>2 DEF ScheduleNextAlarm
  <2> HIDE DEF W, a
  <2> QED BY <1>1, <2>2, <2>3 DEF Max2, NoTime
<1>3. outbox # <<>> => t \in W
  BY DEF WakeTimes, OutboxWake
<1>4. Deadlines \subseteq W
  BY DEF WakeTimes, Deadlines
<1> HIDE DEF W, a
<1>5. outbox # <<>> => a # NoTime /\ a <= now
  BY <1>2, <1>3
<1>6. \A d \in Deadlines : a # NoTime /\ (a <= now \/ a <= d + MaxFlush)
  BY <1>2, <1>4
<1> QED BY <1>5, <1>6 DEF CoveredBy, a

\* schedule_next_alarm of the present time covers everything.
LEMMA ScheduleNowCovers == TablesOK => CoveredBy(ScheduleNextAlarm(now))
<1>1. TablesOK => now \in Nat /\ now <= now /\ now <= now + MaxFlush
  BY BoundAssumption DEF TablesOK
<1> QED BY <1>1, ScheduleCovers

\* A handler schedules the alarm anew, or adds neither an unsent event nor a
\* deadline.
LEMMA RequestSchedules ==
    ASSUME TypeOK, Request
    PROVE  /\ UNCHANGED <<now, flush>>
           /\ \/ Reschedule
              \/ /\ UNCHANGED <<alarm, outbox, heartbeat, expires, status>>
                 /\ \A m \in Machine : act'[m] \in {act[m], NoRow}
<1>1. ASSUME NEW o \in ForgetOp, AdminForget(o)
      PROVE  /\ UNCHANGED <<now, flush, alarm, outbox, heartbeat, expires, status>>
             /\ \A m \in Machine : act'[m] \in {act[m], NoRow}
  BY <1>1, InputAssumption DEF AdminForget, config, delivery, TypeOK, TablesOK
<1> DEFINE Quiet == /\ UNCHANGED <<now, flush>>
                    /\ \/ \E o \in ForgetOp : AdminForget(o)
                       \/ Reschedule
                       \/ UNCHANGED <<alarm, config, rows, delivery>>
<1>2. ASSUME NEW t, NEW h, NEW e, InitLicense(t, h, e) PROVE Quiet
  BY <1>2, Zenon DEF InitLicense, delivery
<1>3. ASSUME NEW o, AdminUpdate(o) PROVE Quiet
  BY <1>3, Zenon DEF AdminUpdate, AdminUpdateStale, AdminUpdateParked, AdminUpdateApplied, delivery
<1>4. ASSUME NEW k, NEW b, NEW f,
             ReserveAnswered(k, b, f) \/ ReserveRefused(k, b, f) \/ ReserveReused(k, b, f)
      PROVE  Quiet
  BY <1>4, Zenon DEF ReserveAnswered, ReserveRefused, ReserveReused, delivery
<1>5. ASSUME NEW k, NEW b, NEW m, NEW f, ReserveNew(k, b, m, f) PROVE Quiet
  BY <1>5, Zenon DEF ReserveNew, delivery
<1>6. ASSUME NEW k, CompleteAnswered(k) \/ Complete(k) PROVE Quiet
  BY <1>6, Zenon DEF CompleteAnswered, Complete, delivery
<1>7. ASSUME NEW m, Commit(m) PROVE Quiet
  BY <1>7, Zenon DEF Commit, delivery
<1>8. ASSUME NEW k, DeactivateAnswered(k) PROVE Quiet
  BY <1>8, Zenon DEF DeactivateAnswered, delivery
<1>9. ASSUME NEW k, NEW m, NEW n, DeactivateRefused(k, m, n) \/ Deactivate(k, m, n) PROVE Quiet
  BY <1>9, Zenon DEF DeactivateRefused, Deactivate, delivery
<1>10. ASSUME NEW m, NEW n, Heartbeat(m, n) PROVE Quiet
  BY <1>10, Zenon DEF Heartbeat, delivery
<1>11. ASSUME NEW t, NEW e, RevokeAgain(t, e) \/ Revoke(t, e) PROVE Quiet
  BY <1>11, Zenon DEF RevokeAgain, Revoke, delivery
<1>12. ASSUME NEW m, NEW n, NEW e, NEW f, ValidateRefused(m, n, e, f) \/ ValidateKill(m, n, e, f)
                                          \/ ValidateTicket(m, n, e, f)
       PROVE  Quiet
  BY <1>12, Zenon DEF ValidateRefused, ValidateKill, ValidateTicket, delivery
<1>13. ASSUME NEW o \in ForgetOp, AdminForget(o) PROVE Quiet
  BY <1>1, <1>13, Zenon
<1> HIDE DEF Quiet
<1>14. Quiet
  BY <1>2, <1>3, <1>4, <1>5, <1>6, <1>7, <1>8, <1>9, <1>10, <1>11, <1>12, <1>13, Zenon DEF Request
<1>15. CASE UNCHANGED <<alarm, config, rows, delivery>>
  BY <1>14, <1>15 DEF config, rows, delivery, Quiet
<1> QED BY <1>1, <1>14, <1>15, Zenon DEF Quiet

\* Where rows only vanish, no deadline appears.
LEMMA DeadlinesShrink ==
    ASSUME UNCHANGED <<heartbeat, expires, status>>,
           \A m \in Machine : act'[m] \in {act[m], NoRow}
    PROVE  Deadlines' \subseteq Deadlines
<1>1. \A m \in Machine : act'[m].status # "none" => act'[m] = act[m]
  BY DEF NoRow
<1>2. PendingWake' \subseteq PendingWake
  BY <1>1 DEF PendingWake
<1>3. RetentionWake' \subseteq RetentionWake
  BY <1>1 DEF RetentionWake
<1>4. HeartbeatWake' \subseteq HeartbeatWake
  BY <1>1 DEF HeartbeatWake, LastBeat
<1>5. ExpiryWake' = ExpiryWake
  BY DEF ExpiryWake
<1> QED BY <1>2, <1>3, <1>4, <1>5 DEF Deadlines

\* Every step keeps the alarm ahead of what waits for it.
LEMMA CoversNext ==
    ASSUME TypeOK, FlushTimely, AlarmCovers, [Next]_vars
    PROVE  FlushTimely' /\ AlarmCovers'
<1> USE BoundAssumption
<1>1. ASSUME Reschedule PROVE AlarmCovers'
  <2>1. TablesOK'
    BY TypeNext DEF TypeOK
  <2>2. TablesOK' => CoveredBy(ScheduleNextAlarm(now))'
    BY ScheduleNowCovers, PTL
  <2> QED BY <1>1, <2>1, <2>2 DEF Reschedule, CoveredBy, AlarmCovers
<1>2. ASSUME UNCHANGED <<flush, alarm, outbox>>, now' \in {now, now + 1},
             Deadlines' \subseteq Deadlines
      PROVE  AlarmCovers'
  <2>1. now \in Nat /\ alarm \in Int /\ now <= now'
    BY <1>2 DEF TypeOK, TablesOK, Time, NoTime
  <2>2. alarm <= now => alarm <= now'
    BY <1>2, <2>1
  <2> QED BY <1>2, <2>2 DEF AlarmCovers
<1>3. CASE Request
  <2>1. UNCHANGED <<now, flush>>
    BY <1>3, RequestSchedules
  <2>2. CASE Reschedule
    BY <1>1, <2>1, <2>2 DEF FlushTimely
  <2>3. CASE UNCHANGED <<alarm, outbox>> /\ Deadlines' \subseteq Deadlines
    BY <1>2, <2>1, <2>3 DEF FlushTimely
  <2> QED BY <1>3, <2>2, <2>3, RequestSchedules, DeadlinesShrink
<1>4. CASE AlarmFire
  <2>1. now' = now /\ now \in Nat
    BY <1>4, Zenon DEF AlarmFire, Reclaim, TypeOK, TablesOK
  <2>2. CASE outbox' = <<>>
    BY <1>1, <1>4, <2>1, <2>2 DEF AlarmFire, FlushTimely
  <2>3. CASE outbox' # <<>>
    <3>1. flush' = [on |-> TRUE, start |-> now, left |-> Min({Len(outbox'), BatchSize})]
      BY <1>4, <2>3 DEF AlarmFire
    <3>2. flush'.on /\ flush'.start = now
      BY <3>1
    <3> QED BY <2>1, <3>2 DEF AlarmCovers, FlushTimely
  <2> QED BY <2>2, <2>3
<1>5. CASE FlushSend
  BY <1>5 DEF FlushSend, FlushTimely, AlarmCovers, TypeOK, TablesOK
<1>6. CASE FlushFail
  <2>1. now \in Nat /\ now # NoTime /\ alarm' = now /\ now' = now /\ ~flush'.on
    BY <1>6 DEF FlushFail, TypeOK, TablesOK, NoTime
  <2> QED BY <2>1 DEF FlushTimely, AlarmCovers
<1>7. CASE FlushEnd
  <2>1. /\ ~flush'.on /\ flush.on
        /\ UNCHANGED <<now, config, act, outbox>>
        /\ alarm' = ScheduleNextAlarm(flush.start)
    BY <1>7 DEF FlushEnd, rows
  <2>2. flush.start \in Nat /\ TablesOK
    BY DEF TypeOK, TablesOK
  <2>3. CoveredBy(alarm')
    BY <2>1, <2>2, ScheduleCovers DEF FlushTimely
  <2>4. Deadlines' = Deadlines
    BY <2>1 DEF config, Deadlines, PendingWake, RetentionWake, HeartbeatWake, LastBeat, ExpiryWake
  <2> QED BY <2>1, <2>3, <2>4 DEF CoveredBy, AlarmCovers, FlushTimely
<1>8. CASE Tick
  <2>1. UNCHANGED <<flush, alarm, outbox>> /\ now' = now + 1
    BY <1>8 DEF Tick, delivery
  <2>2. Deadlines' = Deadlines
    BY <1>8 DEF Tick, config, rows, Deadlines, PendingWake, RetentionWake, HeartbeatWake,
       LastBeat, ExpiryWake
  <2>3. FlushTimely'
    <3>1. now \in Nat /\ flush.start \in Nat /\ MaxFlush \in Nat
      BY BoundAssumption, Zenon DEF TypeOK, TablesOK
    <3>2. FlushTimely /\ (flush.on => now < flush.start + MaxFlush)
      BY <1>8, Zenon DEF Tick
    <3> QED BY ONLY <2>1, <3>1, <3>2 DEF FlushTimely
  <2> QED BY <1>2, <2>1, <2>2, <2>3
<1>9. CASE UNCHANGED vars
  BY <1>9 DEF vars, config, rows, delivery, FlushTimely, AlarmCovers, Deadlines, PendingWake,
     RetentionWake, HeartbeatWake, LastBeat, ExpiryWake
<1> QED BY <1>3, <1>4, <1>5, <1>6, <1>7, <1>8, <1>9 DEF Next

\* Whatever requests interleave with an alarm run that awaits the queue, and
\* however sends fail, no unsent event and no deadline is left without an alarm.
THEOREM AlarmSafe == Spec => []AlarmCovers
<1>1. Init => FlushTimely /\ AlarmCovers
  BY DEF Init, FlushTimely, AlarmCovers, Deadlines, PendingWake, RetentionWake, HeartbeatWake,
     ExpiryWake, NoRow
<1>2. TypeOK /\ FlushTimely /\ AlarmCovers /\ [Next]_vars => (FlushTimely /\ AlarmCovers)'
  BY CoversNext
<1> QED BY <1>1, <1>2, TypeCorrect, PTL DEF Spec

\* An idempotency key that can still be replayed stays with its machine and its
\* request: only an entry that expired or lost its seat is replaced.
THEOREM KeyKeeps == Spec => KeyKeepsItsMachine
<1>1. ASSUME TypeOK, [Next]_vars, NEW k \in Key,
             idem[k].st # "none",
             idem[k].st = "issued" \/ act[idem[k].m].status \in Live,
             now < idem[k].at + IdemTtl
      PROVE  idem'[k].m = idem[k].m /\ idem'[k].body = idem[k].body
  <2>1. CASE UNCHANGED idem
    BY <2>1
  <2>2. ASSUME NEW x \in Key, NEW b, NEW e, ReserveProceeds(x, b),
               idem' = [idem EXCEPT ![x] = e]
        PROVE  idem'[k] = idem[k]
    BY <1>1, <2>2 DEF ReserveProceeds, Replayable, TypeOK, TablesOK
  <2>3. ASSUME NEW x \in Key, Complete(x)
        PROVE  idem'[k].m = idem[k].m /\ idem'[k].body = idem[k].body
    <3>1. idem[x] \in [st: {"held", "issued"}, body: Body, m: Machine, at: Nat]
      <4>1. idem[x] \in Entry /\ idem[x].st = "held"
        BY <1>1, <2>3, Zenon DEF TypeOK, TablesOK, Complete
      <4>2. idem[x].st # "none"
        BY ONLY <4>1
      <4> QED BY ONLY <4>1, <4>2, FullEntry, Zenon
    <3> QED BY <2>3, <3>1, <1>1 DEF Complete, TypeOK, TablesOK
  <2>4. CASE AlarmFire
    <3>1. idem[k] \in [st: {"held", "issued"}, body: Body, m: Machine, at: Nat]
      BY ONLY <1>1 DEF TypeOK, TablesOK, Entry, NoEntry
    <3>2. ~(idem[k].at <= now - IdemTtl)
      BY <1>1, <3>1, BoundAssumption DEF TypeOK, TablesOK
    <3> QED BY <2>4, <3>2, Zenon DEF AlarmFire, Reclaim
  <2>5. \/ UNCHANGED idem
        \/ \E x \in Key, b \in Body, f \in Floor :
              \/ ReserveRefused(x, b, f) \/ ReserveReused(x, b, f)
              \/ \E m \in Machine : ReserveNew(x, b, m, f)
        \/ \E x \in Key : Complete(x)
        \/ AlarmFire
    BY <1>1, ZenonT(60) DEF Next, vars, caches, Request, InitLicense, AdminUpdate,
       AdminUpdateStale, AdminUpdateParked, AdminUpdateApplied, AdminForget, ReserveAnswered,
       CompleteAnswered, Commit, DeactivateAnswered, DeactivateRefused, Deactivate, Heartbeat,
       RevokeAgain, Revoke, ValidateRefused, ValidateKill, ValidateTicket, FlushSend, FlushFail,
       FlushEnd, Tick
  <2>6. ASSUME NEW x \in Key, NEW b \in Body, NEW f \in Floor,
               \/ ReserveRefused(x, b, f) \/ ReserveReused(x, b, f)
               \/ \E m \in Machine : ReserveNew(x, b, m, f)
        PROVE  idem'[k] = idem[k]
    BY <2>2, <2>6 DEF ReserveRefused, ReserveReused, ReserveNew
  <2> QED BY <2>1, <2>3, <2>4, <2>5, <2>6
<1>2. TypeOK /\ [Next]_vars
        => [\A k \in Key :
              /\ idem[k].st # "none"
              /\ idem[k].st = "issued" \/ act[idem[k].m].status \in Live
              /\ now < idem[k].at + IdemTtl
              => idem'[k].m = idem[k].m /\ idem'[k].body = idem[k].body]_vars
  BY <1>1
<1> QED BY <1>2, TypeCorrect, PTL DEF Spec, KeyKeepsItsMachine

(***************************************************************************)
(* ProjectionFaithful.  The lemmas take the outbox and the table as        *)
(* parameters: reclaim passes through intermediate ones.                   *)
(***************************************************************************)

\* What a consumer that shows view shows of machine m after the events of ob.
ShownAfter(ob, view, m) ==
    LET I == {i \in DOMAIN ob : ob[i].m = m}
    IN  IF I = {} THEN view[m] ELSE ob[Max(I)].mst

\* The event i of ob is the last one about machine m.
LastAbout(ob, m, i) ==
    /\ i \in DOMAIN ob /\ ob[i].m = m
    /\ \A j \in DOMAIN ob : ob[j].m = m => j <= i

\* Every row of the table a is shown with its status.
RowsShown(ob, view, a) ==
    \A m \in Machine : a[m].status # "none" => ShownAfter(ob, view, m) = a[m].status

\* The last event of ob, or what was sent before it, has the license's status and
\* enough seats.
LatestTells(ob, view, a, lic) ==
    IF ob # <<>> THEN ob[Len(ob)].lst = lic /\ ob[Len(ob)].used >= Occupied(a)
                 ELSE view.lic \in {"none", lic} /\ view.used >= Occupied(a)

\* The maximum of a set of naturals, where there is one.
LEMMA MaxIs ==
    ASSUME NEW S \in SUBSET Nat, NEW i \in S, \A j \in S : j <= i
    PROVE  Max(S) = i
<1>1. i \in S /\ \A y \in S : i >= y
  OBVIOUS
<1>2. Max(S) \in S /\ \A y \in S : Max(S) >= y
  BY <1>1, Zenon DEF Max
<1>3. Max(S) \in Nat /\ i \in Nat /\ Max(S) >= i /\ Max(S) <= i
  BY <1>1, <1>2, Zenon
<1> QED BY <1>3

\* The consumer shows what the last event about m says.
LEMMA LastIsShown ==
    ASSUME NEW ob \in Seq(Event), NEW view, NEW m, NEW i, LastAbout(ob, m, i)
    PROVE  ShownAfter(ob, view, m) = ob[i].mst
<1> DEFINE I == {j \in DOMAIN ob : ob[j].m = m}
<1>1. i \in I /\ I \in SUBSET Nat /\ \A j \in I : j <= i
  BY DEF LastAbout
<1>2. Max(I) = i
  <2> HIDE DEF I
  <2> QED BY <1>1, MaxIs
<1> QED BY <1>1, <1>2 DEF ShownAfter

\* An outbox says nothing about m, or has a last event about it.
LEMMA LastExists ==
    ASSUME NEW ob \in Seq(Event), NEW m
    PROVE  (\A i \in DOMAIN ob : ob[i].m # m) \/ (\E i : LastAbout(ob, m, i))
<1> DEFINE n == Len(ob)
           D == {n - i : i \in {j \in DOMAIN ob : ob[j].m = m}}
<1> SUFFICES ASSUME NEW k \in DOMAIN ob, ob[k].m = m
             PROVE  \E i : LastAbout(ob, m, i)
  OBVIOUS
<1>1. n \in Nat /\ DOMAIN ob = 1..n
  OBVIOUS
<1>2. D \in SUBSET Nat /\ D # {}
  BY <1>1
<1>3. Min(D) \in D /\ \A y \in D : Min(D) <= y
  BY <1>2, MinNat, Zenon
<1>4. PICK i \in DOMAIN ob : ob[i].m = m /\ Min(D) = n - i
  BY <1>3, Zenon
<1>5. ASSUME NEW j \in DOMAIN ob, ob[j].m = m PROVE j <= i
  <2>1. n - j \in D
    BY <1>5
  <2>2. n - i <= n - j
    BY <1>3, <1>4, <2>1, Zenon
  <2> QED BY <1>1, <1>4, <1>5, <2>2
<1> QED BY <1>4, <1>5 DEF LastAbout

\* A consumer of an outbox without an event about m goes on showing what it did.
LEMMA NoneIsShown ==
    ASSUME NEW ob, NEW view, NEW m, \A i \in DOMAIN ob : ob[i].m # m
    PROVE  ShownAfter(ob, view, m) = view[m]
BY DEF ShownAfter

\* append_projection of the table b, which differs from a shown table a in the row
\* of m alone, leaves every row of b shown.
LEMMA AppendShown ==
    ASSUME NEW ob \in Seq(Event), NEW view, NEW a, NEW b, NEW lic, RowsShown(ob, view, a),
           NEW m \in Machine \cup {NoMachine}, ProjectionOf(b, lic, m) \in Event,
           \A x \in Machine : x # m => b[x].status \in {a[x].status, "none"}
    PROVE  RowsShown(Append(ob, ProjectionOf(b, lic, m)), view, b)
<1> DEFINE e == ProjectionOf(b, lic, m)
           to == Append(ob, e)
<1>1. e.m = m /\ (m \in Machine => e.mst = b[m].status)
  BY MachineAssumption DEF ProjectionOf
<1>2. to \in Seq(Event) /\ Len(ob) \in Nat /\ DOMAIN ob = 1..Len(ob)
      /\ DOMAIN to = 1..(Len(ob) + 1) /\ to[Len(ob) + 1] = e
      /\ \A i \in 1..Len(ob) : to[i] = ob[i]
  <2>1. e \in Event
    OBVIOUS
  <2> HIDE DEF e
  <2> QED BY <2>1
<1> HIDE DEF e, to
<1> SUFFICES ASSUME NEW x \in Machine, b[x].status # "none"
             PROVE  ShownAfter(to, view, x) = b[x].status
  BY DEF RowsShown, to, e
<1>3. CASE x = m
  <2>1. LastAbout(to, x, Len(ob) + 1)
    BY <1>1, <1>2, <1>3 DEF LastAbout
  <2> QED BY ONLY <1>1, <1>2, <1>3, <2>1, LastIsShown
<1>4. CASE x # m
  <2>1. ShownAfter(ob, view, x) = b[x].status
    BY <1>4 DEF RowsShown
  <2>2. CASE \A i \in DOMAIN ob : ob[i].m # x
    <3>1. \A i \in DOMAIN to : to[i].m # x
      BY ONLY <1>1, <1>2, <1>4, <2>2
    <3> QED BY <2>1, <2>2, <3>1, NoneIsShown
  <2>3. ASSUME NEW i, LastAbout(ob, x, i) PROVE ShownAfter(to, view, x) = b[x].status
    <3>1. LastAbout(to, x, i)
      BY <1>1, <1>2, <1>4, <2>3 DEF LastAbout
    <3>2. ob[i] = to[i]
      BY <1>2, <2>3 DEF LastAbout
    <3> QED BY ONLY <1>2, <2>1, <2>3, <3>1, <3>2, LastIsShown
  <2> QED BY <2>2, <2>3, LastExists, Zenon
<1> QED BY <1>3, <1>4, Zenon

\* Every order of the rows of S is an order of all of them.
LEMMA OrderReaches ==
    ASSUME NEW S \in SUBSET Machine, NEW order \in Orders(S)
    PROVE  /\ order \in [1..Cardinality(S) -> S] /\ Cardinality(S) \in Nat
           /\ \A x \in S : \E k \in 1..Cardinality(S) : order[k] = x
<1> DEFINE n == Cardinality(S)
<1>1. IsFiniteSet(S) /\ n \in Nat
  BY MachineAssumption, FS_Subset, FS_CardinalityType
<1>2. IsFiniteSet(1..n) /\ Cardinality(1..n) = n
  BY <1>1, FS_Interval
<1>3. order \in Injection(1..n, S)
  BY DEF Orders, Injection, IsInjective
<1>4. order \in Surjection(1..n, S)
  BY <1>1, <1>2, <1>3, FS_Injection
<1> QED BY <1>1, <1>4 DEF Surjection

\* The events evs tell of exactly the rows S of the table b.
TellsOf(evs, S, b) ==
    /\ \A k \in DOMAIN evs : evs[k].m \in S /\ evs[k].mst = b[evs[k].m].status
    /\ \A x \in S : \E k \in DOMAIN evs : evs[k].m = x

\* Events about the rows in which the table b differs from a shown table a leave
\* every row of b shown.
LEMMA ConcatShown ==
    ASSUME NEW ob \in Seq(Event), NEW evs \in Seq(Event), NEW view, NEW a, NEW b,
           RowsShown(ob, view, a), NEW S, TellsOf(evs, S, b),
           \A x \in Machine \ S : b[x].status \in {a[x].status, "none"}
    PROVE  RowsShown(ob \o evs, view, b)
<1> DEFINE n == Len(ob)
           to == ob \o evs
<1>1. /\ to \in Seq(Event) /\ n \in Nat /\ Len(evs) \in Nat
      /\ DOMAIN ob = 1..n /\ DOMAIN evs = 1..Len(evs) /\ DOMAIN to = 1..(n + Len(evs))
      /\ \A i \in 1..n : to[i] = ob[i]
      /\ \A i \in 1..(n + Len(evs)) : i > n => to[i] = evs[i - n] /\ i - n \in 1..Len(evs)
  OBVIOUS
<1>2. \A k \in 1..Len(evs) : to[n + k] = evs[k] /\ n + k \in 1..(n + Len(evs))
  OBVIOUS
<1> HIDE DEF n, to
<1> SUFFICES ASSUME NEW x \in Machine, b[x].status # "none"
             PROVE  ShownAfter(to, view, x) = b[x].status
  BY Zenon DEF RowsShown, to
<1>3. CASE x \in S
  <2>1. PICK k \in 1..Len(evs) : evs[k].m = x
    BY <1>1, <1>3, Zenon DEF TellsOf
  <2>2. to[n + k].m = x /\ n + k \in DOMAIN to
    BY <1>1, <1>2, <2>1
  <2>3. PICK i : LastAbout(to, x, i)
    BY <1>1, <2>2, LastExists, Zenon
  <2>4. i \in 1..(n + Len(evs)) /\ i > n /\ to[i].m = x
    <3>1. i \in DOMAIN to /\ to[i].m = x /\ n + k <= i
      BY <2>2, <2>3 DEF LastAbout
    <3>2. i \in 1..(n + Len(evs)) /\ n \in Nat /\ k \in Nat /\ k >= 1
      BY <1>1, <3>1
    <3> QED BY <3>1, <3>2
  <2>5. to[i] = evs[i - n] /\ i - n \in DOMAIN evs
    BY <1>1, <2>4, Zenon
  <2>6. to[i].mst = b[x].status
    BY <2>4, <2>5 DEF TellsOf
  <2> QED BY ONLY <1>1, <2>3, <2>6, LastIsShown
<1>4. CASE x \notin S
  <2>1. ShownAfter(ob, view, x) = b[x].status
    BY <1>4, Zenon DEF RowsShown
  <2>2. ASSUME NEW i \in DOMAIN to, to[i].m = x PROVE i \in 1..n /\ to[i] = ob[i]
    <3>1. i \in 1..(n + Len(evs)) /\ n \in Nat
      BY <1>1
    <3>2. CASE i > n
      BY <1>1, <1>4, <2>2, <3>1, <3>2, Zenon DEF TellsOf
    <3>3. CASE i <= n
      BY ONLY <1>1, <3>1, <3>3
    <3> QED BY <3>1, <3>2, <3>3
  <2>3. CASE \A i \in DOMAIN ob : ob[i].m # x
    <3>1. \A i \in DOMAIN to : to[i].m # x
      BY <1>1, <2>2, <2>3, Zenon
    <3>2. ShownAfter(to, view, x) = view[x]
      BY ONLY <3>1, NoneIsShown
    <3>3. ShownAfter(ob, view, x) = view[x]
      BY ONLY <2>3, NoneIsShown
    <3> QED BY ONLY <2>1, <3>2, <3>3, Zenon
  <2>4. ASSUME NEW i, LastAbout(ob, x, i) PROVE ShownAfter(to, view, x) = b[x].status
    <3>1. i \in DOMAIN to /\ to[i] = ob[i]
      BY <1>1, <2>4 DEF LastAbout
    <3>2. LastAbout(to, x, i)
      <4>1. /\ i \in 1..n /\ ob[i].m = x
            /\ \A j \in 1..n : ob[j].m = x => j <= i
        BY ONLY <1>1, <2>4, Zenon DEF LastAbout
      <4>2. ASSUME NEW j \in DOMAIN to, to[j].m = x PROVE j <= i
        <5>1. j \in 1..n /\ to[j] = ob[j]
          BY <2>2, <4>2, Zenon
        <5> QED BY <4>1, <4>2, <5>1, Zenon
      <4> QED BY <3>1, <4>1, <4>2, Zenon DEF LastAbout
    <3>3. ShownAfter(to, view, x) = to[i].mst
      BY ONLY <1>1, <3>2, LastIsShown
    <3>4. ShownAfter(ob, view, x) = ob[i].mst
      <4>1. ob \in Seq(Event)
        OBVIOUS
      <4> QED BY ONLY <2>4, <4>1, LastIsShown
    <3> QED BY ONLY <2>1, <3>1, <3>3, <3>4, Zenon
  <2> QED BY <2>3, <2>4, LastExists, Zenon
<1> QED BY <1>3, <1>4

\* One append_projection per row of S, in any order: the events tell of those rows,
\* and the last of them of the license.
LEMMA ProjectionsTell ==
    ASSUME NEW b \in [Machine -> Row], NEW lic \in LicenseStatus,
           NEW S \in SUBSET Machine, NEW order \in Orders(S)
    PROVE  /\ TellsOf(ProjectionsOf(b, lic, order), S, b)
           /\ \A k \in DOMAIN ProjectionsOf(b, lic, order) :
                /\ ProjectionsOf(b, lic, order)[k].lst = lic
                /\ ProjectionsOf(b, lic, order)[k].used = Occupied(b)
           /\ S = {} => ProjectionsOf(b, lic, order) = <<>>
<1> DEFINE n == Cardinality(S)
           evs == ProjectionsOf(b, lic, order)
<1>1. /\ order \in [1..n -> S] /\ n \in Nat
      /\ \A x \in S : \E k \in 1..n : order[k] = x
  BY OrderReaches
<1>2. DOMAIN evs = 1..n /\ \A k \in 1..n : evs[k] = ProjectionOf(b, lic, order[k])
  BY <1>1, Zenon DEF ProjectionsOf
<1>3. \A m \in S : /\ ProjectionOf(b, lic, m).m = m
                   /\ ProjectionOf(b, lic, m).mst = b[m].status
                   /\ ProjectionOf(b, lic, m).lst = lic
                   /\ ProjectionOf(b, lic, m).used = Occupied(b)
  BY MachineAssumption DEF ProjectionOf
<1>4. S = {} => evs = <<>>
  <2>1. evs \in Seq(Event) /\ Len(evs) = n
    BY ProjectionsType
  <2>2. S = {} => n = 0
    BY FS_EmptySet
  <2> HIDE DEF evs
  <2> QED BY <2>1, <2>2
<1> HIDE DEF n, evs
<1> QED BY <1>1, <1>2, <1>3, <1>4 DEF TellsOf, n, evs

\* A table in which fewer rows live occupies no more seats.
LEMMA OccupiedShrinks ==
    ASSUME NEW a, NEW b, \A x \in Machine : b[x].status \in Live => a[x].status \in Live
    PROVE  Occupied(b) <= Occupied(a)
<1>1. LiveRows(b) \in SUBSET LiveRows(a)
  BY DEF LiveRows
<1>2. IsFiniteSet(LiveRows(a))
  BY OccupiedNat, Zenon
<1> QED BY <1>1, <1>2, FS_Subset DEF Occupied

\* An event that carries the license and the occupied seats tells of both.
LEMMA AppendTells ==
    ASSUME NEW ob \in Seq(Event), NEW view, NEW b, NEW lic, NEW m,
           ProjectionOf(b, lic, m) \in Event
    PROVE  LatestTells(Append(ob, ProjectionOf(b, lic, m)), view, b, lic)
<1> DEFINE e == ProjectionOf(b, lic, m)
           to == Append(ob, e)
<1>1. e.lst = lic /\ e.used = Occupied(b)
  BY Zenon DEF ProjectionOf
<1>2. e \in Event /\ Occupied(b) \in Nat
  BY OccupiedNat
<1> HIDE DEF e
<1>3. to \in Seq(Event) /\ Len(to) = Len(ob) + 1 /\ to[Len(ob) + 1] = e
  BY <1>2
<1>4. to # <<>> /\ to[Len(to)] = e
  BY <1>3
<1> QED BY ONLY <1>1, <1>2, <1>4 DEF LatestTells, e

\* Events that tell of the license keep the last one telling of it.
LEMMA ConcatTells ==
    ASSUME NEW ob \in Seq(Event), NEW evs \in Seq(Event), NEW view, view.used \in Nat,
           NEW a, NEW b, NEW lic, LatestTells(ob, view, a, lic), Occupied(b) <= Occupied(a),
           \A k \in DOMAIN evs : evs[k].lst = lic /\ evs[k].used = Occupied(b)
    PROVE  LatestTells(ob \o evs, view, b, lic)
<1> DEFINE to == ob \o evs
<1>1. Occupied(a) \in Nat /\ Occupied(b) \in Nat
  BY OccupiedNat, Zenon
<1>2. CASE evs = <<>>
  <2>1. to = ob
    BY ONLY <1>2
  <2>2. ob # <<>> => ob[Len(ob)].used \in Nat
    <3>1. ob # <<>> => ob[Len(ob)] \in Event
      OBVIOUS
    <3> QED BY <3>1 DEF Event
  <2> HIDE DEF to
  <2>3. LatestTells(to, view, b, lic)
    BY <1>1, <2>1, <2>2 DEF LatestTells
  <2> QED BY <2>3 DEF to
<1>3. CASE evs # <<>>
  <2>1. Len(evs) \in DOMAIN evs /\ to # <<>> /\ to[Len(to)] = evs[Len(evs)]
    BY <1>3
  <2>2. evs[Len(evs)].lst = lic /\ evs[Len(evs)].used = Occupied(b)
    BY <2>1
  <2> HIDE DEF to
  <2>3. LatestTells(to, view, b, lic)
    BY ONLY <1>1, <2>1, <2>2 DEF LatestTells
  <2> QED BY <2>3 DEF to
<1> QED BY <1>2, <1>3, Zenon

\* The oldest event and the events after it.
LEMMA HeadAndTail ==
    ASSUME NEW ob \in Seq(Event), ob # <<>>
    PROVE  /\ Len(ob) \in Nat /\ Len(ob) >= 1 /\ DOMAIN ob = 1..Len(ob)
           /\ Head(ob) = ob[1] /\ Head(ob) \in Event
           /\ Tail(ob) \in Seq(Event) /\ Len(Tail(ob)) = Len(ob) - 1
           /\ DOMAIN Tail(ob) = 1..(Len(ob) - 1)
           /\ \A i \in 1..(Len(ob) - 1) : Tail(ob)[i] = ob[i + 1]
OBVIOUS

\* Sending the oldest event changes nothing of what will be shown in the end,
\* whether the row is then marked as sent or sent again.
LEMMA SendShown ==
    ASSUME NEW ob \in Seq(Event), ob # <<>>, NEW a, NEW lic,
           NEW view \in [lic: LicenseStatus, used: Nat, mach: [Machine -> RowStatus]],
           RowsShown(ob, view.mach, a), LatestTells(ob, view, a, lic)
    PROVE  LET seen == Show(view, Head(ob))
           IN  /\ RowsShown(Tail(ob), seen.mach, a) /\ LatestTells(Tail(ob), seen, a, lic)
               /\ RowsShown(ob, seen.mach, a) /\ LatestTells(ob, seen, a, lic)
<1> DEFINE e == Head(ob)
           seen == Show(view, e)
           rest == Tail(ob)
           n == Len(ob)
<1>1. /\ n \in Nat /\ n >= 1 /\ DOMAIN ob = 1..n /\ e = ob[1] /\ e \in Event
      /\ rest \in Seq(Event) /\ Len(rest) = n - 1 /\ DOMAIN rest = 1..(n - 1)
      /\ \A i \in 1..(n - 1) : rest[i] = ob[i + 1]
  BY HeadAndTail, Zenon
<1>2. /\ seen.lic = e.lst /\ seen.used = e.used
      /\ \A x \in Machine : seen.mach[x] = IF e.m = x THEN e.mst ELSE view.mach[x]
  <2>1. e.m \in Machine \cup {NoMachine}
    BY <1>1 DEF Event
  <2> HIDE DEF e
  <2> QED BY ONLY <2>1, MachineAssumption DEF Show
<1> HIDE DEF e, seen, rest, n
<1>3. ASSUME NEW x \in Machine
      PROVE  /\ ShownAfter(ob, seen.mach, x) = ShownAfter(ob, view.mach, x)
             /\ ShownAfter(rest, seen.mach, x) = ShownAfter(ob, view.mach, x)
  <2>1. CASE \A i \in DOMAIN ob : ob[i].m # x
    <3>1. ASSUME NEW i \in DOMAIN rest PROVE rest[i].m # x
      <4>1. i \in 1..(n - 1) /\ i + 1 \in 1..n
        BY ONLY <1>1
      <4> QED BY <1>1, <2>1, <4>1
    <3>2. seen.mach[x] = view.mach[x]
      BY ONLY <1>1, <1>2, <2>1
    <3> QED BY ONLY <2>1, <3>1, <3>2, NoneIsShown
  <2>2. ASSUME NEW i, LastAbout(ob, x, i)
        PROVE  /\ ShownAfter(ob, seen.mach, x) = ShownAfter(ob, view.mach, x)
               /\ ShownAfter(rest, seen.mach, x) = ShownAfter(ob, view.mach, x)
    <3>1. /\ ShownAfter(ob, seen.mach, x) = ob[i].mst
          /\ ShownAfter(ob, view.mach, x) = ob[i].mst
      BY ONLY <2>2, LastIsShown, Zenon
    <3>2. i \in 1..n /\ ob[i].m = x /\ \A j \in 1..n : ob[j].m = x => j <= i
      BY <1>1, <2>2, Zenon DEF LastAbout
    <3>3. CASE i = 1
      <4>1. ASSUME NEW j \in DOMAIN rest PROVE rest[j].m # x
        <5>1. j \in 1..(n - 1) /\ j + 1 \in 1..n /\ ~(j + 1 <= i)
          BY <1>1, <3>3
        <5>2. rest[j] = ob[j + 1]
          BY <1>1, <5>1, Zenon
        <5> QED BY <3>2, <5>1, <5>2, Zenon
      <4>2. ShownAfter(rest, seen.mach, x) = seen.mach[x]
        BY ONLY <4>1, NoneIsShown
      <4> QED BY <1>1, <1>2, <3>1, <3>2, <3>3, <4>2, Zenon
    <3>4. CASE i # 1
      <4>1. i - 1 \in 1..(n - 1) /\ rest[i - 1] = ob[i]
        BY <1>1, <3>2, <3>4
      <4>2. ASSUME NEW j \in 1..(n - 1), rest[j].m = x PROVE j <= i - 1
        <5>1. j + 1 \in 1..n /\ ob[j + 1].m = x
          BY ONLY <1>1, <4>2
        <5>2. j + 1 <= i
          BY <3>2, <5>1
        <5> QED BY ONLY <1>1, <3>2, <4>2, <5>2
      <4>3. LastAbout(rest, x, i - 1)
        BY <1>1, <3>2, <4>1, <4>2, Zenon DEF LastAbout
      <4>4. ShownAfter(rest, seen.mach, x) = rest[i - 1].mst
        BY ONLY <1>1, <4>3, LastIsShown
      <4> QED BY <3>1, <4>1, <4>4, Zenon
    <3> QED BY <3>3, <3>4, Zenon
  <2> QED BY <2>1, <2>2, LastExists, Zenon
<1>4. RowsShown(rest, seen.mach, a) /\ RowsShown(ob, seen.mach, a)
  BY <1>3, Zenon DEF RowsShown
<1>5. LatestTells(ob, seen, a, lic)
  BY DEF LatestTells
<1>6. LatestTells(rest, seen, a, lic)
  <2>1. CASE n = 1
    <3>1. rest = <<>>
      BY ONLY <1>1, <2>1
    <3> QED BY <1>1, <1>2, <2>1, <3>1 DEF LatestTells, n
  <2>2. CASE n # 1
    <3>1. rest # <<>> /\ rest[Len(rest)] = ob[n]
      BY <1>1, <2>2
    <3> QED BY <3>1 DEF LatestTells, n
  <2> QED BY <2>1, <2>2
<1> QED BY <1>4, <1>5, <1>6 DEF seen, rest, e

\* What ProjectionFaithful asks of an outbox, a consumer, a table and a status.
Told(ob, view, a, lic) == RowsShown(ob, view.mach, a) /\ LatestTells(ob, view, a, lic)

\* ProjectionFaithful, with outbox, view, table and status as parameters.
LEMMA FaithfulIsTold == ProjectionFaithful <=> Told(outbox, sent, act, status)
BY Zenon DEF ProjectionFaithful, ChangesAreProjected, SeatsUsedNotUnderstated, Shown, ShownAfter,
   RowsShown, LatestTells, Told, Known

\* The same after a step.
LEMMA FaithfulNextIsTold == ProjectionFaithful' <=> Told(outbox', sent', act', status')
<1>1. ProjectionFaithful' <=> Told(outbox, sent, act, status)'
  BY FaithfulIsTold, PTL
<1> QED BY <1>1, Zenon DEF Told, RowsShown, LatestTells, ShownAfter

\* A handler that sends no event lets rows vanish at most, or is the first /init.
SendsNothing ==
    /\ UNCHANGED <<outbox, sent, initialized>>
    /\ status' = status
    /\ \A x \in Machine : act'[x].status \in {act[x].status, "none"}

\* A handler of a known machine or an initialized license sends one event, about
\* the only row it changes.
SendsOne(m) ==
    /\ UNCHANGED <<sent, initialized>>
    /\ Project(m)
    /\ \A x \in Machine : x # m => act'[x].status = act[x].status
    /\ initialized \/ (m \in Machine /\ Known(m))

\* What each request appends: nothing, or one event about the row it changed or about
\* the license.
LEMMA RequestSends ==
    ASSUME TypeOK, LedgerInv, Request
    PROVE  \/ SendsNothing
           \/ \E m \in Machine \cup {NoMachine} : SendsOne(m)
           \/ /\ ~initialized /\ initialized'
              /\ UNCHANGED <<outbox, sent, act>>
<1> DEFINE Goal == \/ SendsNothing
                   \/ \E m \in Machine \cup {NoMachine} : SendsOne(m)
                   \/ /\ ~initialized /\ initialized'
                      /\ UNCHANGED <<outbox, sent, act>>
<1>1. CASE UNCHANGED <<config, rows, delivery>>
  BY ONLY <1>1, Zenon DEF SendsNothing, config, rows, delivery
<1>2. ASSUME NEW s, NEW h, NEW e, InitLicense(s, h, e) PROVE Goal
  BY <1>2, Zenon DEF InitLicense, LedgerInv, rows, delivery, SendsNothing
<1>3. ASSUME NEW o \in AdminOp, AdminUpdateApplied(o) PROVE Goal
  <2>1. SendsOne(NoMachine)
    BY <1>3, Zenon DEF AdminUpdateApplied, MayUpdate, SendsOne, rows
  <2> QED BY <2>1, Zenon
<1>4. ASSUME NEW o \in ForgetOp, AdminForget(o) PROVE Goal
  <2>1. \A x \in Machine : act'[x].status \in {act[x].status, "none"}
    BY ONLY <1>4, InputAssumption DEF AdminForget, NoRow, TypeOK, TablesOK
  <2> QED BY <1>4, <2>1, Zenon DEF AdminForget, SendsNothing, config, delivery
<1>5. ASSUME NEW k \in Key, NEW b \in Body, NEW m \in Machine, NEW f \in Floor,
             ReserveNew(k, b, m, f)
      PROVE  Goal
  <2>1. \A x \in Machine : x # m => act'[x].status = act[x].status
    BY <1>5, Zenon DEF ReserveNew, TypeOK, TablesOK
  <2>2. SendsOne(m)
    BY <1>5, <2>1, Zenon DEF ReserveNew, ReserveProceeds, ReserveOpen, SendsOne, config
  <2> QED BY ONLY <2>2, Zenon
<1>6. ASSUME NEW k \in Key, Complete(k) PROVE Goal
  <2> DEFINE m == idem[k].m
  <2>1. m \in Machine
    <3>1. idem[k] \in Entry /\ idem[k].st = "held"
      BY <1>6, Zenon DEF TypeOK, TablesOK, Complete
    <3>2. idem[k].st # "none"
      BY ONLY <3>1
    <3> QED BY ONLY <3>1, <3>2, FullEntry, Zenon
  <2>2. \A x \in Machine : x # m => act'[x].status = act[x].status
    BY <1>6, Zenon DEF Complete, TypeOK, TablesOK
  <2>3. Known(m)
    BY <1>6, Zenon DEF Complete, Completable, Known, Live
  <2>4. SendsOne(m)
    BY <1>6, <2>1, <2>2, <2>3, Zenon DEF Complete, SendsOne, config
  <2> QED BY <2>1, <2>4
<1>7. ASSUME NEW m \in Machine, NEW st, act' = SetStatus(m, st), Known(m), Project(m),
             UNCHANGED <<sent, initialized>>
      PROVE  Goal
  <2>1. \A x \in Machine : x # m => act'[x].status = act[x].status
    BY <1>7, Zenon DEF SetStatus, TypeOK, TablesOK
  <2>2. SendsOne(m)
    BY ONLY <1>7, <2>1, Zenon DEF SendsOne
  <2> QED BY <2>2
<1>8. CASE UNCHANGED <<act, status, outbox, sent, initialized>>
  BY ONLY <1>8 DEF SendsNothing
<1>9. ASSUME NEW m \in Machine, Commit(m) PROVE Goal
  BY <1>7, <1>8, <1>9, Zenon DEF Commit, Known, Live
<1>10. ASSUME NEW k \in DeactKey, NEW m \in Machine, NEW n \in Nonce, Deactivate(k, m, n)
       PROVE  Goal
  BY <1>7, <1>8, <1>10, Zenon DEF Deactivate, Known, Live
<1>11. ASSUME NEW m \in Machine, NEW n \in Nonce, NEW e, NEW f,
              Heartbeat(m, n) \/ ValidateTicket(m, n, e, f)
       PROVE  Goal
  <2>1. \A x \in Machine : x # m => act'[x].status = act[x].status
    BY <1>11 DEF Heartbeat, ValidateTicket, TypeOK, TablesOK
  <2>2. Known(m)
    BY <1>11 DEF Heartbeat, ValidateTicket, Known, Live
  <2>3. SendsOne(m)
    BY <1>11, <2>1, <2>2 DEF Heartbeat, ValidateTicket, SendsOne, config
  <2> QED BY <2>3
<1>12. ASSUME NEW t \in Machine \cup {NoMachine}, NEW e \in Epoch, Revoke(t, e)
       PROVE  Goal
  <2>1. CASE t = NoMachine
    <3>1. SendsOne(NoMachine)
      BY <1>12, <2>1 DEF Revoke, SendsOne
    <3> QED BY <3>1
  <2>2. CASE t # NoMachine
    BY <1>7, <1>12, <2>2, Zenon DEF Revoke
  <2> QED BY <2>1, <2>2
<1>13. \/ UNCHANGED <<config, rows, delivery>>
       \/ \E s \in SeatCount, h \in HeartbeatSec, e \in Expiry : InitLicense(s, h, e)
       \/ \E o \in AdminOp : AdminUpdateApplied(o)
       \/ \E o \in ForgetOp : AdminForget(o)
       \/ \E k \in Key, b \in Body, f \in Floor, m \in Machine : ReserveNew(k, b, m, f)
       \/ \E k \in Key : Complete(k)
       \/ \E m \in Machine : Commit(m)
       \/ \E k \in DeactKey, m \in Machine, n \in Nonce : Deactivate(k, m, n)
       \/ \E m \in Machine, n \in Nonce : Heartbeat(m, n)
       \/ \E m \in Machine, n \in Nonce, e \in Epoch \cup {0}, f \in Floor :
            ValidateTicket(m, n, e, f)
       \/ \E t \in Machine \cup {NoMachine}, e \in Epoch : Revoke(t, e)
  BY ZenonT(60) DEF Request, AdminUpdate, AdminUpdateStale, AdminUpdateParked, ReserveAnswered,
     ReserveRefused, ReserveReused, CompleteAnswered, DeactivateAnswered, DeactivateRefused,
     RevokeAgain, ValidateRefused, ValidateKill
<1> HIDE DEF Goal
<1> QED BY <1>1, <1>2, <1>3, <1>4, <1>5, <1>6, <1>9, <1>10, <1>11, <1>12, <1>13, Zenon DEF Goal

\* A request tells of all it changes.
LEMMA RequestTold ==
    ASSUME TypeOK, LedgerInv, LedgerInv', SilentBeforeInit, ProjectionFaithful, Request
    PROVE  ProjectionFaithful' /\ SilentBeforeInit'
<1>1. TablesOK /\ TablesOK'
  BY RequestTables DEF TypeOK
<1>2. outbox \in Seq(Event) /\ sent.used \in Nat
  BY <1>1 DEF TablesOK
<1>3. RowsShown(outbox, sent.mach, act) /\ LatestTells(outbox, sent, act, status)
  BY FaithfulIsTold DEF Told
<1>4. ProjectionFaithful' <=> Told(outbox', sent', act', status')
  BY FaithfulNextIsTold
<1>5. CASE SendsNothing
  <2>1. RowsShown(outbox, sent.mach, act')
    BY <1>3, <1>5, Zenon DEF SendsNothing, RowsShown
  <2>2. Occupied(act') <= Occupied(act)
    BY <1>5, OccupiedShrinks DEF SendsNothing, Live
  <2>3. LatestTells(outbox, sent, act', status)
    <3>1. outbox \o <<>> = outbox /\ <<>> \in Seq(Event) /\ DOMAIN <<>> = {}
      BY <1>2
    <3>2. LatestTells(outbox \o <<>>, sent, act', status)
      BY <1>2, <1>3, <2>2, <3>1, ConcatTells, Zenon
    <3> QED BY <3>1, <3>2
  <2>4. SilentBeforeInit'
    BY <1>5 DEF SendsNothing, SilentBeforeInit, Known
  <2> QED BY <1>4, <1>5, <2>1, <2>3, <2>4, Zenon DEF SendsNothing, Told
<1>6. ASSUME NEW m \in Machine \cup {NoMachine}, SendsOne(m)
      PROVE  ProjectionFaithful' /\ SilentBeforeInit'
  <2>1. ProjectionOf(act', status', m) \in Event
    BY <1>1, ProjectionType, Zenon DEF TablesOK
  <2>2. outbox' = Append(outbox, ProjectionOf(act', status', m)) /\ sent' = sent
    BY <1>6 DEF SendsOne, Project
  <2>3. RowsShown(outbox', sent.mach, act')
    BY <1>2, <1>3, <1>6, <2>1, <2>2, AppendShown, Zenon DEF SendsOne
  <2>4. LatestTells(outbox', sent, act', status')
    BY <1>2, <2>1, <2>2, AppendTells, Zenon
  <2>5. initialized'
    BY <1>6 DEF SendsOne, SilentBeforeInit
  <2> QED BY <1>4, <2>2, <2>3, <2>4, <2>5 DEF Told, SilentBeforeInit
<1>7. CASE ~initialized /\ initialized' /\ UNCHANGED <<outbox, sent, act>>
  <2>1. Told(outbox', sent', act', status')
    BY <1>3, <1>7, Zenon DEF Told, LatestTells, SilentBeforeInit
  <2> QED BY <1>4, <1>7, <2>1, Zenon DEF SilentBeforeInit
<1> QED BY <1>5, <1>6, <1>7, RequestSends

\* A pass of reclaim that releases the rows S and sends one event for each of them,
\* in any order.
LEMMA PassTold ==
    ASSUME now \in Nat, NEW ob \in Seq(Event), NEW view, view.used \in Nat,
           NEW a \in [Machine -> Row], NEW lic \in LicenseStatus, NEW new \in LicenseStatus,
           RowsShown(ob, view.mach, a), NEW S \in SUBSET LiveRows(a), NEW order \in Orders(S)
    PROVE  LET b == Released(a, S)
               to == ob \o ProjectionsOf(b, new, order)
           IN  /\ b \in [Machine -> Row] /\ to \in Seq(Event)
               /\ RowsShown(to, view.mach, b)
               /\ LatestTells(ob, view, a, lic) /\ lic = new => LatestTells(to, view, b, lic)
<1> DEFINE b == Released(a, S)
           evs == ProjectionsOf(b, new, order)
<1>1. b \in [Machine -> Row] /\ S \in SUBSET Machine
  BY ReleasedType DEF LiveRows
<1>2. \A x \in Machine \ S : b[x] = a[x]
  BY Zenon DEF Released
<1>3. \A x \in S : b[x].status = "released"
  <2>1. ASSUME NEW x \in S PROVE b[x].status = "released"
    <3>1. a[x] \in Row \ {NoRow} /\ x \in Machine
      BY DEF LiveRows, Live, NoRow
    <3> QED BY <3>1, Zenon DEF Released, Row
  <2> QED BY ONLY <2>1
<1>4. Occupied(b) <= Occupied(a)
  BY <1>1, <1>2, <1>3, OccupiedShrinks DEF Live
<1>5. evs \in Seq(Event)
  <2> HIDE DEF b
  <2> QED BY <1>1, ProjectionsType, Zenon
<1>6. /\ TellsOf(evs, S, b)
      /\ \A k \in DOMAIN evs : evs[k].lst = new /\ evs[k].used = Occupied(b)
  <2> HIDE DEF b
  <2> QED BY ONLY <1>1, ProjectionsTell
<1> HIDE DEF b, evs
<1>7. RowsShown(ob \o evs, view.mach, b)
  BY <1>2, <1>5, <1>6, ConcatShown
<1>8. LatestTells(ob, view, a, lic) /\ lic = new => LatestTells(ob \o evs, view, b, lic)
  BY <1>4, <1>5, <1>6, ConcatTells, Zenon
<1>9. ob \o evs \in Seq(Event)
  BY <1>5
<1> QED BY <1>1, <1>7, <1>8, <1>9, Zenon DEF b, evs

\* reclaim: the overdue pending rows, the silent ones, and at the license's end all
\* that live and the license itself; the purge sends nothing.
LEMMA ReclaimTold ==
    ASSUME TypeOK, ProjectionFaithful, Reclaim
    PROVE  ProjectionFaithful'
<1>1. /\ now \in Nat /\ outbox \in Seq(Event) /\ sent.used \in Nat /\ sent' = sent
      /\ act \in [Machine -> Row] /\ status \in LicenseStatus /\ "expired" \in LicenseStatus
  BY Zenon DEF TypeOK, TablesOK, Reclaim, LicenseStatus
<1>2. RowsShown(outbox, sent.mach, act) /\ LatestTells(outbox, sent, act, status)
  BY FaithfulIsTold DEF Told
<1>3. /\ OverduePending \in SUBSET LiveRows(act)
      /\ Zombies \in SUBSET LiveRows(PassPending)
  BY PassesType DEF TypeOK
<1> DEFINE Rest == IF Ended THEN LiveRows(PassZombies) ELSE {}
<1>4. PICK p \in Orders(OverduePending), z \in Orders(Zombies) :
        \E x \in Orders(Rest) :
          outbox' = outbox \o ProjectionsOf(PassPending, status, p)
                           \o ProjectionsOf(PassZombies, status, z)
                           \o ProjectionsOf(PassEnded, "expired", x)
                           \o (IF Ended THEN <<ProjectionOf(PassEnded, "expired", NoMachine)>>
                                        ELSE <<>>)
  BY Zenon DEF Reclaim
<1> DEFINE o1 == outbox \o ProjectionsOf(PassPending, status, p)
           o2 == o1 \o ProjectionsOf(PassZombies, status, z)
<1>5. PICK x \in Orders(Rest) :
        outbox' = o2 \o ProjectionsOf(PassEnded, "expired", x)
                     \o (IF Ended THEN <<ProjectionOf(PassEnded, "expired", NoMachine)>>
                                  ELSE <<>>)
  BY <1>4, Zenon
<1>6. /\ PassPending \in [Machine -> Row] /\ o1 \in Seq(Event)
      /\ RowsShown(o1, sent.mach, PassPending) /\ LatestTells(o1, sent, PassPending, status)
  BY <1>1, <1>2, <1>3, PassTold, Zenon DEF PassPending
<1> HIDE DEF o1
<1>7. /\ PassZombies \in [Machine -> Row] /\ o2 \in Seq(Event)
      /\ RowsShown(o2, sent.mach, PassZombies) /\ LatestTells(o2, sent, PassZombies, status)
  BY <1>1, <1>3, <1>6, PassTold, Zenon DEF PassZombies
<1> HIDE DEF o2
<1>8. PassEnded \in [Machine -> Row]
  BY PassesType DEF TypeOK
<1>9. /\ outbox' \in Seq(Event)
      /\ RowsShown(outbox', sent.mach, PassEnded) /\ LatestTells(outbox', sent, PassEnded, status')
  <2>1. CASE Ended
    <3> DEFINE o3 == o2 \o ProjectionsOf(PassEnded, "expired", x)
               e == ProjectionOf(PassEnded, "expired", NoMachine)
    <3>1. Rest = LiveRows(PassZombies) /\ PassEnded = Released(PassZombies, Rest)
      BY <2>1, Zenon DEF PassEnded
    <3>2. status' = "expired"
      BY <2>1, Zenon DEF Reclaim
    <3>3. o3 \in Seq(Event) /\ RowsShown(o3, sent.mach, PassEnded)
      <4> HIDE DEF Rest
      <4> QED BY ONLY <1>1, <1>7, <3>1, PassTold, Zenon
    <3>4. e \in Event
      BY <1>1, <1>8, ProjectionType
    <3>5. outbox' = o3 \o <<e>>
      BY <1>5, <2>1
    <3> HIDE DEF o3
    <3>6. outbox' = Append(o3, e) /\ outbox' \in Seq(Event)
      <4> HIDE DEF e
      <4> QED BY ONLY <3>3, <3>4, <3>5
    <3>7. RowsShown(outbox', sent.mach, PassEnded)
      BY ONLY <3>3, <3>4, <3>6, AppendShown
    <3>8. LatestTells(outbox', sent, PassEnded, "expired")
      BY <3>3, <3>4, <3>6, AppendTells
    <3> QED BY <3>2, <3>6, <3>7, <3>8
  <2>2. CASE ~Ended
    <3>1. Rest = {} /\ PassEnded = PassZombies /\ status' = status
      BY <2>2, Zenon DEF PassEnded, Reclaim
    <3>2. ProjectionsOf(PassEnded, "expired", x) = <<>>
      <4>1. x \in Orders({})
        BY <3>1
      <4> QED BY <1>1, <1>8, <4>1, ProjectionsTell, Zenon
    <3>3. outbox' = o2
      BY <1>5, <1>7, <2>2, <3>2
    <3> QED BY <1>7, <3>1, <3>3
  <2> QED BY <2>1, <2>2
<1>10. /\ act' = PassRetired
       /\ \A y \in Machine : PassRetired[y] \in {PassEnded[y], NoRow}
  BY Zenon DEF Reclaim, PassRetired
<1>11. \A y \in Machine : act'[y].status # "none" => act'[y] = PassEnded[y]
  BY ONLY <1>10 DEF NoRow
<1>12. RowsShown(outbox', sent.mach, act')
  BY <1>9, <1>11, Zenon DEF RowsShown
<1>13. LatestTells(outbox', sent, act', status')
  <2>1. Occupied(act') <= Occupied(PassEnded)
    BY ONLY <1>11, OccupiedShrinks, Zenon DEF Live
  <2>2. outbox' \o <<>> = outbox' /\ <<>> \in Seq(Event) /\ DOMAIN <<>> = {}
    BY <1>9
  <2>3. LatestTells(outbox' \o <<>>, sent, act', status')
    BY <1>1, <1>9, <2>1, <2>2, ConcatTells, Zenon
  <2> QED BY <2>2, <2>3, Zenon
<1> QED BY ONLY <1>1, <1>12, <1>13, FaithfulNextIsTold, Zenon DEF Told

\* Before the first /init there is nothing to reclaim and nothing to send.
LEMMA ReclaimSilent ==
    ASSUME TypeOK, LedgerInv, SilentBeforeInit, Reclaim
    PROVE  SilentBeforeInit'
<1> SUFFICES ASSUME ~initialized
             PROVE  outbox' = <<>> /\ sent' = sent /\ \A m \in Machine : ~Known(m)'
  BY Zenon DEF SilentBeforeInit, Reclaim
<1>1. outbox = <<>> /\ status = "none" /\ \A m \in Machine : act[m].status = "none"
  BY Zenon DEF SilentBeforeInit, LedgerInv, Known
<1>2. OverduePending = {} /\ Zombies = {} /\ ~Ended
  BY <1>1 DEF OverduePending, Zombies, Ended
<1>3. ASSUME NEW b, NEW lic, NEW order \in Orders({})
      PROVE  ProjectionsOf(b, lic, order) = <<>>
  <2>1. order \in [1..0 -> {}]
    BY FS_EmptySet DEF Orders
  <2>2. DOMAIN order = {}
    BY <2>1
  <2> QED BY <2>2 DEF ProjectionsOf
<1>4. outbox' = <<>>
  <2> DEFINE Rest == IF Ended THEN LiveRows(PassZombies) ELSE {}
             End == IF Ended THEN <<ProjectionOf(PassEnded, "expired", NoMachine)>> ELSE <<>>
  <2>1. PICK p \in Orders(OverduePending), z \in Orders(Zombies), x \in Orders(Rest) :
          outbox' = outbox \o ProjectionsOf(PassPending, status, p)
                           \o ProjectionsOf(PassZombies, status, z)
                           \o ProjectionsOf(PassEnded, "expired", x)
                           \o End
    BY Zenon DEF Reclaim
  <2>2. Rest = {} /\ End = <<>>
    BY <1>2
  <2>3. /\ ProjectionsOf(PassPending, status, p) = <<>>
        /\ ProjectionsOf(PassZombies, status, z) = <<>>
        /\ ProjectionsOf(PassEnded, "expired", x) = <<>>
    BY <1>2, <1>3, <2>2, Zenon
  <2> HIDE DEF End, Rest
  <2>4. outbox' = <<>> \o <<>> \o <<>> \o <<>> \o <<>>
    BY ONLY <1>1, <2>1, <2>2, <2>3
  <2> QED BY <2>4
<1>5. RowsShrink
  BY ReclaimShrinks
<1> QED BY <1>1, <1>4, <1>5, Zenon DEF RowsShrink, Known, Reclaim

\* However requests, reclaims, sends and failed sends interleave, the outbox and
\* what was sent before it tell of every row, of the license's status and of all
\* the seats in use.
THEOREM ProjectionSafe == Spec => []ProjectionFaithful
<1>1. Init => SilentBeforeInit /\ ProjectionFaithful
  <2> SUFFICES ASSUME Init PROVE SilentBeforeInit /\ ProjectionFaithful
    BY Zenon
  <2>1. \A m \in Machine : act[m].status = "none"
    BY Zenon DEF Init, NoRow
  <2>2. Occupied(act) = 0
    <3>1. LiveRows(act) = {}
      BY <2>1 DEF LiveRows, Live
    <3> QED BY <3>1, FS_EmptySet, Zenon DEF Occupied
  <2>3. RowsShown(outbox, sent.mach, act)
    BY <2>1, Zenon DEF RowsShown
  <2>4. LatestTells(outbox, sent, act, status)
    BY <2>2 DEF Init, LatestTells
  <2> QED BY <2>1, <2>3, <2>4, FaithfulIsTold, Zenon DEF Init, Told, SilentBeforeInit, Known
<1>2. ASSUME TypeOK, LedgerInv, LedgerInv', SilentBeforeInit, ProjectionFaithful, [Next]_vars
      PROVE  (SilentBeforeInit /\ ProjectionFaithful)'
  <2>1. CASE Request
    BY <1>2, <2>1, RequestTold
  <2>2. CASE AlarmFire
    BY <1>2, <2>2, ReclaimTold, ReclaimSilent DEF AlarmFire
  <2>3. CASE FlushSend \/ FlushFail
    <3>1. /\ UNCHANGED <<initialized, status, act>>
          /\ \/ outbox' = outbox /\ sent' = sent
             \/ outbox' = outbox /\ sent' = Show(sent, Head(outbox))
             \/ outbox' = Tail(outbox) /\ sent' = Show(sent, Head(outbox))
      BY <2>3 DEF FlushSend, FlushFail, config, rows
    <3>2. outbox \in Seq(Event) /\ outbox # <<>>
      BY <1>2, <2>3 DEF FlushSend, FlushFail, TypeOK, TablesOK
    <3>3. initialized'
      BY <1>2, <3>1, <3>2 DEF SilentBeforeInit
    <3>4. sent \in [lic: LicenseStatus, used: Nat, mach: [Machine -> RowStatus]]
      BY <1>2 DEF TypeOK, TablesOK
    <3>5. RowsShown(outbox, sent.mach, act) /\ LatestTells(outbox, sent, act, status)
      BY <1>2, FaithfulIsTold DEF Told
    <3>6. Told(outbox', sent', act', status')
      BY <3>1, <3>2, <3>4, <3>5, SendShown, Zenon DEF Told
    <3> QED BY <3>3, <3>6, FaithfulNextIsTold DEF SilentBeforeInit
  <2>4. CASE UNCHANGED <<initialized, status, act, outbox, sent>>
    <3>1. Told(outbox', sent', act', status')
      BY <1>2, <2>4, FaithfulIsTold, Zenon
    <3> QED BY <1>2, <2>4, <3>1, FaithfulNextIsTold, Zenon DEF SilentBeforeInit, Known
  <2>5. CASE FlushEnd \/ Tick \/ UNCHANGED vars
    BY <2>4, <2>5, Zenon DEF FlushEnd, Tick, vars, config, rows, delivery
  <2> QED BY <1>2, <2>1, <2>2, <2>3, <2>5 DEF Next
<1>3. TypeOK /\ LedgerInv /\ LedgerInv' /\ SilentBeforeInit /\ ProjectionFaithful /\ [Next]_vars
        => (SilentBeforeInit /\ ProjectionFaithful)'
  BY <1>2
<1> QED BY <1>1, <1>3, TypeCorrect, LedgerCorrect, PTL DEF Spec
==============================================================================
