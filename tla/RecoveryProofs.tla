--------------------------- MODULE RecoveryProofs ---------------------------
(***************************************************************************)
(* Recovery of the revocation sequence is sound for any requests, targets, *)
(* handlers, cron runs and failures.  The argument: what a LicenseDO has   *)
(* taken up lasts as long as its row, so that a worker may still rely on   *)
(* it when it sets a checkpoint some awaits later; and a pending row is the *)
(* last one, so that no number a LicenseDO can be told is above it.        *)
(***************************************************************************)
EXTENDS RevocationLogProofs

\* What no step takes back of an effect and of the checkpoints.
Lasts ==
    /\ \A i \in DOMAIN revs : /\ i \in DOMAIN revs' /\ revs'[i].r = revs[i].r
                              /\ revs[i].applied => revs'[i].applied
    /\ DOMAIN batch \subseteq DOMAIN batch' /\ sent \subseteq sent'
    /\ known' \subseteq known
    /\ \A t \in known' : t \in revoked => t \in revoked'
    /\ \A l \in License : epoch[l] <= epoch'[l]

\* A license or machine belongs to a license.
LEMMA TargetLicense ==
    ASSUME NEW r \in Request, TargetOf[r] \notin Epoch
    PROVE  TargetOf[r] \in License \cup Machine /\ LicenseOf[TargetOf[r]] \in License
BY RevocationAssumption DEF Target

\* An effect in a LicenseDO lasts.
LEMMA EffectedKept ==
    ASSUME TypeOK, TypeOK', Lasts, NEW i \in Nat, NEW r \in Request, Effected(i, r)
    PROVE  Effected(i, r)'
<1>1. SUFFICES ASSUME TargetOf[r] \notin Epoch
               PROVE  /\ TargetOf[r] \in revoked' \/ TargetOf[r] \notin known'
                      /\ i <= epoch'[LicenseOf[TargetOf[r]]]
  BY DEF Effected
<1>2. /\ TargetOf[r] \in revoked \/ TargetOf[r] \notin known
      /\ i <= epoch[LicenseOf[TargetOf[r]]]
  BY <1>1 DEF Effected
<1>3. TargetOf[r] \in revoked' \/ TargetOf[r] \notin known'
  BY <1>2 DEF Lasts
<1>4. LicenseOf[TargetOf[r]] \in License
  BY <1>1, TargetLicense
<1>5. /\ epoch[LicenseOf[TargetOf[r]]] \in Nat /\ epoch'[LicenseOf[TargetOf[r]]] \in Nat
      /\ epoch[LicenseOf[TargetOf[r]]] <= epoch'[LicenseOf[TargetOf[r]]]
  BY <1>4, Zenon DEF TypeOK, Lasts
<1>6. i <= epoch'[LicenseOf[TargetOf[r]]]
  BY <1>2, <1>5
<1> QED BY <1>3, <1>6

\* A worker that stands still keeps what it relies on.
LEMMA CarriesKept ==
    ASSUME Inv, TypeOK', Lasts, NEW q \in Worker, Carries(q), work'[q] = work[q]
    PROVE  Carries(q)'
<1>1. TypeOK /\ Holds(q) /\ OwnsRow(q)
  BY Zenon DEF Inv, FeedInv, Holds
<1>2. work[q].seq \in Nat
  BY <1>1 DEF TypeOK, Job
<1>3. ASSUME work[q].pc = "mark" PROVE Effected(work[q].seq, work[q].r)'
  <2>1. work[q].r \in Request /\ Effected(work[q].seq, work[q].r)
    BY <1>1, <1>3 DEF Holds, Carries
  <2>2. ASSUME NEW i \in Nat, NEW r \in Request, Effected(i, r) PROVE Effected(i, r)'
    BY <1>1, <2>2, EffectedKept
  <2> QED BY <1>2, <2>1, <2>2
<1>4. work[q].pc \notin {"idle", "look", "insert", "batch"} => work[q].seq \in DOMAIN revs
  BY <1>1 DEF OwnsRow
<1>5. /\ DOMAIN batch \subseteq DOMAIN batch' /\ sent \subseteq sent'
      /\ \A i \in DOMAIN revs : revs[i].applied => revs'[i].applied
  BY DEF Lasts
<1> QED BY <1>3, <1>4, <1>5, Zenon DEF Carries

\* The rest of a job stays when the worker goes on.
LEMMA GotoApplied ==
    ASSUME TypeOK, NEW p \in Worker, NEW c \in PC, Goto(p, c)
    PROVE  work'[p].applied = work[p].applied
<1> DEFINE w == [work[p] EXCEPT !.pc = c]
<1>1. work \in [Worker -> Job] /\ work[p] \in Job
  BY DEF TypeOK
<1>2. w.applied = work[p].applied
  BY <1>1 DEF Job
<1>3. work' = [work EXCEPT ![p] = w]
  BY DEF Goto
<1> HIDE DEF w
<1> QED BY <1>1, <1>2, <1>3

\* A worker that has stopped carries nothing.
LEMMA IdleCarries ==
    ASSUME NEW p \in Worker, work'[p].pc = "idle"
    PROVE  Carries(p)'
BY DEF Carries

\* A step that changes no row and no LicenseDO keeps RecoveryInv if its worker,
\* if it has one, can go on.
LEMMA StillRecovers ==
    ASSUME Inv, Inv', RecoveryInv, UNCHANGED <<revs, objects>>,
           DOMAIN batch \subseteq DOMAIN batch', sent \subseteq sent',
           \A q \in Worker : work'[q] = work[q] \/ Carries(q)'
    PROVE  RecoveryInv'
<1>1. TypeOK /\ TypeOK' /\ revs' = revs /\ known' = known /\ revoked' = revoked /\ epoch' = epoch
  BY DEF Inv, objects
<1>2. Lasts
  BY <1>1 DEF Lasts, TypeOK
<1>3. \A q \in Worker : Carries(q)'
  BY <1>1, <1>2, CarriesKept DEF RecoveryInv
<1>4. \A l \in License : epoch'[l] <= Len(revs')
  BY <1>1 DEF RecoveryInv
<1>5. ASSUME NEW i \in DOMAIN revs', revs'[i].applied PROVE (Effected(i, revs[i].r))'
  BY <1>1, <1>5 DEF RecoveryInv, Effected
<1>6. ASSUME NEW i \in DOMAIN revs', revs'[i].published
      PROVE  /\ revs'[i].applied /\ i \in DOMAIN batch'
             /\ TargetOf[revs'[i].r] \notin Epoch => revs'[i].r \in sent'
  BY <1>1, <1>6 DEF RecoveryInv
<1>7. PendingCanApply'
  BY <1>1 DEF RecoveryInv, PendingCanApply
<1> QED BY <1>3, <1>4, <1>5, <1>6, <1>7 DEF RecoveryInv

\* A row that is reserved already is taken up with its own checkpoint.
LEMMA ReadyCarries ==
    ASSUME Inv, NEW p \in Worker, NEW r \in Request, work[p].r = r, Reserved(r), Ready(p, r),
           TargetOf[r] \notin Epoch, revs' = revs
    PROVE  Carries(p)' /\ \A q \in Worker : q # p => work'[q] = work[q]
<1>1. TypeOK /\ work[p] \in Job
  BY DEF Inv, TypeOK
<1>2. CASE Stop(p)
  <2>1. work'[p] = Idle /\ \A q \in Worker : q # p => work'[q] = work[q]
    BY <1>1, <1>2, SetType, IdleType, Zenon DEF Stop
  <2> QED BY <2>1, IdleType, IdleCarries
<1>3. CASE work' = [work EXCEPT ![p] = [work[p] EXCEPT !.pc = "audit", !.seq = SeqOf(r),
                                          !.applied = revs[SeqOf(r)].applied]]
  <2> DEFINE w == [work[p] EXCEPT !.pc = "audit", !.seq = SeqOf(r),
                                  !.applied = revs[SeqOf(r)].applied]
  <2>1. SeqOf(r) \in Nat /\ revs[SeqOf(r)].applied \in BOOLEAN
    BY <1>1, SeqOfIs, RowType
  <2>2. /\ w \in Job /\ w.pc = "audit" /\ w.r = r /\ w.seq = SeqOf(r)
        /\ w.applied = revs[SeqOf(r)].applied
    BY <1>1, <2>1, Zenon DEF Job
  <2>3. work'[p] = w /\ \A q \in Worker : q # p => work'[q] = work[q]
    BY <1>1, <1>3, <2>2, SetType, Zenon
  <2> HIDE DEF w
  <2>4. Carries(p)'
    BY <2>2, <2>3 DEF Carries
  <2> QED BY <2>3, <2>4
<1> QED BY <1>2, <1>3 DEF Ready

\* The four ways to take up a request.
LEMMA TakeRecovers ==
    ASSUME Inv, Inv', RecoveryInv, NEW p \in Worker,
           \/ \E r \in Request : Load(p, r) \/ EpochHead(p, r) \/ EpochResume(p, r)
           \/ CronPending(p)
    PROVE  RecoveryInv'
<1>1. TypeOK /\ TargetOf \in [Request -> Target]
  BY RevocationAssumption DEF Inv
<1>2. UNCHANGED <<revs, objects>> /\ batch' = batch /\ sent' = sent
  BY Zenon DEF Load, EpochHead, EpochResume, CronPending, table, feed
<1>3. SUFFICES Carries(p)' /\ \A q \in Worker : q # p => work'[q] = work[q]
  BY <1>2, StillRecovers
<1>4. ASSUME NEW w \in Job, work' = [work EXCEPT ![p] = w]
      PROVE  work'[p] = w /\ \A q \in Worker : q # p => work'[q] = work[q]
  BY <1>1, <1>4, SetType, Zenon
<1>5. ASSUME NEW r \in Request, Load(p, r)
      PROVE  Carries(p)' /\ \A q \in Worker : q # p => work'[q] = work[q]
  <2> DEFINE w == [Idle EXCEPT !.pc = "look", !.r = r, !.snap = Snapshot(TargetOf[r])]
  <2>1. w \in Job /\ w.pc = "look" /\ w.r = r /\ w.applied = FALSE
    BY <1>1, SnapshotType, Zenon DEF Idle, Job
  <2>2. work' = [work EXCEPT ![p] = w] /\ TargetOf[r] \notin Epoch
    BY <1>5, Zenon DEF Load
  <2> HIDE DEF w
  <2>3. work'[p] = w /\ \A q \in Worker : q # p => work'[q] = work[q]
    BY <1>4, <2>1, <2>2, Zenon
  <2>4. Carries(p)'
    BY <2>1, <2>2, <2>3 DEF Carries
  <2> QED BY <2>3, <2>4
<1>6. ASSUME NEW r \in Request, EpochHead(p, r)
      PROVE  Carries(p)' /\ \A q \in Worker : q # p => work'[q] = work[q]
  <2> DEFINE w == [Idle EXCEPT !.pc = "batch", !.r = r, !.seq = Len(revs) + 1]
  <2>1. Len(revs) + 1 \in Nat
    BY <1>1 DEF TypeOK
  <2>2. w \in Job /\ w.pc = "batch" /\ w.r = r
    BY <2>1, IdleType, Zenon DEF Job
  <2>3. work' = [work EXCEPT ![p] = w] /\ TargetOf[r] \in Epoch
    BY <1>6, Zenon DEF EpochHead
  <2> HIDE DEF w
  <2>4. work'[p] = w /\ \A q \in Worker : q # p => work'[q] = work[q]
    BY <1>4, <2>2, <2>3, Zenon
  <2>5. Carries(p)'
    BY <2>2, <2>3, <2>4 DEF Carries
  <2> QED BY <2>4, <2>5
<1>7. ASSUME NEW r \in Request, EpochResume(p, r)
      PROVE  Carries(p)' /\ \A q \in Worker : q # p => work'[q] = work[q]
  <2> DEFINE c == IF revs[SeqOf(r)].applied THEN "put" ELSE "mark"
             w == [Idle EXCEPT !.pc = c, !.r = r, !.seq = SeqOf(r)]
  <2>1. SeqOf(r) \in DOMAIN revs
    BY <1>7, SeqOfIs, Zenon DEF EpochResume
  <2>2. SeqOf(r) \in Nat /\ c \in {"put", "mark"} /\ (c = "put" => revs[SeqOf(r)].applied)
    BY <1>1, <2>1 DEF TypeOK
  <2> HIDE DEF c
  <2>3. w \in Job /\ w.pc = c /\ w.r = r /\ w.seq = SeqOf(r)
    BY <2>2, IdleType, Zenon DEF Job
  <2>4. work' = [work EXCEPT ![p] = w] /\ TargetOf[r] \in Epoch
    BY <1>7, Zenon DEF EpochResume, c
  <2> HIDE DEF w
  <2>5. work'[p] = w /\ \A q \in Worker : q # p => work'[q] = work[q]
    BY <1>4, <2>3, <2>4, Zenon
  <2>6. Effected(SeqOf(r), r)'
    BY <2>4 DEF Effected
  <2>7. revs' = revs /\ (revs[w.seq].applied \/ w.pc = "mark")
    BY <1>2, <2>2, <2>3
  <2>8. Carries(p)'
    BY <2>2, <2>3, <2>4, <2>5, <2>6, <2>7, Zenon DEF Carries, Effected
  <2> QED BY <2>5, <2>8
<1>8. ASSUME CronPending(p)
      PROVE  Carries(p)' /\ \A q \in Worker : q # p => work'[q] = work[q]
  <2>1. PICK i \in DOMAIN revs :
          /\ TargetOf[revs[i].r] \notin Epoch
          /\ work' = [work EXCEPT ![p] =
                       [Idle EXCEPT !.pc = "audit", !.r = revs[i].r, !.seq = i,
                                    !.applied = revs[i].applied, !.snap = Snapshot(TargetOf[revs[i].r])]]
    BY <1>8, Zenon DEF CronPending
  <2> DEFINE w == [Idle EXCEPT !.pc = "audit", !.r = revs[i].r, !.seq = i,
                     !.applied = revs[i].applied, !.snap = Snapshot(TargetOf[revs[i].r])]
  <2>2. i \in Nat /\ revs[i].r \in Request /\ revs[i].applied \in BOOLEAN
    BY <1>1, RowType
  <2>3. Snapshot(TargetOf[revs[i].r]) \in Snap
    BY <1>1, <2>2, SnapshotType
  <2>4. /\ w \in Job /\ w.pc = "audit" /\ w.r = revs[i].r /\ w.seq = i
        /\ w.applied = revs[i].applied
    BY <2>2, <2>3, Zenon DEF Idle, Job
  <2>5. work' = [work EXCEPT ![p] = w]
    BY <2>1
  <2> HIDE DEF w
  <2>6. work'[p] = w /\ \A q \in Worker : q # p => work'[q] = work[q]
    BY <1>4, <2>4, <2>5, Zenon
  <2>7. Carries(p)'
    BY <1>2, <2>1, <2>4, <2>6 DEF Carries
  <2> QED BY <2>6, <2>7
<1> QED BY <1>5, <1>6, <1>7, <1>8

\* The steps of a worker that change no row and no LicenseDO.
LEMMA WalkRecovers ==
    ASSUME Inv, Inv', RecoveryInv, NEW p \in Worker,
           \/ Look(p) \/ (Insert(p) /\ revs' = revs) \/ LoadAudit(p) \/ AppendAudit(p)
           \/ MirrorAudit(p) \/ PutBatch(p) \/ ReadEpoch(p) \/ AdvanceEpoch(p) \/ SendAudit(p)
           \/ Fail(p)
    PROVE  RecoveryInv'
<1>1. /\ TypeOK /\ Holds(p) /\ OwnsRow(p) /\ Carries(p) /\ work[p] \in Job
      /\ kvEpoch \in Nat /\ sent \subseteq Request
  BY Zenon DEF Inv, FeedInv, Holds, TypeOK, RecoveryInv
<1>2. UNCHANGED <<revs, objects>>
  BY Zenon DEF Look, Insert, LoadAudit, AppendAudit, MirrorAudit, PutBatch, ReadEpoch, AdvanceEpoch,
     SendAudit, Fail, table
<1>3. DOMAIN batch \subseteq DOMAIN batch' /\ sent \subseteq sent'
  BY DEF Look, Insert, LoadAudit, AppendAudit, MirrorAudit, PutBatch, ReadEpoch, AdvanceEpoch,
     SendAudit, Fail, feed
<1> DEFINE Goes == Carries(p)' /\ \A q \in Worker : q # p => work'[q] = work[q]
<1>4. SUFFICES Goes
  BY <1>2, <1>3, StillRecovers, Zenon
<1>5. CASE Stop(p)
  <2>1. work'[p] = Idle /\ \A q \in Worker : q # p => work'[q] = work[q]
    BY <1>1, <1>5, SetType, IdleType, Zenon DEF Stop
  <2> QED BY ONLY <2>1, IdleType, IdleCarries
<1>6. ASSUME NEW c \in PC, Goto(p, c)
      PROVE  /\ work'[p].pc = c /\ work'[p].r = work[p].r /\ work'[p].seq = work[p].seq
             /\ work'[p].applied = work[p].applied
             /\ \A q \in Worker : q # p => work'[q] = work[q]
  BY <1>1, <1>6, GotoType, GotoApplied
<1>7. CASE Look(p)
  <2>1. work[p].pc = "look" /\ work[p].r \in Request
    BY <1>1, <1>7, Zenon DEF Look, At, Holds
  <2>2. TargetOf[work[p].r] \notin Epoch /\ ~work[p].applied
    BY <1>1, <2>1, Zenon DEF Carries
  <2>3. CASE Reserved(work[p].r) /\ Ready(p, work[p].r)
    BY <1>2, <2>1, <2>2, <2>3, ReadyCarries, Zenon
  <2>4. CASE Goto(p, "insert")
    <3>1. /\ work'[p].pc = "insert" /\ work'[p].r = work[p].r
          /\ work'[p].applied = work[p].applied
          /\ \A q \in Worker : q # p => work'[q] = work[q]
      BY <1>6, <2>4 DEF PC
    <3>2. Carries(p)'
      BY <2>2, <3>1 DEF Carries
    <3> QED BY <3>1, <3>2
  <2> QED BY <1>5, <1>7, <2>3, <2>4, Zenon DEF Look
<1>8. CASE Insert(p) /\ revs' = revs
  <2>1. work[p].pc = "insert" /\ work[p].r \in Request
    BY <1>1, <1>8 DEF Insert, At, Holds
  <2>2. TargetOf[work[p].r] \notin Epoch
    BY ONLY <1>1, <2>1 DEF Carries
  <2>3. CASE Reserved(work[p].r) /\ Ready(p, work[p].r)
    BY <1>2, <2>1, <2>2, <2>3, ReadyCarries
  <2>4. revs' # NewRow(work[p].r)
    <3>1. revs' = NewRow(work[p].r) => Len(revs') = Len(revs) + 1 /\ Len(revs) \in Nat
      BY ONLY <1>1, <2>1, NewRowIs
    <3> QED BY <1>8, <3>1
  <2> QED BY <1>5, <1>8, <2>3, <2>4 DEF Insert
<1>9. CASE LoadAudit(p) \/ MirrorAudit(p)
  <2>1. work[p].pc \in {"audit", "mirror"}
    BY <1>9, Zenon DEF LoadAudit, MirrorAudit, At
  <2>2. TargetOf[work[p].r] \notin Epoch /\ (work[p].applied => revs[work[p].seq].applied)
    BY ONLY <1>1, <2>1 DEF Carries
  <2>3. PICK c \in {"put", "apply", "append"} : Goto(p, c) /\ (c = "put" => work[p].applied)
    BY <1>9, Zenon DEF LoadAudit, MirrorAudit
  <2>4. /\ work'[p].pc = c /\ work'[p].r = work[p].r /\ work'[p].seq = work[p].seq
        /\ work'[p].applied = work[p].applied
        /\ \A q \in Worker : q # p => work'[q] = work[q]
    BY ONLY <1>6, <2>3 DEF PC
  <2>5. Carries(p)'
    BY <1>2, <2>2, <2>3, <2>4, Zenon DEF Carries
  <2> QED BY <2>4, <2>5, Zenon
<1>10. CASE AppendAudit(p)
  <2>1. work[p].pc = "append"
    BY <1>10, Zenon DEF AppendAudit, At
  <2>2. TargetOf[work[p].r] \notin Epoch /\ (work[p].applied => revs[work[p].seq].applied)
    BY ONLY <1>1, <2>1 DEF Carries
  <2>3. CASE Goto(p, "mirror")
    <3>1. /\ work'[p].pc = "mirror" /\ work'[p].r = work[p].r /\ work'[p].seq = work[p].seq
          /\ work'[p].applied = work[p].applied
          /\ \A q \in Worker : q # p => work'[q] = work[q]
      BY ONLY <1>6, <2>3 DEF PC
    <3>2. Carries(p)'
      BY <1>2, <2>2, <3>1, Zenon DEF Carries
    <3> QED BY ONLY <3>1, <3>2
  <2> QED BY <1>5, <1>10, <2>3, Zenon DEF AppendAudit
<1>11. CASE PutBatch(p)
  <2>1. work[p].pc = "put"
    BY <1>11, Zenon DEF PutBatch, At
  <2>2. revs[work[p].seq].applied
    BY ONLY <1>1, <2>1 DEF Carries
  <2>3. CASE Goto(p, "read")
    <3>1. /\ work'[p].pc = "read" /\ work'[p].seq = work[p].seq
          /\ \A q \in Worker : q # p => work'[q] = work[q]
      BY <1>6, <2>3, Zenon DEF PC
    <3>2. Carries(p)'
      BY ONLY <1>2, <2>2, <3>1 DEF Carries
    <3> QED BY ONLY <3>1, <3>2
  <2> QED BY <1>5, <1>11, <2>3, Zenon DEF PutBatch
<1>12. CASE ReadEpoch(p)
  <2>1. work[p].pc = "read"
    BY <1>12 DEF ReadEpoch, At
  <2>2. revs[work[p].seq].applied
    BY <1>1, <2>1, Zenon DEF Carries
  <2> DEFINE w == [work[p] EXCEPT !.pc = "advance", !.cur = kvEpoch]
  <2>3. w \in Job /\ w.pc = "advance" /\ w.seq = work[p].seq
    BY <1>1, Zenon DEF Job
  <2>4. CASE work' = [work EXCEPT ![p] = w]
    <3>1. work'[p] = w /\ \A q \in Worker : q # p => work'[q] = work[q]
      BY <1>1, <2>3, <2>4, SetType, Zenon
    <3> HIDE DEF w
    <3>2. Carries(p)'
      BY <1>2, <2>2, <2>3, <3>1 DEF Carries
    <3> QED BY ONLY <3>1, <3>2
  <2> QED BY <1>5, <1>12, <2>4 DEF ReadEpoch
<1>13. CASE AdvanceEpoch(p)
  <2>1. work[p].pc = "advance" /\ batch' = batch
    BY ONLY <1>13 DEF AdvanceEpoch, At
  <2>2. revs[work[p].seq].applied /\ work[p].seq \in DOMAIN batch
    BY <1>1, <2>1, Zenon DEF Carries, Holds
  <2>3. PICK c \in {"send", "finish"} :
           Goto(p, c) /\ (c = "finish" <=> TargetOf[work[p].r] \in Epoch)
    BY <1>13, Zenon DEF AdvanceEpoch
  <2>4. /\ work'[p].pc = c /\ work'[p].r = work[p].r /\ work'[p].seq = work[p].seq
        /\ \A q \in Worker : q # p => work'[q] = work[q]
    BY <1>6, <2>3, Zenon DEF PC
  <2>5. Carries(p)'
    BY <1>2, <2>1, <2>2, <2>3, <2>4, Zenon DEF Carries
  <2> QED BY <2>4, <2>5, Zenon
<1>14. CASE SendAudit(p)
  <2>1. work[p].pc = "send" /\ batch' = batch /\ sent' = sent \cup {work[p].r} /\ Goto(p, "finish")
    BY <1>14 DEF SendAudit, At, feed
  <2>2. revs[work[p].seq].applied /\ work[p].seq \in DOMAIN batch
    BY <1>1, <2>1, Zenon DEF Carries
  <2>3. /\ work'[p].pc = "finish" /\ work'[p].r = work[p].r /\ work'[p].seq = work[p].seq
        /\ \A q \in Worker : q # p => work'[q] = work[q]
    BY <1>6, <2>1, Zenon DEF PC
  <2>4. Carries(p)'
    BY <1>2, <2>1, <2>2, <2>3 DEF Carries
  <2> QED BY <2>3, <2>4, Zenon
<1>15. CASE Fail(p)
  BY <1>5, <1>15, Zenon DEF Fail
<1> QED BY <1>7, <1>8, <1>9, <1>10, <1>11, <1>12, <1>13, <1>14, <1>15

\* A step that changes LicenseDOs and no row.
LEMMA ObjectsRecover ==
    ASSUME Inv, Inv', RecoveryInv, Lasts, UNCHANGED <<revs, batch, sent>>, PendingCanApply',
           \A l \in License : epoch'[l] <= Len(revs),
           \A q \in Worker : work'[q] = work[q] \/ Carries(q)'
    PROVE  RecoveryInv'
<1>1. TypeOK /\ TypeOK'
  BY DEF Inv
<1>2. \A q \in Worker : Carries(q)'
  BY <1>1, CarriesKept, Zenon DEF RecoveryInv
<1>3. ASSUME NEW i \in DOMAIN revs', revs'[i].applied PROVE (Effected(i, revs[i].r))'
  <2>1. i \in Nat /\ revs[i].r \in Request /\ Effected(i, revs[i].r)
    BY <1>1, <1>3, RowType, Zenon DEF RecoveryInv
  <2>2. ASSUME NEW r \in Request, Effected(i, r) PROVE Effected(i, r)'
    BY <1>1, <2>1, <2>2, EffectedKept, Zenon
  <2> QED BY <2>1, <2>2, Zenon DEF Effected
<1>4. ASSUME NEW i \in DOMAIN revs', revs'[i].published
      PROVE  /\ revs'[i].applied /\ i \in DOMAIN batch'
             /\ TargetOf[revs'[i].r] \notin Epoch => revs'[i].r \in sent'
  BY <1>4 DEF RecoveryInv
<1> QED BY <1>2, <1>3, <1>4, Zenon DEF RecoveryInv

\* The positions of the revocation rows, and the epochs of the LicenseDOs.
LEMMA RowsAre ==
    ASSUME Inv
    PROVE  /\ TypeOK /\ Len(revs) \in Nat /\ DOMAIN revs = 1 .. Len(revs)
           /\ epoch \in [License -> Nat] /\ revoked \subseteq known
<1>1. TypeOK
  BY Zenon DEF Inv
<1>2. revs \in Seq(Row) /\ epoch \in [License -> Nat] /\ revoked \subseteq known
  BY <1>1, Zenon DEF TypeOK
<1>3. Len(revs) \in Nat /\ DOMAIN revs = 1 .. Len(revs)
  BY ONLY <1>2
<1> QED BY ONLY <1>1, <1>2, <1>3, Zenon

\* A pending row is the last one.
LEMMA PendingIsLast ==
    ASSUME Inv, RecoveryInv, NEW i \in DOMAIN revs, ~revs[i].applied
    PROVE  i = Len(revs)
<1>1. Len(revs) \in Nat /\ i \in 1 .. Len(revs)
  BY DEF Inv, TypeOK
<1>2. ~revs[i].published
  BY Zenon DEF RecoveryInv
<1>3. i \notin 1 .. (Len(revs) - 1)
  BY <1>2 DEF Inv, FeedInv, StrictSequence
<1> QED BY <1>1, <1>3

\* An activation that is deleted takes its revocation with it; the epoch stays.
LEMMA PurgeRecovers ==
    ASSUME Inv, Inv', RecoveryInv, NEW t \in Target, Purge(t)
    PROVE  RecoveryInv'
<1>1. /\ known' = known \ {t} /\ revoked' = revoked \ {t}
      /\ UNCHANGED <<revs, batch, sent, epoch, work>>
  BY DEF Purge, table, feed
<1>2. Lasts
  BY <1>1 DEF Inv, TypeOK, Lasts
<1>3. PendingCanApply'
  BY <1>1, Zenon DEF RecoveryInv, PendingCanApply
<1>4. \A l \in License : epoch'[l] <= Len(revs)
  BY <1>1 DEF RecoveryInv
<1> QED BY <1>1, <1>2, <1>3, <1>4, ObjectsRecover

\* The global epoch a device passes on is that of an applied row, and a pending
\* row has a later number.
LEMMA ValidateRecovers ==
    ASSUME Inv, Inv', RecoveryInv, NEW m \in License, Validate(m)
    PROVE  RecoveryInv'
<1>1. /\ TypeOK /\ Len(revs) \in Nat /\ DOMAIN revs = 1 .. Len(revs)
      /\ epoch \in [License -> Nat]
  BY RowsAre, Zenon
<1>2. /\ epoch[m] < Authoritative /\ epoch' = [epoch EXCEPT ![m] = Authoritative]
      /\ UNCHANGED <<revs, batch, sent, known, revoked, work>>
  BY DEF Validate, table, feed
<1>3. Authoritative \in DOMAIN revs /\ revs[Authoritative].applied
  <2>1. AppliedFirst
    BY Zenon DEF RecoveryInv, AppliedFirst
  <2> QED BY <1>1, <1>2, <2>1, AuthoritativeIs
<1>4. Authoritative \in Nat /\ Authoritative <= Len(revs)
  BY <1>1, <1>3
<1>5. \A l \in License : epoch[l] \in Nat /\ epoch[l] <= epoch'[l] /\ epoch'[l] <= Len(revs)
  BY <1>1, <1>2, <1>4 DEF RecoveryInv
<1>6. Lasts
  BY <1>2, <1>5 DEF Lasts
<1>7. PendingCanApply'
  <2> SUFFICES ASSUME NEW i \in DOMAIN revs, ~revs[i].applied, TargetOf[revs[i].r] \in known \ Epoch
               PROVE  \/ epoch'[LicenseOf[TargetOf[revs[i].r]]] < i
                      \/ /\ TargetOf[revs[i].r] \in revoked
                         /\ epoch'[LicenseOf[TargetOf[revs[i].r]]] = i
    BY <1>2, Zenon DEF PendingCanApply
  <2>a. i # Authoritative
    BY <1>3
  <2>b. i = Len(revs)
    BY PendingIsLast, Zenon
  <2>1. revs[i].r \in Request /\ i = Len(revs) /\ i # Authoritative
    BY <1>1, <2>a, <2>b, RowType
  <2>2. Authoritative < i
    <3>1. /\ Authoritative \in Nat /\ Authoritative <= Len(revs) /\ Len(revs) \in Nat
          /\ i = Len(revs) /\ i # Authoritative
      BY <1>1, <1>4, <2>1, Zenon
    <3> QED BY <3>1
  <2>3. LicenseOf[TargetOf[revs[i].r]] \in License
    BY <2>1, TargetLicense
  <2>4. \/ epoch[LicenseOf[TargetOf[revs[i].r]]] < i
        \/ /\ TargetOf[revs[i].r] \in revoked
           /\ epoch[LicenseOf[TargetOf[revs[i].r]]] = i
    BY Zenon DEF RecoveryInv, PendingCanApply
  <2>5. epoch'[LicenseOf[TargetOf[revs[i].r]]] \in {epoch[LicenseOf[TargetOf[revs[i].r]]], Authoritative}
    BY ONLY <1>1, <1>2, <2>3
  <2> QED BY <2>2, <2>4, <2>5, Zenon
<1> QED BY <1>2, <1>5, <1>6, <1>7, ObjectsRecover, Zenon

\* /revoke moves the epoch of its LicenseDO to the number of its own row at most,
\* and no row with a smaller number is pending then.
LEMMA ApplyRecovers ==
    ASSUME Inv, Inv', RecoveryInv, NEW p \in Worker, Apply(p)
    PROVE  RecoveryInv'
<1> DEFINE r == work[p].r
           t == TargetOf[r]
           l == LicenseOf[t]
           n == work[p].seq
<1>1. /\ TypeOK /\ Holds(p) /\ Carries(p) /\ Len(revs) \in Nat /\ DOMAIN revs = 1 .. Len(revs)
      /\ epoch \in [License -> Nat] /\ revoked \subseteq known
  <2>1. Holds(p) /\ Carries(p)
    BY Zenon DEF Inv, FeedInv, RecoveryInv
  <2> QED BY <2>1, RowsAre, Zenon
<1>2. work[p].pc = "apply" /\ r \in Request /\ t \notin Epoch
  BY <1>1, Zenon DEF Apply, At, Holds, Carries
<1>3. n \in DOMAIN revs /\ revs[n].r = r
  BY <1>1, <1>2, Zenon DEF Holds, OwnsRow
<1>4. n \in Nat /\ n <= Len(revs)
  <2>1. Len(revs) \in Nat /\ n \in 1 .. Len(revs)
    BY <1>1, <1>3
  <2> HIDE DEF n
  <2> QED BY <2>1
<1>5. l \in License /\ epoch[l] \in Nat
  <2>1. l \in License
    BY <1>2, TargetLicense
  <2> QED BY <1>1, <2>1
<1>6. UNCHANGED <<revs, batch, sent, known>>
  BY Zenon DEF Apply, table, feed
<1>7. /\ Max(epoch[l], n) \in {epoch[l], n}
      /\ epoch[l] <= Max(epoch[l], n) /\ n <= Max(epoch[l], n)
      /\ epoch[l] <= n => Max(epoch[l], n) = n
  <2>1. \A a, b \in Nat : /\ Max(a, b) \in {a, b} /\ a <= Max(a, b) /\ b <= Max(a, b)
                          /\ a <= b => Max(a, b) = b
    BY DEF Max
  <2> QED BY <1>4, <1>5, <2>1, Zenon
<1>8. /\ revoked \subseteq revoked'
      /\ \A m \in License : m # l => epoch'[m] = epoch[m]
      /\ epoch'[l] = epoch[l] \/ (epoch'[l] = n /\ t \in revoked')
      /\ epoch[l] <= epoch'[l]
      /\ Stop(p) \/ (Goto(p, "mark") /\ t \in revoked' /\ n <= epoch'[l])
  <2>1. CASE /\ t \in known /\ t \in revoked
             /\ epoch' = [epoch EXCEPT ![l] = Max(@, n)]
             /\ IF epoch[l] <= n THEN Goto(p, "mark") ELSE Stop(p)
             /\ UNCHANGED revoked
    <3>1. epoch'[l] = Max(epoch[l], n) /\ \A m \in License : m # l => epoch'[m] = epoch[m]
      BY <1>1, <1>5, <2>1, Zenon
    <3> QED BY <1>7, <2>1, <3>1, Zenon
  <2>2. CASE /\ t \in known /\ t \notin revoked /\ epoch[l] < n
             /\ revoked' = revoked \cup {t}
             /\ epoch' = [epoch EXCEPT ![l] = n]
             /\ Goto(p, "mark")
    <3>1. epoch'[l] = n /\ \A m \in License : m # l => epoch'[m] = epoch[m]
      BY <1>1, <1>5, <2>2, Zenon
    <3>2. epoch[l] < n
      BY <2>2, Zenon
    <3>3. epoch[l] <= n /\ n <= n
      BY ONLY <1>4, <1>5, <3>2
    <3> QED BY <2>2, <3>1, <3>3, Zenon
  <2>3. CASE Stop(p) /\ UNCHANGED <<revoked, epoch>>
    BY ONLY <1>5, <2>3
  <2> QED BY <2>1, <2>2, <2>3, Zenon DEF Apply
<1>9. \A m \in License : epoch[m] <= epoch'[m] /\ epoch'[m] <= Len(revs)
  <2>1. ASSUME NEW m \in License PROVE epoch[m] \in Nat /\ epoch[m] <= Len(revs)
    BY <1>1, Zenon DEF RecoveryInv
  <2>2. ASSUME NEW m \in License, m # l PROVE epoch[m] <= epoch'[m] /\ epoch'[m] <= Len(revs)
    <3>1. epoch'[m] = epoch[m]
      BY <1>8, <2>2, Zenon
    <3>2. epoch[m] \in Nat /\ epoch[m] <= Len(revs)
      BY <2>1
    <3>3. epoch[m] <= epoch[m]
      BY <3>2
    <3> QED BY <3>1, <3>2, <3>3, Zenon
  <2>3. epoch[l] <= epoch'[l] /\ epoch'[l] <= Len(revs)
    BY <1>4, <1>5, <1>8, <2>1, Zenon
  <2> QED BY <2>2, <2>3, Zenon
<1>10. Lasts
  BY <1>6, <1>8, <1>9, Zenon DEF Lasts
<1>11. PendingCanApply'
  <2> SUFFICES ASSUME NEW i \in DOMAIN revs, ~revs[i].applied, TargetOf[revs[i].r] \in known \ Epoch
               PROVE  \/ epoch'[LicenseOf[TargetOf[revs[i].r]]] < i
                      \/ /\ TargetOf[revs[i].r] \in revoked'
                         /\ epoch'[LicenseOf[TargetOf[revs[i].r]]] = i
    BY <1>6 DEF PendingCanApply
  <2>1. revs[i].r \in Request /\ i \in Nat
    BY <1>1, RowType
  <2>2. i = Len(revs)
    BY PendingIsLast, Zenon
  <2>3. LicenseOf[TargetOf[revs[i].r]] \in License
    BY <2>1, TargetLicense
  <2>4. \/ epoch[LicenseOf[TargetOf[revs[i].r]]] < i
        \/ /\ TargetOf[revs[i].r] \in revoked
           /\ epoch[LicenseOf[TargetOf[revs[i].r]]] = i
    BY DEF RecoveryInv, PendingCanApply
  <2>5. CASE epoch'[LicenseOf[TargetOf[revs[i].r]]] = epoch[LicenseOf[TargetOf[revs[i].r]]]
    BY <1>8, <2>4, <2>5, Zenon
  <2>6. CASE LicenseOf[TargetOf[revs[i].r]] = l /\ epoch'[l] = n /\ t \in revoked'
    <3>1. CASE n = i
      BY <1>3, <2>6, <3>1
    <3>2. CASE n # i
      <4>1. n < i
        BY <1>4, <2>1, <2>2, <3>2
      <4> QED BY <2>6, <4>1
    <3> QED BY <3>1, <3>2, Zenon
  <2> QED BY <1>8, <2>3, <2>5, <2>6, Zenon
<1>12. \A q \in Worker : work'[q] = work[q] \/ Carries(q)'
  <2>1. CASE Stop(p)
    <3>1. work'[p] = Idle /\ \A q \in Worker : q # p => work'[q] = work[q]
      BY <1>1, <2>1, SetType, IdleType, Zenon DEF Stop
    <3>2. Carries(p)'
      BY <3>1, IdleType, IdleCarries
    <3> QED BY <3>1, <3>2
  <2>2. CASE Goto(p, "mark") /\ t \in revoked' /\ n <= epoch'[l]
    <3>1. /\ work'[p].pc = "mark" /\ work'[p].r = r /\ work'[p].seq = n
          /\ \A q \in Worker : q # p => work'[q] = work[q]
      BY <1>1, <2>2, GotoType, Zenon DEF PC
    <3>2. Carries(p)'
      BY <2>2, <3>1, Zenon DEF Carries, Effected
    <3> QED BY <3>1, <3>2
  <2> QED BY <1>8, <2>1, <2>2, Zenon
<1> QED BY <1>6, <1>9, <1>10, <1>11, <1>12, ObjectsRecover, Zenon

\* A new row has neither checkpoint and a number above every LicenseDO's epoch.
LEMMA NewRowRecovers ==
    ASSUME Inv, Inv', RecoveryInv, NEW p \in Worker, NEW r \in Request, revs' = NewRow(r),
           UNCHANGED <<objects, batch, sent>>, Carries(p)',
           \A q \in Worker : q # p => work'[q] = work[q]
    PROVE  RecoveryInv'
<1> DEFINE e == [r |-> r, applied |-> FALSE, published |-> FALSE]
           n == Len(revs) + 1
<1>1. /\ TypeOK /\ TypeOK' /\ revs \in Seq(Row) /\ epoch \in [License -> Nat]
      /\ UNCHANGED <<known, revoked, epoch>>
  BY Zenon DEF Inv, TypeOK, objects
<1>2. e \in Row /\ e.r = r /\ ~e.applied /\ ~e.published /\ revs' = Append(revs, e)
  BY Zenon DEF Row, NewRow
<1> HIDE DEF e
<1>3. /\ Len(revs') = n /\ revs'[n] = e /\ \A i \in 1 .. Len(revs) : revs'[i] = revs[i]
  BY <1>1, <1>2, AppendRow
<1>4. /\ Len(revs) \in Nat /\ DOMAIN revs = 1 .. Len(revs) /\ DOMAIN revs' = 1 .. n
  BY <1>1, NewRowIs
<1>5. \A i \in DOMAIN revs : i \in DOMAIN revs' /\ revs'[i] = revs[i]
  BY <1>3, <1>4
<1>6. ASSUME NEW i \in DOMAIN revs', i # n PROVE i \in DOMAIN revs
  BY <1>4, <1>6
<1>7. Lasts
  BY <1>1, <1>5 DEF Lasts
<1>8. \A q \in Worker : Carries(q)'
  BY <1>1, <1>7, CarriesKept DEF RecoveryInv
<1>9. \A l \in License : epoch'[l] <= Len(revs') /\ epoch'[l] < n
  <2>1. \A l \in License : epoch'[l] = epoch[l] /\ epoch[l] \in Nat /\ epoch[l] <= Len(revs)
    BY <1>1 DEF RecoveryInv
  <2> QED BY <1>3, <1>4, <2>1
<1> HIDE DEF n
<1>10. ASSUME NEW i \in DOMAIN revs', revs'[i].applied PROVE (Effected(i, revs[i].r))'
  <2>1. i \in DOMAIN revs /\ revs'[i] = revs[i]
    BY <1>2, <1>3, <1>5, <1>6, <1>10
  <2>2. Effected(i, revs[i].r)
    BY <1>10, <2>1 DEF RecoveryInv
  <2> QED BY <1>1, <2>1, <2>2 DEF Effected
<1>11. ASSUME NEW i \in DOMAIN revs', revs'[i].published
       PROVE  /\ revs'[i].applied /\ i \in DOMAIN batch'
              /\ TargetOf[revs'[i].r] \notin Epoch => revs'[i].r \in sent'
  <2>1. i \in DOMAIN revs /\ revs'[i] = revs[i]
    BY <1>2, <1>3, <1>5, <1>6, <1>11
  <2> QED BY <1>11, <2>1 DEF RecoveryInv
<1>12. PendingCanApply'
  <2> SUFFICES ASSUME NEW i \in DOMAIN revs', ~revs'[i].applied,
                      TargetOf[revs'[i].r] \in known' \ Epoch
               PROVE  \/ epoch'[LicenseOf[TargetOf[revs'[i].r]]] < i
                      \/ /\ TargetOf[revs'[i].r] \in revoked'
                         /\ epoch'[LicenseOf[TargetOf[revs'[i].r]]] = i
    BY Zenon DEF PendingCanApply
  <2>1. CASE i = n
    <3>1. revs'[i].r \in Request
      BY <1>2, <1>3, <2>1
    <3>2. LicenseOf[TargetOf[revs'[i].r]] \in License
      BY <3>1, TargetLicense, Zenon
    <3> QED BY <1>9, <2>1, <3>2
  <2>2. CASE i # n
    <3>1. i \in DOMAIN revs /\ revs'[i] = revs[i]
      BY <1>5, <1>6, <2>2
    <3> QED BY <1>1, <3>1, Zenon DEF RecoveryInv, PendingCanApply
  <2> QED BY <2>1, <2>2, Zenon
<1> QED BY <1>8, <1>9, <1>10, <1>11, <1>12, Zenon DEF RecoveryInv

\* The two INSERTs.
LEMMA InsertRecovers ==
    ASSUME Inv, Inv', RecoveryInv, NEW p \in Worker, Insert(p) \/ EpochBatch(p)
    PROVE  RecoveryInv'
<1>1. TypeOK /\ Holds(p) /\ Carries(p) /\ work[p] \in Job /\ Len(revs) + 1 \in Nat
  <2>1. revs \in Seq(Row)
    BY Zenon DEF Inv, TypeOK
  <2>2. Len(revs) + 1 \in Nat
    BY <2>1
  <2>3. TypeOK /\ Holds(p) /\ Carries(p) /\ work[p] \in Job
    BY Zenon DEF Inv, FeedInv, TypeOK, RecoveryInv
  <2> QED BY <2>2, <2>3
<1>2. work[p].pc \in {"insert", "batch"} /\ work[p].r \in Request
  BY <1>1 DEF Insert, EpochBatch, At, Holds
<1>3. UNCHANGED <<objects, batch, sent>>
  BY DEF Insert, EpochBatch, feed
<1>4. CASE revs' = revs /\ Insert(p)
  BY <1>4, WalkRecovers
<1>5. CASE revs' # revs /\ Insert(p)
  <2> DEFINE w == [work[p] EXCEPT !.pc = "audit", !.seq = Len(revs) + 1]
  <2>1. revs' = NewRow(work[p].r) /\ work' = [work EXCEPT ![p] = w]
    BY <1>5 DEF Insert
  <2>2. w \in Job /\ w.pc = "audit" /\ w.r = work[p].r /\ w.applied = work[p].applied
    BY <1>1, Zenon DEF Job
  <2>3. work'[p] = w /\ \A q \in Worker : q # p => work'[q] = work[q]
    BY <1>1, <2>1, <2>2, SetType, Zenon
  <2>4. work[p].pc = "insert"
    BY <1>5, Zenon DEF Insert, At
  <2>5. TargetOf[work[p].r] \notin Epoch /\ ~work[p].applied
    BY ONLY <1>1, <2>4 DEF Carries
  <2> HIDE DEF w
  <2>6. Carries(p)'
    BY <2>2, <2>3, <2>5, Zenon DEF Carries
  <2> QED BY <1>2, <1>3, <2>1, <2>3, <2>6, NewRowRecovers
<1>6. CASE EpochBatch(p)
  <2>1. work[p].pc = "batch" /\ TargetOf[work[p].r] \in Epoch
    BY <1>1, <1>6, Zenon DEF EpochBatch, At, Carries
  <2>2. CASE revs' = NewRow(work[p].r) /\ Goto(p, "mark")
    <3>1. /\ work'[p].pc = "mark" /\ work'[p].r = work[p].r
          /\ \A q \in Worker : q # p => work'[q] = work[q]
      BY <1>1, <2>2, GotoType, Zenon DEF PC
    <3>2. Carries(p)'
      BY <2>1, <3>1, Zenon DEF Carries, Effected
    <3> QED BY <1>2, <1>3, <2>2, <3>1, <3>2, NewRowRecovers, Zenon
  <2>3. CASE Stop(p) /\ UNCHANGED revs
    <3>1. work'[p] = Idle /\ \A q \in Worker : q # p => work'[q] = work[q]
      BY <1>1, <2>3, SetType, IdleType, Zenon DEF Stop
    <3>2. Carries(p)'
      BY <3>1, IdleType, IdleCarries, Zenon
    <3> QED BY <1>3, <2>3, <3>1, <3>2, StillRecovers, Zenon
  <2> QED BY <1>6, <2>2, <2>3, Zenon DEF EpochBatch
<1> QED BY <1>4, <1>5, <1>6

LEMMA RowSet ==
    ASSUME TypeOK, NEW n \in DOMAIN revs, NEW row \in Row, revs' = [revs EXCEPT ![n] = row]
    PROVE  /\ DOMAIN revs' = DOMAIN revs /\ Len(revs') = Len(revs)
           /\ revs'[n] = row /\ \A i \in DOMAIN revs : i # n => revs'[i] = revs[i]
<1>1. revs \in Seq(Row) /\ n \in 1 .. Len(revs)
  BY DEF TypeOK
<1>2. Len(revs') = Len(revs)
  BY <1>1, ExceptRow
<1> QED BY <1>2

\* A checkpoint is set on the worker's own row, once what it stands for is so.
LEMMA CheckpointRecovers ==
    ASSUME Inv, Inv', RecoveryInv, NEW p \in Worker, MarkApplied(p) \/ Finish(p)
    PROVE  RecoveryInv'
<1> DEFINE n == work[p].seq
<1>1. /\ TypeOK /\ TypeOK' /\ Holds(p) /\ Carries(p) /\ revs \in Seq(Row)
  BY Zenon DEF Inv, FeedInv, TypeOK, RecoveryInv
<1>2. work[p].pc \in {"mark", "finish"} /\ n \in DOMAIN revs /\ revs[n].r = work[p].r
  BY <1>1 DEF MarkApplied, Finish, At, Holds, OwnsRow
<1>3. UNCHANGED <<objects, batch, sent>> /\ UNCHANGED <<known, revoked, epoch>>
  BY DEF MarkApplied, Finish, objects, feed
<1>4. revs[n] \in Row
  BY <1>1, <1>2, RowType, Zenon
<1>5. ASSUME NEW row \in Row, revs' = [revs EXCEPT ![n] = row], row.r = revs[n].r,
             row.applied, Effected(n, revs[n].r),
             row.published => /\ n \in DOMAIN batch
                              /\ TargetOf[revs[n].r] \notin Epoch => revs[n].r \in sent,
             Carries(p)', \A q \in Worker : q # p => work'[q] = work[q]
      PROVE  RecoveryInv'
  <2> HIDE DEF n
  <2>1. /\ DOMAIN revs' = DOMAIN revs /\ Len(revs') = Len(revs)
        /\ revs'[n] = row /\ \A i \in DOMAIN revs : i # n => revs'[i] = revs[i]
    BY <1>1, <1>2, <1>5, RowSet, Zenon
  <2>2. revs'[n] = row /\ \A i \in DOMAIN revs : i # n => revs'[i] = revs[i]
    BY <2>1
  <2>3. \A i \in DOMAIN revs : i \in DOMAIN revs' /\ revs'[i].r = revs[i].r
                            /\ (revs[i].applied => revs'[i].applied)
    BY <1>5, <2>1, <2>2, Zenon
  <2>4. \A l \in License : epoch'[l] = epoch[l] /\ epoch[l] <= epoch'[l] /\ epoch'[l] <= Len(revs')
    <3>1. epoch \in [License -> Nat] /\ \A l \in License : epoch[l] <= Len(revs)
      BY <1>1, Zenon DEF RecoveryInv, TypeOK
    <3> QED BY ONLY <1>3, <2>1, <3>1
  <2>5. Lasts
    BY <1>3, <2>3, <2>4, Zenon DEF Lasts
  <2>6. \A q \in Worker : Carries(q)'
    BY <1>1, <1>5, <2>5, CarriesKept, Zenon DEF RecoveryInv
  <2>7. ASSUME NEW i \in DOMAIN revs', revs'[i].applied PROVE (Effected(i, revs[i].r))'
    <3>1. i \in DOMAIN revs /\ revs'[i].r = revs[i].r
      BY <2>1, <2>3
    <3>2. Effected(i, revs[i].r)
      BY <1>5, <2>2, <2>7, <3>1, Zenon DEF RecoveryInv
    <3> QED BY <1>3, <3>1, <3>2 DEF Effected
  <2>8. ASSUME NEW i \in DOMAIN revs', revs'[i].published
        PROVE  /\ revs'[i].applied /\ i \in DOMAIN batch'
               /\ TargetOf[revs'[i].r] \notin Epoch => revs'[i].r \in sent'
    <3>1. i \in DOMAIN revs
      BY <2>1
    <3>2. CASE i = n
      BY <1>3, <1>5, <2>2, <2>8, <3>2, Zenon
    <3>3. CASE i # n
      BY <1>3, <2>2, <2>8, <3>1, <3>3, Zenon DEF RecoveryInv
    <3> QED BY <3>2, <3>3
  <2>9. PendingCanApply'
    <3> SUFFICES ASSUME NEW i \in DOMAIN revs', ~revs'[i].applied,
                        TargetOf[revs'[i].r] \in known' \ Epoch
                 PROVE  \/ epoch'[LicenseOf[TargetOf[revs'[i].r]]] < i
                        \/ /\ TargetOf[revs'[i].r] \in revoked'
                           /\ epoch'[LicenseOf[TargetOf[revs'[i].r]]] = i
      BY Zenon DEF PendingCanApply
    <3>1. i \in DOMAIN revs /\ revs'[i] = revs[i]
      BY <1>5, <2>1, <2>2
    <3> QED BY <1>3, <3>1, Zenon DEF RecoveryInv, PendingCanApply
  <2> QED BY <2>4, <2>6, <2>7, <2>8, <2>9, Zenon DEF RecoveryInv
<1>6. CASE MarkApplied(p)
  <2> DEFINE row == [revs[n] EXCEPT !.applied = TRUE]
  <2>1. /\ row \in Row /\ row.r = revs[n].r /\ row.applied
        /\ row.published = revs[n].published
    BY <1>4, Zenon DEF Row
  <2>2. revs' = [revs EXCEPT ![n] = row] /\ Goto(p, "put") /\ work[p].pc = "mark"
    BY <1>6 DEF MarkApplied, At
  <2>3. Effected(n, revs[n].r)
    BY <1>1, <1>2, <2>2 DEF Carries
  <2>4. /\ work'[p].pc = "put" /\ work'[p].seq = n
        /\ \A q \in Worker : q # p => work'[q] = work[q]
    BY <1>1, <2>2, GotoType DEF PC
  <2> HIDE DEF row
  <2>5. revs'[n] = row
    BY <1>1, <1>2, <2>2
  <2>6. Carries(p)'
    BY <2>1, <2>4, <2>5, Zenon DEF Carries
  <2>7. row.published => /\ n \in DOMAIN batch
                         /\ TargetOf[revs[n].r] \notin Epoch => revs[n].r \in sent
    BY <1>2, <2>1, Zenon DEF RecoveryInv
  <2> QED BY <1>5, <2>1, <2>2, <2>3, <2>4, <2>6, <2>7, Zenon
<1>7. CASE Finish(p)
  <2>1. Stop(p) /\ work[p].pc = "finish"
    BY <1>7 DEF Finish, At
  <2>2. /\ revs[n].applied /\ n \in DOMAIN batch
        /\ TargetOf[revs[n].r] \notin Epoch => revs[n].r \in sent
    BY <1>1, <1>2, <2>1, Zenon DEF Carries
  <2>3. Effected(n, revs[n].r)
    BY <1>2, <2>2, Zenon DEF RecoveryInv
  <2>4. work'[p] = Idle /\ \A q \in Worker : q # p => work'[q] = work[q]
    BY <1>1, <2>1, SetType, IdleType, Zenon DEF Stop
  <2>5. Carries(p)'
    BY <2>4, IdleType, IdleCarries
  <2> DEFINE row == [revs[n] EXCEPT !.published = TRUE]
  <2>6. row \in Row /\ row.r = revs[n].r /\ row.applied = revs[n].applied
    BY <1>4, Zenon DEF Row
  <2>7. revs' = [revs EXCEPT ![n] = row]
    BY <1>7, <2>2 DEF Finish
  <2> HIDE DEF row
  <2> QED BY <1>5, <2>2, <2>3, <2>4, <2>5, <2>6, <2>7, Zenon
<1> QED BY <1>6, <1>7

LEMMA RecoveryInit == Init => RecoveryInv
<1> SUFFICES ASSUME Init PROVE RecoveryInv
  OBVIOUS
<1>1. revs = <<>> /\ DOMAIN revs = {} /\ Len(revs) = 0 /\ \A l \in License : epoch[l] = 0
  BY DEF Init
<1>2. \A p \in Worker : work[p].pc = "idle"
  BY IdleType DEF Init
<1>3. \A p \in Worker : Carries(p)
  BY ONLY <1>2 DEF Carries
<1>4. \A l \in License : epoch[l] <= Len(revs)
  BY <1>1
<1> QED BY <1>1, <1>3, <1>4, Zenon DEF RecoveryInv, PendingCanApply

LEMMA RecoveryNext == Inv /\ Inv' /\ RecoveryInv /\ [Next]_vars => RecoveryInv'
<1> SUFFICES ASSUME Inv, Inv', RecoveryInv, [Next]_vars PROVE RecoveryInv'
  OBVIOUS
<1>1. ASSUME NEW p \in Worker, Step(p) \/ Fail(p) PROVE RecoveryInv'
  BY <1>1, WalkRecovers, InsertRecovers, ApplyRecovers, CheckpointRecovers DEF Step
<1>2. ASSUME NEW p \in Client, Ask(p) PROVE RecoveryInv'
  <2>1. p \in Worker
    BY DEF Worker
  <2> QED BY <1>2, <2>1, TakeRecovers DEF Ask
<1>3. ASSUME NEW c \in Cron, Resume(c) PROVE RecoveryInv'
  <2>1. c \in Worker
    BY DEF Worker
  <2> QED BY <1>3, <2>1, TakeRecovers DEF Resume
<1>4. CASE UNCHANGED <<revs, objects, batch, sent, work>>
  BY <1>4, StillRecovers
<1>5. CASE Around
  <2>1. ASSUME NEW t \in Target, Project(t) \/ Drift(t) \/ Erase(t) PROVE RecoveryInv'
    BY <1>4, <2>1 DEF Project, Drift, Erase, feed
  <2>2. CASE ForeignAppend \/ ForeignMirror
    BY <1>4, <2>2 DEF ForeignAppend, ForeignMirror, table, feed
  <2> QED BY <1>5, <2>1, <2>2, PurgeRecovers, ValidateRecovers DEF Around
<1>6. CASE UNCHANGED vars
  BY <1>4, <1>6 DEF vars, table, feed
<1> QED BY <1>1, <1>2, <1>3, <1>5, <1>6 DEF Next

\* Recovery is sound for any requests, targets, workers and failures: a row that
\* is checkpointed as published was applied, fed and audited, and a row that is
\* not applied yet is not stale for its LicenseDO.
THEOREM RecoverySafe == Spec => []RecoverySound
<1>1. RecoveryInv => RecoverySound
  BY Zenon DEF RecoveryInv, RecoverySound, PublishedIsDone, Effected
<1> QED BY <1>1, InvInit, InvNext, AppliedInit, AppliedNext, RecoveryInit, RecoveryNext, PTL DEF Spec
=============================================================================
