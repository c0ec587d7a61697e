-------------------------- MODULE EpochAdminProofs --------------------------
(***************************************************************************)
(* Two people approve the revocation of an epoch, one revocation is        *)
(* pending at a time and none is stranded, for any handlers, actors,       *)
(* epochs, window and order of their steps.  The argument: confirmations,  *)
(* rows and the published stage are never taken back, so what a handler    *)
(* read before an await still holds when its batch commits, and the number *)
(* it read is free only while nothing was inserted since.                  *)
(***************************************************************************)
EXTENDS EpochAdmin, FiniteSetTheorems, TLAPS

\* What no step takes back.
Grows ==
    /\ revLog' \in Seq(Revocations)
    /\ Len(revLog) <= Len(revLog')
    /\ \A i \in DOMAIN revLog : revLog[i].stage = "published" => revLog'[i].stage = "published"
    /\ \A e \in EpochIds : confirmed[e] \subseteq confirmed'[e]
    /\ epochNow' \in Nat /\ epochNow <= epochNow'

\* The positions of the revocation table.
LEMMA RowPositions ==
    ASSUME EpochTypes
    PROVE  Len(revLog) \in Nat /\ DOMAIN revLog = 1 .. Len(revLog)
BY DEF EpochTypes

\* The versions of an epoch's rows stay numbers when one of them is bumped.
LEMMA NextVersions ==
    ASSUME EpochTypes, NEW e \in EpochIds
    PROVE  /\ Versions(version[e].epoch + 1, version[e].approval) \in [epoch : Nat, approval : Nat]
           /\ Versions(version[e].epoch, version[e].approval + 1) \in [epoch : Nat, approval : Nat]
<1>1. version[e] \in [epoch : Nat, approval : Nat]
  BY Zenon DEF EpochTypes
<1>2. version[e].epoch \in Nat /\ version[e].approval \in Nat
  BY ONLY <1>1
<1> QED BY ONLY <1>2 DEF Versions

\* A step that leaves rows, confirmations and the clock alone takes nothing back.
LEMMA StillGrows ==
    ASSUME EpochTypes, UNCHANGED <<revLog, confirmed, epochNow>>
    PROVE  Grows
<1>1. Len(revLog) \in Nat
  BY RowPositions
<1>2. revLog \in Seq(Revocations) /\ epochNow \in Nat
  BY DEF EpochTypes
<1> QED BY <1>1, <1>2 DEF Grows

\* What a handler has read survives the steps of the others.
LEMMA JobKept ==
    ASSUME EpochTypes, Grows, NEW j \in EpochJobs,
           EpochJobInv(j, revLog, confirmed, epochNow)
    PROVE  EpochJobInv(j, revLog', confirmed', epochNow')
<1>1. Len(revLog) \in Nat /\ DOMAIN revLog = 1 .. Len(revLog)
  BY RowPositions
<1>2. Len(revLog') \in Nat /\ DOMAIN revLog' = 1 .. Len(revLog')
  BY DEF Grows
<1>a. Len(revLog) <= Len(revLog')
  BY DEF Grows
<1>3. \A i \in DOMAIN revLog : revLog[i].stage = "published" => revLog'[i].stage = "published"
  BY DEF Grows
<1>4. j.at \in Nat /\ j.seq \in Nat
  BY DEF EpochJobs
<1>5. j.at <= epochNow'
  BY <1>4 DEF Grows, EpochTypes, EpochJobInv
<1>6. ASSUME j.pc \in {"head", "second"}
      PROVE  ConfirmedBy(confirmed'[j.epoch], j.actor, j.at)
  <2>1. j.epoch \in EpochIds /\ ConfirmedBy(confirmed[j.epoch], j.actor, j.at)
    BY <1>6 DEF EpochJobInv
  <2>2. confirmed[j.epoch] \subseteq confirmed'[j.epoch]
    BY <2>1 DEF Grows
  <2> QED BY <2>1, <2>2 DEF ConfirmedBy
<1>7. ASSUME j.pc = "second"
      PROVE  /\ j.seq <= Len(revLog') + 1
             /\ \A i \in DOMAIN revLog' : i < j.seq => revLog'[i].stage = "published"
  <2>1. /\ j.seq <= Len(revLog) + 1
        /\ \A i \in DOMAIN revLog : i < j.seq => revLog[i].stage = "published"
    BY <1>7 DEF EpochJobInv
  <2>2. j.seq <= Len(revLog') + 1
    BY <2>1, <1>1, <1>2, <1>a, <1>4
  <2>3. ASSUME NEW i \in DOMAIN revLog', i < j.seq
        PROVE  revLog'[i].stage = "published"
    <3>1. i \in DOMAIN revLog
      BY <2>1, <2>3, <1>1, <1>2, <1>4
    <3> QED BY <3>1, <2>1, <2>3, <1>3
  <2> QED BY <2>2, <2>3
<1>8. DOMAIN revLog \subseteq DOMAIN revLog'
  BY <1>1, <1>2, <1>a
<1>9. j.pc \in {"publish", "batch", "mark"} => j.seq \in DOMAIN revLog'
  BY <1>8 DEF EpochJobInv
<1>10. j.pc \in {"certs", "rev", "put"} =>
         j.seq = 0 \/ (j.seq \in DOMAIN revLog' /\ revLog'[j.seq].stage = "published")
  BY <1>3, <1>8 DEF EpochJobInv
<1>11. /\ j.pc \in {"upload", "approval", "first", "insert", "head", "second"} => j.epoch \in EpochIds
       /\ j.pc = "upload" => j.seq = 0
  BY DEF EpochJobInv
<1> QED BY <1>5, <1>6, <1>7, <1>9, <1>10, <1>11 DEF EpochJobInv

\* One handler takes a step, the others keep what they have read.
LEMMA HandlersKept ==
    ASSUME EpochInv, Grows, NEW h \in EpochHandler, NEW job \in EpochJobs, To(h, job),
           EpochJobInv(job, revLog', confirmed', epochNow')
    PROVE  /\ eh' \in [EpochHandler -> EpochJobs]
           /\ \A q \in EpochHandler : EpochJobInv(eh'[q], revLog', confirmed', epochNow')
<1>1. eh \in [EpochHandler -> EpochJobs]
  BY DEF EpochInv, EpochTypes
<1>2. eh' \in [EpochHandler -> EpochJobs]
  BY <1>1 DEF To
<1>3. ASSUME NEW q \in EpochHandler PROVE EpochJobInv(eh'[q], revLog', confirmed', epochNow')
  <2>1. CASE q = h
    BY <2>1, <1>1 DEF To
  <2>2. CASE q # h
    <3>1. eh'[q] = eh[q] /\ eh[q] \in EpochJobs
      BY <2>2, <1>1 DEF To
    <3>2. EpochJobInv(eh[q], revLog, confirmed, epochNow)
      BY DEF EpochInv
    <3>3. EpochTypes
      BY DEF EpochInv
    <3>4. EpochJobInv(eh[q], revLog', confirmed', epochNow')
      BY <3>1, <3>2, <3>3, JobKept
    <3> QED BY <3>1, <3>4
  <2> QED BY <2>1, <2>2
<1> QED BY <1>2, <1>3

\* No handler takes a step.
LEMMA HandlersIdle ==
    ASSUME EpochInv, Grows, UNCHANGED eh
    PROVE  /\ eh' \in [EpochHandler -> EpochJobs]
           /\ \A q \in EpochHandler : EpochJobInv(eh'[q], revLog', confirmed', epochNow')
<1>1. eh \in [EpochHandler -> EpochJobs] /\ EpochTypes
  BY DEF EpochInv, EpochTypes
<1>2. ASSUME NEW q \in EpochHandler PROVE EpochJobInv(eh[q], revLog', confirmed', epochNow')
  <2>1. EpochJobInv(eh[q], revLog, confirmed, epochNow) /\ eh[q] \in EpochJobs
    BY <1>1 DEF EpochInv
  <2> QED BY <1>1, <2>1, JobKept
<1> QED BY <1>1, <1>2

\* A step of a handler that writes nothing but an entity version.
LEMMA ReadKeeps ==
    ASSUME EpochInv, NEW h \in EpochHandler, NEW job \in EpochJobs, To(h, job),
           EpochJobInv(job, revLog, confirmed, epochNow),
           UNCHANGED <<epochNow, epochTable, approval, revLog, effects, secretEpoch, confirmed>>,
           version' \in [EpochIds -> [epoch : Nat, approval : Nat]]
    PROVE  EpochInv'
<1>1. Grows
  BY StillGrows DEF EpochInv
<1>2. /\ eh' \in [EpochHandler -> EpochJobs]
      /\ \A q \in EpochHandler : EpochJobInv(eh'[q], revLog', confirmed', epochNow')
  BY <1>1, HandlersKept
<1>3. EpochTypes'
  BY <1>2, Zenon DEF EpochInv, EpochTypes
<1>4. ApprovalInv(approval, confirmed, epochNow)' /\ EffectInv(effects, revLog)'
  BY DEF EpochInv
<1>5. ApprovalsHold'
  BY DEF EpochInv, ApprovalsHold, TwoActors, OnePendingRevocation, EffectNotLost, Published
<1> QED BY <1>2, <1>3, <1>4, <1>5 DEF EpochInv

\* A row is rewritten: its epoch stays, and so does a published stage.
LEMMA RowKeeps ==
    ASSUME EpochInv, NEW i \in DOMAIN revLog, NEW row \in Revocations,
           row.epoch = revLog[i].epoch, Published(i) => row.stage = "published",
           revLog' = [revLog EXCEPT ![i] = row],
           UNCHANGED <<epochNow, epochTable, approval, effects, confirmed>>
    PROVE  Grows /\ ApprovalsHold' /\ EffectInv(effects, revLog)'
<1>1. Len(revLog) \in Nat /\ DOMAIN revLog = 1 .. Len(revLog) /\ revLog \in Seq(Revocations)
  BY RowPositions DEF EpochInv, EpochTypes
<1>2. revLog' \in Seq(Revocations) /\ Len(revLog') = Len(revLog)
  BY <1>1
<1>3. DOMAIN revLog' = DOMAIN revLog
  BY <1>1
<1>4. \A k \in DOMAIN revLog : /\ revLog'[k].epoch = revLog[k].epoch
                               /\ revLog[k].stage = "published" => revLog'[k].stage = "published"
  <2>1. ASSUME NEW k \in DOMAIN revLog, k # i PROVE revLog'[k] = revLog[k]
    BY <2>1
  <2>2. revLog'[i] = row
    OBVIOUS
  <2> QED BY <2>1, <2>2 DEF Published
<1>5. Grows
  <2>1. Len(revLog) <= Len(revLog')
    BY <1>1, <1>2
  <2>2. epochNow \in Nat
    BY DEF EpochInv, EpochTypes
  <2> QED BY <2>1, <2>2, <1>2, <1>4 DEF Grows
<1>6. TwoActors'
  BY DEF EpochInv, ApprovalsHold, TwoActors
<1>7. OnePendingRevocation'
  <2>1. \A k, l \in DOMAIN revLog' : ~Published(k)' /\ ~Published(l)' => k = l
    BY <1>3, <1>4 DEF EpochInv, ApprovalsHold, OnePendingRevocation, Published
  <2>2. \A e \in EpochIds : epochTable'[e] = "revoked" => \E k \in DOMAIN revLog' : revLog'[k].epoch = e
    BY <1>3, <1>4 DEF EpochInv, ApprovalsHold, OnePendingRevocation
  <2> QED BY <2>1, <2>2 DEF OnePendingRevocation
<1>8. EffectNotLost'
  BY <1>3, <1>4 DEF EpochInv, ApprovalsHold, EffectNotLost, Published
<1>9. EffectInv(effects, revLog)'
  BY <1>3 DEF EpochInv, EffectInv
<1> QED BY <1>5, <1>6, <1>7, <1>8, <1>9 DEF ApprovalsHold

\* A row is appended while nothing is pending.
LEMMA AppendKeeps ==
    ASSUME EpochInv, NEW e \in Nat, ~PendingAny,
           revLog' = Append(revLog, NewRevocation(e)), UNCHANGED epochNow,
           \A f \in EpochIds : confirmed[f] \subseteq confirmed'[f]
    PROVE  /\ Grows
           /\ DOMAIN revLog' = DOMAIN revLog \union {Len(revLog) + 1}
           /\ \A k \in DOMAIN revLog : revLog'[k] = revLog[k]
           /\ revLog'[Len(revLog) + 1] = NewRevocation(e)
           /\ \A k, l \in DOMAIN revLog' : ~Published(k)' /\ ~Published(l)' => k = l
<1>1. Len(revLog) \in Nat /\ DOMAIN revLog = 1 .. Len(revLog) /\ revLog \in Seq(Revocations)
  BY RowPositions DEF EpochInv, EpochTypes
<1>2. NewRevocation(e) \in Revocations
  BY DEF NewRevocation, Revocation, Revocations
<1>3. /\ revLog' \in Seq(Revocations) /\ Len(revLog') = Len(revLog) + 1
      /\ DOMAIN revLog' = 1 .. (Len(revLog) + 1)
  BY <1>1, <1>2
<1>4. DOMAIN revLog' = DOMAIN revLog \union {Len(revLog) + 1}
  BY <1>1, <1>3
<1>5. /\ \A k \in DOMAIN revLog : revLog'[k] = revLog[k]
      /\ revLog'[Len(revLog) + 1] = NewRevocation(e)
  BY <1>1, <1>2
<1>6. Grows
  <2>1. Len(revLog) <= Len(revLog')
    BY <1>1, <1>3
  <2>2. epochNow \in Nat /\ epochNow <= epochNow'
    BY DEF EpochInv, EpochTypes
  <2>3. \A k \in DOMAIN revLog : revLog[k].stage = "published" => revLog'[k].stage = "published"
    BY <1>5
  <2> QED BY <2>1, <2>2, <2>3, <1>3 DEF Grows
<1>7. \A k \in DOMAIN revLog : Published(k)'
  BY <1>5 DEF PendingAny, Published
<1> QED BY <1>4, <1>5, <1>6, <1>7

\* A handler that is done relies on nothing.
LEMMA NoJobHolds ==
    ASSUME NEW log, NEW conf, NEW now \in Nat
    PROVE  NoEpochJob \in EpochJobs /\ EpochJobInv(NoEpochJob, log, conf, now)
<1>1. NoEpochJob \in EpochJobs
  <2>1. 0 \in Nat
    OBVIOUS
  <2>2. {} \in SUBSET EpochIds
    OBVIOUS
  <2> QED BY <2>1, <2>2, ZenonT(20) DEF NoEpochJob, EpochJobs
<1>2. NoEpochJob.at = 0 /\ NoEpochJob.pc = "idle"
  BY DEF NoEpochJob
<1> QED BY <1>1, <1>2 DEF EpochJobInv

\* A handler's record, whole.
LEMMA JobAt ==
    ASSUME EpochInv, NEW h \in EpochHandler
    PROVE  /\ eh[h] \in EpochJobs /\ EpochJobInv(eh[h], revLog, confirmed, epochNow)
           /\ epochNow \in Nat /\ EpochTypes
BY DEF EpochInv, EpochTypes

\* A handler that leaves, whatever it held.
LEMMA LeaveKeeps ==
    ASSUME EpochInv, NEW h \in EpochHandler, Leave(h),
           UNCHANGED <<epochNow, epochTable, approval, revLog, effects, secretEpoch, confirmed>>,
           version' \in [EpochIds -> [epoch : Nat, approval : Nat]]
    PROVE  EpochInv'
<1>1. NoEpochJob \in EpochJobs /\ EpochJobInv(NoEpochJob, revLog, confirmed, epochNow)
  BY NoJobHolds, JobAt
<1> QED BY <1>1, ReadKeeps DEF Leave

\* UploadCheck preserves the invariant.
LEMMA UploadCheckKeeps ==
    ASSUME EpochInv, NEW h \in EpochHandler, NEW e \in EpochIds, UploadCheck(h, e)
    PROVE  EpochInv'
<1> DEFINE job == [NoEpochJob EXCEPT !.pc = "upload", !.epoch = e]
<1>1. job \in EpochJobs /\ job.at = 0 /\ job.pc = "upload" /\ job.epoch = e /\ job.seq = 0
  <2>1. NoEpochJob \in EpochJobs /\ e \in Nat
    BY NoJobHolds, JobAt, EpochAssumption
  <2>2. NoEpochJob.at = 0 /\ NoEpochJob.seq = 0
    BY DEF NoEpochJob
  <2> QED BY <2>1, <2>2, Zenon DEF EpochJobs
<1>2. EpochJobInv(job, revLog, confirmed, epochNow)
  BY <1>1, JobAt DEF EpochJobInv
<1>3. version' \in [EpochIds -> [epoch : Nat, approval : Nat]]
  BY JobAt DEF UploadCheck, EpochTypes
<1> HIDE DEF job
<1>4. To(h, job)
  BY DEF UploadCheck, job
<1> QED BY <1>1, <1>2, <1>3, <1>4, ReadKeeps DEF UploadCheck

\* RevokeCheck preserves the invariant.
LEMMA RevokeCheckKeeps ==
    ASSUME EpochInv, NEW h \in EpochHandler, NEW e \in EpochIds, NEW a \in Actor,
           RevokeCheck(h, e, a)
    PROVE  EpochInv'
<1> DEFINE job == [NoEpochJob EXCEPT !.pc = "approval", !.epoch = e, !.actor = a]
<1>1. job \in EpochJobs /\ job.at = 0 /\ job.pc = "approval" /\ job.epoch = e
  <2>1. NoEpochJob \in EpochJobs /\ e \in Nat
    BY NoJobHolds, JobAt, EpochAssumption
  <2>2. NoEpochJob.at = 0
    BY DEF NoEpochJob
  <2> QED BY <2>1, <2>2, Zenon DEF EpochJobs
<1>2. EpochJobInv(job, revLog, confirmed, epochNow)
  BY <1>1, JobAt DEF EpochJobInv
<1>3. version' \in [EpochIds -> [epoch : Nat, approval : Nat]]
  BY JobAt DEF RevokeCheck, EpochTypes
<1> HIDE DEF job
<1>4. To(h, job)
  BY DEF RevokeCheck, job
<1> QED BY <1>1, <1>2, <1>3, <1>4, ReadKeeps DEF RevokeCheck

\* RevokeApproval preserves the invariant: an open approval of another actor
\* is the confirmation the second one needs.
LEMMA RevokeApprovalKeeps ==
    ASSUME EpochInv, NEW h \in EpochHandler, RevokeApproval(h)
    PROVE  EpochInv'
<1> DEFINE e == eh[h].epoch
           open == approval[e].first # "none" /\ approval[e].expires > epochNow
           job == [eh[h] EXCEPT !.at = epochNow, !.renews = approval[e].first # "none",
                     !.pc = IF open THEN "head" ELSE "first"]
<1>0. eh[h] \in EpochJobs /\ e \in EpochIds /\ epochNow \in Nat /\ EpochTypes
  <2>1. eh[h].pc = "approval"
    BY DEF RevokeApproval
  <2> QED BY <2>1, JobAt DEF EpochJobInv
<1>v. version' \in [EpochIds -> [epoch : Nat, approval : Nat]]
  BY <1>0 DEF RevokeApproval, EpochTypes
<1>1. CASE approval[e].second # "none" \/ (open /\ SameActor(h))
  <2>1. Leave(h)
    BY <1>1 DEF RevokeApproval
  <2> QED BY <2>1, <1>v, LeaveKeeps DEF RevokeApproval
<1>2. CASE ~(approval[e].second # "none" \/ (open /\ SameActor(h)))
  <2>1. To(h, job)
    BY <1>2 DEF RevokeApproval
  <2>2. (approval[e].first # "none") \in BOOLEAN
    OBVIOUS
  <2>3. job \in EpochJobs
    BY <1>0, <2>2, Zenon DEF EpochJobs
  <2>4. /\ job.at = epochNow /\ job.epoch = e /\ job.actor = eh[h].actor
        /\ job.pc = IF open THEN "head" ELSE "first"
    BY <1>0 DEF EpochJobs
  <2>5. ASSUME open PROVE ConfirmedBy(confirmed[e], eh[h].actor, epochNow)
    <3>1. PICK x \in confirmed[e] : /\ x.actor = approval[e].first /\ x.at <= epochNow
                                    /\ x.at + ApprovalWindow = approval[e].expires
      BY <1>0, <2>5 DEF EpochInv, ApprovalInv
    <3>2. x.actor # eh[h].actor
      BY <3>1, <2>5, <1>2 DEF SameActor
    <3>3. x.at \in Nat /\ approval[e].expires \in Nat
      BY ONLY <1>0 DEF EpochTypes
    <3>4. epochNow <= x.at + ApprovalWindow
      BY <3>1, <3>3, <2>5, <1>0, EpochAssumption
    <3> QED BY <3>1, <3>2, <3>4 DEF ConfirmedBy
  <2> HIDE DEF job
  <2>6. EpochJobInv(job, revLog, confirmed, epochNow)
    <3>1. CASE open
      BY ONLY <3>1, <2>4, <2>5, <1>0 DEF EpochJobInv
    <3>2. CASE ~open
      BY <3>2, <2>4, <1>0 DEF EpochJobInv
    <3> QED BY <3>1, <3>2
  <2> QED BY <2>1, <2>3, <2>6, <1>v, ReadKeeps DEF RevokeApproval
<1> QED BY <1>1, <1>2

\* FirstVersion preserves the invariant.
LEMMA FirstVersionKeeps ==
    ASSUME EpochInv, NEW h \in EpochHandler, FirstVersion(h)
    PROVE  EpochInv'
<1> DEFINE job == [eh[h] EXCEPT !.pc = "insert", !.ver = version[eh[h].epoch].approval]
<1>0. /\ eh[h] \in EpochJobs /\ epochNow \in Nat /\ eh[h].at <= epochNow
      /\ eh[h].epoch \in EpochIds
  <2>1. eh[h].pc = "first"
    BY DEF FirstVersion
  <2> QED BY <2>1, JobAt DEF EpochJobInv
<1>1. version[eh[h].epoch].approval \in Nat
  BY <1>0, JobAt DEF EpochTypes
<1>2. /\ job \in EpochJobs
      /\ job.at = eh[h].at /\ job.pc = "insert" /\ job.epoch = eh[h].epoch
  BY <1>0, <1>1, Zenon DEF EpochJobs
<1>3. EpochJobInv(job, revLog, confirmed, epochNow)
  BY <1>0, <1>2 DEF EpochJobInv
<1>4. version' \in [EpochIds -> [epoch : Nat, approval : Nat]]
  BY JobAt DEF FirstVersion, EpochTypes
<1> HIDE DEF job
<1>5. To(h, job)
  BY DEF FirstVersion, job
<1> QED BY <1>2, <1>3, <1>4, <1>5, ReadKeeps DEF FirstVersion

\* SecondHead preserves the invariant: below the number it reads every row
\* is published.
LEMMA SecondHeadKeeps ==
    ASSUME EpochInv, NEW h \in EpochHandler, SecondHead(h)
    PROVE  EpochInv'
<1> DEFINE job == [eh[h] EXCEPT !.pc = "second", !.seq = Len(revLog) + 1,
                     !.ver = version[eh[h].epoch].epoch]
<1>0. /\ eh[h] \in EpochJobs /\ epochNow \in Nat /\ eh[h].at <= epochNow
      /\ eh[h].epoch \in EpochIds
      /\ ConfirmedBy(confirmed[eh[h].epoch], eh[h].actor, eh[h].at)
  <2>1. eh[h].pc = "head"
    BY DEF SecondHead
  <2> QED BY <2>1, JobAt DEF EpochJobInv
<1>v. version' \in [EpochIds -> [epoch : Nat, approval : Nat]]
  BY JobAt DEF SecondHead, EpochTypes
<1>1. CASE PendingNow
  <2>1. Leave(h)
    BY <1>1 DEF SecondHead
  <2> QED BY <2>1, <1>v, LeaveKeeps DEF SecondHead
<1>2. CASE ~PendingNow
  <2>1. version[eh[h].epoch].epoch \in Nat
    BY <1>0, JobAt DEF EpochTypes
  <2>2. Len(revLog) \in Nat
    BY RowPositions, JobAt
  <2>3. Len(revLog) + 1 \in Nat /\ Len(revLog) + 1 <= Len(revLog) + 1
    BY <2>2
  <2>4. /\ job \in EpochJobs /\ job.actor = eh[h].actor /\ job.seq = Len(revLog) + 1
        /\ job.at = eh[h].at /\ job.pc = "second" /\ job.epoch = eh[h].epoch
    BY <1>0, <2>1, <2>3, Zenon DEF EpochJobs
  <2>5. To(h, job)
    BY <1>2 DEF SecondHead
  <2> HIDE DEF job
  <2>6. \A i \in DOMAIN revLog : revLog[i].stage = "published"
    BY <1>2 DEF PendingNow, PendingAny, Published
  <2>7. EpochJobInv(job, revLog, confirmed, epochNow)
    BY <1>0, <2>3, <2>4, <2>6 DEF EpochJobInv
  <2> QED BY <2>4, <2>5, <2>7, <1>v, ReadKeeps DEF SecondHead
<1> QED BY <1>1, <1>2

\* CronEffect preserves the invariant.
LEMMA CronEffectKeeps ==
    ASSUME EpochInv, NEW h \in EpochHandler, NEW x \in effects, CronEffect(h, x)
    PROVE  EpochInv'
<1> DEFINE job == [NoEpochJob EXCEPT !.epoch = x[2],
                     !.pc = IF x[1] = "keyset" THEN "certs" ELSE "publish", !.seq = x[3]]
<1>0. x[2] \in Nat /\ IF x[1] = "keyset" THEN x[3] = 0 ELSE x[3] \in DOMAIN revLog
  BY DEF EpochInv, EffectInv
<1>1. Len(revLog) \in Nat /\ DOMAIN revLog = 1 .. Len(revLog)
  BY RowPositions, JobAt
<1>2. x[3] \in Nat
  BY <1>0, <1>1
<1>3. NoEpochJob \in EpochJobs /\ NoEpochJob.at = 0 /\ epochNow \in Nat
  BY NoJobHolds, JobAt DEF NoEpochJob
<1>4. /\ job \in EpochJobs /\ job.at = 0 /\ job.seq = x[3]
      /\ job.pc = IF x[1] = "keyset" THEN "certs" ELSE "publish"
  BY <1>0, <1>2, <1>3, Zenon DEF EpochJobs
<1>5. version' \in [EpochIds -> [epoch : Nat, approval : Nat]]
  BY JobAt DEF CronEffect, EpochTypes
<1> HIDE DEF job
<1>6. EpochJobInv(job, revLog, confirmed, epochNow)
  BY <1>0, <1>3, <1>4 DEF EpochJobInv
<1>7. To(h, job)
  BY DEF CronEffect, job
<1> QED BY <1>4, <1>5, <1>6, <1>7, ReadKeeps DEF CronEffect

\* KeysetCerts preserves the invariant.
LEMMA KeysetCertsKeeps ==
    ASSUME EpochInv, NEW h \in EpochHandler, KeysetCerts(h)
    PROVE  EpochInv'
<1> DEFINE job == [eh[h] EXCEPT !.pc = "rev", !.certs = ActiveEpochs]
<1>0. eh[h] \in EpochJobs /\ eh[h].pc = "certs" /\ EpochJobInv(eh[h], revLog, confirmed, epochNow)
  BY JobAt DEF KeysetCerts
<1>1. ActiveEpochs \in SUBSET EpochIds
  BY DEF ActiveEpochs
<1>2. job \in EpochJobs /\ job.pc = "rev" /\ job.seq = eh[h].seq /\ job.at = eh[h].at
  BY <1>0, <1>1, Zenon DEF EpochJobs
<1>3. version' \in [EpochIds -> [epoch : Nat, approval : Nat]]
  BY JobAt DEF KeysetCerts, EpochTypes
<1> HIDE DEF job
<1>4. EpochJobInv(job, revLog, confirmed, epochNow)
  BY <1>0, <1>2 DEF EpochJobInv
<1>5. To(h, job)
  BY DEF KeysetCerts, job
<1> QED BY <1>2, <1>3, <1>4, <1>5, ReadKeeps DEF KeysetCerts

\* KeysetEpoch preserves the invariant.
LEMMA KeysetEpochKeeps ==
    ASSUME EpochInv, NEW h \in EpochHandler, KeysetEpoch(h)
    PROVE  EpochInv'
<1> DEFINE job == [eh[h] EXCEPT !.pc = "put", !.ver = PublishedUpTo]
<1>0. eh[h] \in EpochJobs /\ eh[h].pc = "rev" /\ EpochJobInv(eh[h], revLog, confirmed, epochNow)
  BY JobAt DEF KeysetEpoch
<1>1. PublishedUpTo \in Nat
  <2>1. Len(revLog) \in Nat /\ DOMAIN revLog = 1 .. Len(revLog)
    BY RowPositions, JobAt
  <2>2. IsFiniteSet(DOMAIN revLog)
    BY <2>1, FS_Interval
  <2>3. IsFiniteSet({i \in DOMAIN revLog : Published(i)})
    BY <2>2, FS_Subset
  <2> QED BY <2>3, FS_CardinalityType DEF PublishedUpTo
<1>2. job \in EpochJobs /\ job.pc = "put" /\ job.seq = eh[h].seq /\ job.at = eh[h].at
  BY <1>0, <1>1, Zenon DEF EpochJobs
<1>3. version' \in [EpochIds -> [epoch : Nat, approval : Nat]]
  BY JobAt DEF KeysetEpoch, EpochTypes
<1> HIDE DEF job
<1>4. EpochJobInv(job, revLog, confirmed, epochNow)
  BY <1>0, <1>2 DEF EpochJobInv
<1>5. To(h, job)
  BY DEF KeysetEpoch, job
<1> QED BY <1>2, <1>3, <1>4, <1>5, ReadKeeps DEF KeysetEpoch

\* The types, the approvals and the effects, from the parts a step can change.
LEMMA RowTypes ==
    ASSUME EpochInv, Grows, eh' \in [EpochHandler -> EpochJobs],
           \A q \in EpochHandler : EpochJobInv(eh'[q], revLog', confirmed', epochNow'),
           ApprovalsHold', EffectInv(effects, revLog)',
           UNCHANGED <<epochNow, epochTable, approval, version, secretEpoch, confirmed>>
    PROVE  EpochInv'
<1>1. EpochTypes'
  BY Zenon DEF EpochInv, EpochTypes, Grows
<1>2. ApprovalInv(approval, confirmed, epochNow)'
  BY DEF EpochInv
<1> QED BY <1>1, <1>2 DEF EpochInv

\* KeysetPut preserves the invariant: the effect it completes belongs to a
\* published row.
LEMMA KeysetPutKeeps ==
    ASSUME EpochInv, NEW h \in EpochHandler, KeysetPut(h)
    PROVE  EpochInv'
<1> DEFINE done == <<IF eh[h].seq = 0 THEN "keyset" ELSE "revocation", eh[h].epoch, eh[h].seq>>
<1>0. /\ eh[h].pc = "put" /\ EpochJobInv(eh[h], revLog, confirmed, epochNow)
      /\ EpochTypes /\ epochNow \in Nat
  BY JobAt DEF KeysetPut
<1>1. eh[h].seq = 0 \/ revLog[eh[h].seq].stage = "published"
  BY <1>0 DEF EpochJobInv
<1>2. Grows
  BY <1>0, StillGrows DEF KeysetPut
<1>3. NoEpochJob \in EpochJobs /\ EpochJobInv(NoEpochJob, revLog', confirmed', epochNow')
  BY <1>0, NoJobHolds DEF KeysetPut
<1>4. /\ eh' \in [EpochHandler -> EpochJobs]
      /\ \A q \in EpochHandler : EpochJobInv(eh'[q], revLog', confirmed', epochNow')
  <2>1. To(h, NoEpochJob)
    BY Zenon DEF KeysetPut, Leave
  <2> QED BY <2>1, <1>2, <1>3, HandlersKept
<1>5. EffectInv(effects, revLog)'
  <2>1. effects' \subseteq effects /\ revLog' = revLog
    BY DEF KeysetPut
  <2> QED BY <2>1 DEF EpochInv, EffectInv
<1>6. EffectNotLost'
  <2>1. SUFFICES ASSUME NEW i \in DOMAIN revLog, revLog[i].epoch # 0, ~Published(i)
                 PROVE  <<"revocation", revLog[i].epoch, i>> \in effects'
    BY DEF EffectNotLost, KeysetPut, Published
  <2>2. <<"revocation", revLog[i].epoch, i>> \in effects
    BY <2>1 DEF EpochInv, ApprovalsHold, EffectNotLost
  <2>3. <<"revocation", revLog[i].epoch, i>> # done
    <3>1. CASE eh[h].seq = 0
      BY <3>1
    <3>2. CASE eh[h].seq # 0
      BY <3>2, <1>1, <2>1 DEF Published
    <3> QED BY <3>1, <3>2
  <2>4. effects' = effects \ {done}
    BY DEF KeysetPut
  <2> QED BY <2>2, <2>3, <2>4
<1>7. TwoActors' /\ OnePendingRevocation'
  BY DEF KeysetPut, EpochInv, ApprovalsHold, TwoActors, OnePendingRevocation, Published
<1>8. ApprovalsHold'
  BY <1>6, <1>7 DEF ApprovalsHold
<1> QED BY <1>2, <1>4, <1>5, <1>8, RowTypes DEF KeysetPut

\* UploadCommit preserves the invariant.
LEMMA UploadCommitKeeps ==
    ASSUME EpochInv, NEW h \in EpochHandler, UploadCommit(h)
    PROVE  EpochInv'
<1> DEFINE e == eh[h].epoch
           job == [eh[h] EXCEPT !.pc = "certs"]
<1>0. /\ eh[h] \in EpochJobs /\ eh[h].pc = "upload"
      /\ EpochJobInv(eh[h], revLog, confirmed, epochNow) /\ EpochTypes /\ epochNow \in Nat
  BY JobAt DEF UploadCommit
<1>e. e \in EpochIds /\ e \in Nat
  BY <1>0, EpochAssumption, Zenon DEF EpochJobInv
<1>1. CASE epochTable[e] # "absent"
  <2>1. Leave(h) /\ UNCHANGED <<epochTable, version, effects>>
    BY <1>1 DEF UploadCommit
  <2>2. version' \in [EpochIds -> [epoch : Nat, approval : Nat]]
    BY <2>1, <1>0 DEF EpochTypes
  <2> QED BY <2>1, <2>2, LeaveKeeps DEF UploadCommit
<1>2. CASE epochTable[e] = "absent"
  <2>1. /\ epochTable' = [epochTable EXCEPT ![e] = "active"]
        /\ version' = [version EXCEPT ![e] = Versions(1, @.approval)]
        /\ effects' = effects \union {<<"keyset", e, 0>>}
        /\ To(h, job)
        /\ UNCHANGED <<epochNow, approval, revLog, secretEpoch, confirmed>>
    BY <1>2 DEF UploadCommit
  <2>2. Grows
    BY <1>0, <2>1, StillGrows
  <2>3. /\ job \in EpochJobs /\ job.pc = "certs" /\ job.at = eh[h].at /\ job.seq = eh[h].seq
    BY <1>0 DEF EpochJobs
  <2>4. eh[h].at <= epochNow /\ eh[h].seq = 0
    BY <1>0 DEF EpochJobInv
  <2> HIDE DEF job
  <2>5. EpochJobInv(job, revLog', confirmed', epochNow')
    BY <2>1, <2>3, <2>4 DEF EpochJobInv
  <2>6. /\ eh' \in [EpochHandler -> EpochJobs]
        /\ \A q \in EpochHandler : EpochJobInv(eh'[q], revLog', confirmed', epochNow')
    BY <2>1, <2>2, <2>3, <2>5, HandlersKept, Zenon
  <2>7. EpochTypes'
    <3>1. Versions(1, version[e].approval) \in [epoch : Nat, approval : Nat]
      <4>1. version[e] \in [epoch : Nat, approval : Nat]
        BY ONLY <1>0, <1>e, Zenon DEF EpochTypes
      <4>2. version[e].approval \in Nat
        BY ONLY <4>1
      <4> QED BY ONLY <4>2 DEF Versions
    <3>2. version' \in [EpochIds -> [epoch : Nat, approval : Nat]]
      BY <1>0, <2>1, <3>1, Zenon DEF EpochTypes
    <3>3. epochTable' \in [EpochIds -> {"absent", "active", "revoked"}]
      BY <1>0, <2>1, Zenon DEF EpochTypes
    <3> QED BY <1>0, <2>1, <2>6, <3>2, <3>3, Zenon DEF EpochTypes
  <2>8. ApprovalInv(approval, confirmed, epochNow)'
    BY <2>1 DEF EpochInv
  <2>9. EffectInv(effects, revLog)'
    BY <2>1, <1>e DEF EpochInv, EffectInv
  <2>10. \A f \in EpochIds : epochTable'[f] = "revoked" => epochTable[f] = "revoked"
    BY <1>0, <2>1 DEF EpochTypes
  <2>11. ApprovalsHold'
    <3>1. TwoActors'
      BY <2>1, <2>10 DEF EpochInv, ApprovalsHold, TwoActors
    <3>2. OnePendingRevocation'
      BY <2>1, <2>10, Zenon DEF EpochInv, ApprovalsHold, OnePendingRevocation, Published
    <3>3. EffectNotLost'
      BY <2>1, Zenon DEF EpochInv, ApprovalsHold, EffectNotLost, Published
    <3> QED BY <3>1, <3>2, <3>3 DEF ApprovalsHold
  <2> QED BY <2>6, <2>7, <2>8, <2>9, <2>11 DEF EpochInv
<1> QED BY <1>1, <1>2

\* A handler rewrites a row and goes on.
LEMMA RowStep ==
    ASSUME EpochInv, NEW i \in DOMAIN revLog, NEW row \in Revocations,
           row.epoch = revLog[i].epoch, Published(i) => row.stage = "published",
           revLog' = [revLog EXCEPT ![i] = row],
           UNCHANGED <<epochNow, epochTable, approval, version, effects, secretEpoch, confirmed>>,
           NEW h \in EpochHandler, NEW job \in EpochJobs, To(h, job),
           EpochJobInv(job, revLog', confirmed', epochNow')
    PROVE  EpochInv'
<1>1. Grows /\ ApprovalsHold' /\ EffectInv(effects, revLog)'
  BY RowKeeps, Zenon
<1>2. /\ eh' \in [EpochHandler -> EpochJobs]
      /\ \A q \in EpochHandler : EpochJobInv(eh'[q], revLog', confirmed', epochNow')
  BY <1>1, HandlersKept, Zenon
<1> QED BY <1>1, <1>2, RowTypes, Zenon

\* A row is rewritten beside the handlers.
LEMMA RowBeside ==
    ASSUME EpochInv, NEW i \in DOMAIN revLog, NEW row \in Revocations,
           row.epoch = revLog[i].epoch, Published(i) => row.stage = "published",
           revLog' = [revLog EXCEPT ![i] = row],
           UNCHANGED <<epochNow, epochTable, approval, version, effects, secretEpoch, confirmed, eh>>
    PROVE  EpochInv'
<1>1. Grows /\ ApprovalsHold' /\ EffectInv(effects, revLog)'
  BY RowKeeps, Zenon
<1>2. /\ eh' \in [EpochHandler -> EpochJobs]
      /\ \A q \in EpochHandler : EpochJobInv(eh'[q], revLog', confirmed', epochNow')
  BY <1>1, HandlersIdle, Zenon
<1> QED BY <1>1, <1>2, RowTypes, Zenon

\* The fields of a row.
LEMMA RowFields ==
    ASSUME EpochInv, NEW i \in DOMAIN revLog
    PROVE  /\ revLog[i].epoch \in Nat /\ revLog[i].signed \in Nat /\ revLog[i].batch \in Nat
           /\ revLog[i].stage \in {"pending", "published"}
<1>1. revLog[i] \in Revocations
  BY DEF EpochInv, EpochTypes
<1> QED BY <1>1 DEF Revocations

\* SignRevocation preserves the invariant.
LEMMA SignRevocationKeeps ==
    ASSUME EpochInv, NEW h \in EpochHandler, SignRevocation(h)
    PROVE  EpochInv'
<1> DEFINE i == eh[h].seq
           s == IF revLog[i].signed # 0 THEN revLog[i].signed ELSE secretEpoch
           row == Revocation(revLog[i].epoch, s, revLog[i].batch, revLog[i].stage)
<1>0. /\ eh[h] \in EpochJobs /\ eh[h].pc = "publish"
      /\ EpochJobInv(eh[h], revLog, confirmed, epochNow) /\ EpochTypes /\ epochNow \in Nat
  BY JobAt DEF SignRevocation
<1>i. i \in DOMAIN revLog /\ eh[h].at <= epochNow
  BY <1>0 DEF EpochJobInv
<1>1. CASE Published(i)
  <2> DEFINE job == [eh[h] EXCEPT !.pc = "certs"]
  <2>1. To(h, job) /\ UNCHANGED <<revLog, effects>>
    BY <1>1 DEF SignRevocation
  <2>2. job \in EpochJobs /\ job.pc = "certs" /\ job.seq = i /\ job.at = eh[h].at
    BY <1>0 DEF EpochJobs
  <2> HIDE DEF job
  <2>3. EpochJobInv(job, revLog, confirmed, epochNow)
    BY <1>1, <1>i, <2>2 DEF EpochJobInv, Published
  <2>4. version' \in [EpochIds -> [epoch : Nat, approval : Nat]]
    BY <1>0 DEF SignRevocation, EpochTypes
  <2> QED BY <2>1, <2>2, <2>3, <2>4, ReadKeeps DEF SignRevocation
<1>2. CASE ~Published(i)
  <2>1. revLog' = [revLog EXCEPT ![i] = row]
    BY <1>2, Zenon DEF SignRevocation
  <2>2. s \in Nat
    BY <1>0, <1>i, RowFields, EpochAssumption, Zenon DEF EpochTypes
  <2> HIDE DEF s
  <2>3. row \in Revocations /\ row.epoch = revLog[i].epoch
    BY <1>i, <2>2, RowFields DEF Revocation, Revocations
  <2>u. UNCHANGED <<epochNow, epochTable, approval, version, effects, secretEpoch, confirmed>>
    BY <1>2 DEF SignRevocation, Refused
  <2> HIDE DEF row
  <2>4. DOMAIN revLog' = DOMAIN revLog
    BY <2>1, <1>0 DEF EpochTypes
  <2>5. CASE SignerReady(eh[h].epoch, s)
    <3> DEFINE job == [eh[h] EXCEPT !.pc = "batch", !.signer = s]
    <3>1. To(h, job)
      BY <1>2, <2>5, Zenon DEF SignRevocation, s
    <3>2. job \in EpochJobs /\ job.pc = "batch" /\ job.seq = i /\ job.at = eh[h].at
      BY <1>0, <2>2, Zenon DEF EpochJobs
    <3> HIDE DEF job
    <3>3. EpochJobInv(job, revLog', confirmed', epochNow')
      BY <1>i, <2>u, <2>4, <3>2, Zenon DEF EpochJobInv
    <3> QED BY <1>i, <1>2, <2>1, <2>3, <2>u, <3>1, <3>2, <3>3, RowStep, Zenon
  <2>6. CASE ~SignerReady(eh[h].epoch, s)
    <3>1. To(h, NoEpochJob)
      BY <1>2, <2>6 DEF SignRevocation, Refused, Leave, s
    <3>2. NoEpochJob \in EpochJobs /\ EpochJobInv(NoEpochJob, revLog', confirmed', epochNow')
      BY <1>0, <2>u, NoJobHolds
    <3> QED BY <1>i, <1>2, <2>1, <2>3, <2>u, <3>1, <3>2, RowStep, Zenon
  <2> QED BY <2>5, <2>6
<1> QED BY <1>1, <1>2

\* PublishRevocation preserves the invariant.
LEMMA PublishRevocationKeeps ==
    ASSUME EpochInv, NEW h \in EpochHandler, PublishRevocation(h)
    PROVE  EpochInv'
<1> DEFINE i == eh[h].seq
           row == Revocation(revLog[i].epoch, revLog[i].signed, eh[h].signer, revLog[i].stage)
           job == [eh[h] EXCEPT !.pc = "mark"]
<1>0. /\ eh[h] \in EpochJobs /\ eh[h].pc = "batch"
      /\ EpochJobInv(eh[h], revLog, confirmed, epochNow) /\ EpochTypes /\ epochNow \in Nat
  BY JobAt DEF PublishRevocation
<1>i. i \in DOMAIN revLog /\ eh[h].at <= epochNow
  BY <1>0 DEF EpochJobInv
<1>u. UNCHANGED <<epochNow, epochTable, approval, version, effects, secretEpoch, confirmed>>
  BY DEF PublishRevocation
<1>1. CASE revLog[i].batch \in {0, eh[h].signer}
  <2>1. revLog' = [revLog EXCEPT ![i] = row] /\ To(h, job)
    BY <1>1 DEF PublishRevocation
  <2>2. eh[h].signer \in Nat
    BY <1>0 DEF EpochJobs
  <2>3. /\ row \in Revocations /\ row.epoch = revLog[i].epoch /\ row.stage = revLog[i].stage
    BY <1>i, <2>2, RowFields DEF Revocation, Revocations
  <2>4. job \in EpochJobs /\ job.pc = "mark" /\ job.seq = i /\ job.at = eh[h].at
    BY <1>0 DEF EpochJobs
  <2> HIDE DEF job, row
  <2>5. DOMAIN revLog' = DOMAIN revLog
    BY <2>1, <1>0 DEF EpochTypes
  <2>6. EpochJobInv(job, revLog', confirmed', epochNow')
    BY <1>i, <1>u, <2>4, <2>5 DEF EpochJobInv
  <2>7. Published(i) => row.stage = "published"
    BY <2>3 DEF Published
  <2> QED BY <1>i, <1>u, <2>1, <2>3, <2>4, <2>6, <2>7, RowStep, Zenon
<1>2. CASE revLog[i].batch \notin {0, eh[h].signer}
  <2>1. Leave(h) /\ UNCHANGED revLog
    BY <1>2 DEF PublishRevocation
  <2>2. version' \in [EpochIds -> [epoch : Nat, approval : Nat]]
    BY <1>0, <1>u DEF EpochTypes
  <2> QED BY <2>1, <2>2, <1>u, LeaveKeeps
<1> QED BY <1>1, <1>2

\* MarkPublished preserves the invariant.
LEMMA MarkPublishedKeeps ==
    ASSUME EpochInv, NEW h \in EpochHandler, MarkPublished(h)
    PROVE  EpochInv'
<1> DEFINE i == eh[h].seq
           row == Revocation(revLog[i].epoch, revLog[i].signed, revLog[i].batch, "published")
           job == [eh[h] EXCEPT !.pc = "certs"]
<1>0. /\ eh[h] \in EpochJobs /\ eh[h].pc = "mark"
      /\ EpochJobInv(eh[h], revLog, confirmed, epochNow) /\ EpochTypes /\ epochNow \in Nat
  BY JobAt DEF MarkPublished
<1>i. i \in DOMAIN revLog /\ eh[h].at <= epochNow
  BY <1>0 DEF EpochJobInv
<1>u. UNCHANGED <<epochNow, epochTable, approval, version, effects, secretEpoch, confirmed>>
  BY DEF MarkPublished
<1>1. revLog' = [revLog EXCEPT ![i] = row] /\ To(h, job)
  BY DEF MarkPublished
<1>2. row \in Revocations /\ row.epoch = revLog[i].epoch /\ row.stage = "published"
  BY <1>i, RowFields DEF Revocation, Revocations
<1>3. job \in EpochJobs /\ job.pc = "certs" /\ job.seq = i /\ job.at = eh[h].at
  BY <1>0 DEF EpochJobs
<1> HIDE DEF job, row
<1>4. DOMAIN revLog' = DOMAIN revLog /\ revLog'[i] = row
  BY <1>1, <1>0, <1>i DEF EpochTypes
<1>5. EpochJobInv(job, revLog', confirmed', epochNow')
  BY <1>i, <1>u, <1>2, <1>3, <1>4 DEF EpochJobInv
<1> QED BY <1>i, <1>u, <1>1, <1>2, <1>3, <1>5, RowStep, Zenon

\* SignatureForgotten preserves the invariant.
LEMMA SignatureForgottenKeeps ==
    ASSUME EpochInv, NEW i \in DOMAIN revLog, SignatureForgotten(i)
    PROVE  EpochInv'
<1> DEFINE row == Revocation(revLog[i].epoch, 0, revLog[i].batch, revLog[i].stage)
<1>1. row \in Revocations /\ row.epoch = revLog[i].epoch /\ row.stage = revLog[i].stage
  BY RowFields DEF Revocation, Revocations
<1>2. revLog' = [revLog EXCEPT ![i] = row]
  BY DEF SignatureForgotten
<1> HIDE DEF row
<1> QED BY <1>1, <1>2, RowBeside, Zenon DEF SignatureForgotten, Published

\* LicensePublished preserves the invariant.
LEMMA LicensePublishedKeeps ==
    ASSUME EpochInv, LicensePublished
    PROVE  EpochInv'
<1>1. PICK i \in DOMAIN revLog :
         revLog' = [revLog EXCEPT ![i] = Revocation(@.epoch, @.signed, secretEpoch, "published")]
  BY Zenon DEF LicensePublished
<1> DEFINE row == Revocation(revLog[i].epoch, revLog[i].signed, secretEpoch, "published")
<1>2. secretEpoch \in Nat
  BY EpochAssumption DEF EpochInv, EpochTypes
<1>3. row \in Revocations /\ row.epoch = revLog[i].epoch /\ row.stage = "published"
  BY <1>2, RowFields DEF Revocation, Revocations
<1>4. revLog' = [revLog EXCEPT ![i] = row]
  BY <1>1
<1> HIDE DEF row
<1> QED BY <1>3, <1>4, RowBeside, Zenon DEF LicensePublished

\* LicenseRevoked preserves the invariant.
LEMMA LicenseRevokedKeeps ==
    ASSUME EpochInv, LicenseRevoked
    PROVE  EpochInv'
<1>1. /\ ~PendingAny /\ revLog' = Append(revLog, NewRevocation(0))
      /\ UNCHANGED <<epochNow, epochTable, approval, version, effects, secretEpoch, confirmed, eh>>
  BY DEF LicenseRevoked
<1>2. /\ Grows
      /\ DOMAIN revLog' = DOMAIN revLog \union {Len(revLog) + 1}
      /\ \A k \in DOMAIN revLog : revLog'[k] = revLog[k]
      /\ revLog'[Len(revLog) + 1] = NewRevocation(0)
      /\ \A k, l \in DOMAIN revLog' : ~Published(k)' /\ ~Published(l)' => k = l
  BY <1>1, AppendKeeps
<1>3. /\ eh' \in [EpochHandler -> EpochJobs]
      /\ \A q \in EpochHandler : EpochJobInv(eh'[q], revLog', confirmed', epochNow')
  BY <1>1, <1>2, HandlersIdle
<1>4. EffectInv(effects, revLog)'
  BY <1>1, <1>2 DEF EpochInv, EffectInv
<1>5. TwoActors'
  BY <1>1 DEF EpochInv, ApprovalsHold, TwoActors
<1>6. OnePendingRevocation'
  <2>1. \A e \in EpochIds : epochTable'[e] = "revoked" => \E k \in DOMAIN revLog' : revLog'[k].epoch = e
    BY <1>1, <1>2 DEF EpochInv, ApprovalsHold, OnePendingRevocation
  <2> QED BY <1>2, <2>1 DEF OnePendingRevocation
<1>7. EffectNotLost'
  <2>1. NewRevocation(0).epoch = 0
    BY DEF NewRevocation, Revocation
  <2> QED BY <1>1, <1>2, <2>1 DEF EpochInv, ApprovalsHold, EffectNotLost, Published
<1>8. ApprovalsHold'
  BY <1>5, <1>6, <1>7 DEF ApprovalsHold
<1> QED BY <1>1, <1>2, <1>3, <1>4, <1>8, RowTypes, Zenon

\* RotateSecret preserves the invariant.
LEMMA RotateSecretKeeps ==
    ASSUME EpochInv, NEW e \in EpochIds, RotateSecret(e)
    PROVE  EpochInv'
<1>1. EpochTypes'
  BY Zenon DEF RotateSecret, EpochInv, EpochTypes
<1>2. /\ ApprovalInv(approval, confirmed, epochNow)' /\ EffectInv(effects, revLog)'
      /\ (\A h \in EpochHandler : EpochJobInv(eh[h], revLog, confirmed, epochNow))'
  BY DEF RotateSecret, EpochInv
<1>3. ApprovalsHold'
  BY Zenon DEF RotateSecret, EpochInv, ApprovalsHold, TwoActors, OnePendingRevocation, EffectNotLost,
         Published
<1> QED BY <1>1, <1>2, <1>3 DEF EpochInv

\* EpochTick preserves the invariant.
LEMMA EpochTickKeeps ==
    ASSUME EpochInv, EpochTick
    PROVE  EpochInv'
<1>1. /\ epochNow \in Nat /\ epochNow' \in Nat /\ epochNow <= epochNow' /\ EpochTypes
      /\ UNCHANGED <<epochTable, approval, version, revLog, effects, secretEpoch, confirmed, eh>>
  BY DEF EpochTick, EpochInv, EpochTypes
<1>2. Grows
  <2>1. Len(revLog) \in Nat /\ revLog \in Seq(Revocations)
    BY <1>1, RowPositions DEF EpochTypes
  <2> QED BY <1>1, <2>1 DEF Grows
<1>3. /\ eh' \in [EpochHandler -> EpochJobs]
      /\ \A q \in EpochHandler : EpochJobInv(eh'[q], revLog', confirmed', epochNow')
  BY <1>1, <1>2, HandlersIdle
<1>4. EpochTypes'
  BY <1>1 DEF EpochTypes
<1>5. ApprovalInv(approval, confirmed, epochNow)'
  <2>1. SUFFICES ASSUME NEW e \in EpochIds, approval[e].first # "none"
                 PROVE  \E x \in confirmed[e] : /\ x.actor = approval[e].first /\ x.at <= epochNow'
                                                /\ x.at + ApprovalWindow = approval[e].expires
    BY <1>1 DEF ApprovalInv
  <2>2. PICK x \in confirmed[e] : /\ x.actor = approval[e].first /\ x.at <= epochNow
                                  /\ x.at + ApprovalWindow = approval[e].expires
    BY <2>1 DEF EpochInv, ApprovalInv
  <2>3. x.at \in Nat
    BY <1>1 DEF EpochTypes
  <2>4. x.at <= epochNow'
    BY <1>1, <2>2, <2>3
  <2> QED BY <2>2, <2>4
<1>6. EffectInv(effects, revLog)'
  BY <1>1, Zenon DEF EpochInv
<1>7. ApprovalsHold'
  BY <1>1, Zenon DEF EpochInv, ApprovalsHold, TwoActors, OnePendingRevocation, EffectNotLost, Published
<1> QED BY <1>3, <1>4, <1>5, <1>6, <1>7 DEF EpochInv

\* A confirmation is added at a registered epoch and none is lost.
LEMMA ConfirmAdds ==
    ASSUME EpochTypes, NEW e \in EpochIds, NEW a \in Actor \union {"none"}, NEW t \in Nat,
           Confirm(e, a, t)
    PROVE  /\ confirmed' \in [EpochIds -> SUBSET [actor : Actor \union {"none"}, at : Nat]]
           /\ \A f \in EpochIds : confirmed[f] \subseteq confirmed'[f]
           /\ [actor |-> a, at |-> t] \in confirmed'[e]
<1>1. confirmed \in [EpochIds -> SUBSET [actor : Actor \union {"none"}, at : Nat]]
  BY DEF EpochTypes
<1>2. [actor |-> a, at |-> t] \in [actor : Actor \union {"none"}, at : Nat]
  OBVIOUS
<1> QED BY <1>1, <1>2 DEF Confirm

\* FirstApproval preserves the invariant: a stored approval is the
\* confirmation made with it.
LEMMA FirstApprovalKeeps ==
    ASSUME EpochInv, NEW h \in EpochHandler, FirstApproval(h)
    PROVE  EpochInv'
<1> DEFINE j == eh[h]
           e == j.epoch
           stored == approval[e].first # "none"
           open == approval[e].second = "none" /\ approval[e].expires <= j.at
           new == Approval(j.actor, "none", j.at + ApprovalWindow)
<1>0. /\ j \in EpochJobs /\ j.pc = "insert" /\ EpochJobInv(j, revLog, confirmed, epochNow)
      /\ EpochTypes /\ epochNow \in Nat
  BY JobAt, Zenon DEF FirstApproval
<1>e. /\ e \in EpochIds /\ j.at \in Nat /\ j.at <= epochNow
      /\ j.actor \in Actor \union {"none"}
  BY ONLY <1>0 DEF EpochJobInv, EpochJobs
<1>u. Leave(h) /\ UNCHANGED <<epochNow, epochTable, revLog, effects, secretEpoch>>
  BY Zenon DEF FirstApproval
<1>v. version' \in [EpochIds -> [epoch : Nat, approval : Nat]]
  <2>1. Versions(version[e].epoch, version[e].approval + 1) \in [epoch : Nat, approval : Nat]
    BY ONLY <1>0, <1>e, NextVersions, Zenon
  <2>2. \/ version' = [version EXCEPT ![e] = Versions(version[e].epoch, version[e].approval + 1)]
        \/ version' = version
    BY Zenon DEF FirstApproval
  <2> QED BY <1>0, <2>1, <2>2, Zenon DEF EpochTypes
<1>1. CASE UNCHANGED <<approval, confirmed>>
  BY <1>1, <1>u, <1>v, LeaveKeeps, Zenon
<1>2. CASE ~UNCHANGED <<approval, confirmed>>
  <2>1. approval' = [approval EXCEPT ![e] = new] /\ Confirm(e, j.actor, j.at)
    BY <1>2, Zenon DEF FirstApproval
  <2>2. /\ confirmed' \in [EpochIds -> SUBSET [actor : Actor \union {"none"}, at : Nat]]
        /\ \A f \in EpochIds : confirmed[f] \subseteq confirmed'[f]
        /\ [actor |-> j.actor, at |-> j.at] \in confirmed'[e]
    BY <1>0, <1>e, <2>1, ConfirmAdds, Zenon
  <2>3. Grows
    <3>1. Len(revLog) \in Nat /\ revLog \in Seq(Revocations)
      BY <1>0, RowPositions DEF EpochTypes
    <3> QED BY ONLY <1>0, <1>u, <2>2, <3>1 DEF Grows
  <2>4. /\ eh' \in [EpochHandler -> EpochJobs]
        /\ \A q \in EpochHandler : EpochJobInv(eh'[q], revLog', confirmed', epochNow')
    <3>1. NoEpochJob \in EpochJobs /\ EpochJobInv(NoEpochJob, revLog', confirmed', epochNow')
      BY <1>0, <1>u, NoJobHolds
    <3> QED BY <1>u, <2>3, <3>1, HandlersKept DEF Leave
  <2>5. new \in [first : Actor \union {"none"}, second : Actor \union {"none"}, expires : Nat]
    <3>1. j.at + ApprovalWindow \in Nat
      BY <1>e, EpochAssumption
    <3> QED BY <1>e, <3>1 DEF Approval
  <2>6. new.first = j.actor /\ new.expires = j.at + ApprovalWindow
    BY DEF Approval
  <2> HIDE DEF new
  <2>7. EpochTypes'
    <3>1. approval' \in [EpochIds -> [first : Actor \union {"none"}, second : Actor \union {"none"},
                                      expires : Nat]]
      BY <1>0, <2>1, <2>5, Zenon DEF EpochTypes
    <3> QED BY <1>0, <1>u, <1>v, <2>2, <2>4, <3>1, Zenon DEF EpochTypes
  <2>8. ApprovalInv(approval, confirmed, epochNow)'
    <3>1. SUFFICES ASSUME NEW f \in EpochIds, approval'[f].first # "none"
                   PROVE  \E x \in confirmed'[f] :
                             /\ x.actor = approval'[f].first /\ x.at <= epochNow
                             /\ x.at + ApprovalWindow = approval'[f].expires
      BY <1>u, Zenon DEF ApprovalInv
    <3>2. CASE f = e
      <4>1. approval'[e] = new
        BY <1>0, <1>e, <2>1, Zenon DEF EpochTypes
      <4> QED BY ONLY <3>2, <4>1, <2>2, <2>6, <1>e, Zenon
    <3>3. CASE f # e
      <4>1. approval'[f] = approval[f]
        BY <3>3, <1>0, <2>1 DEF EpochTypes
      <4>2. PICK x \in confirmed[f] : /\ x.actor = approval[f].first /\ x.at <= epochNow
                                      /\ x.at + ApprovalWindow = approval[f].expires
        BY <3>1, <4>1 DEF EpochInv, ApprovalInv
      <4> QED BY <4>1, <4>2, <2>2
    <3> QED BY <3>2, <3>3
  <2>9. EffectInv(effects, revLog)'
    BY <1>u DEF EpochInv
  <2>10. TwoActors'
    BY <1>u, <2>2, Zenon DEF EpochInv, ApprovalsHold, TwoActors
  <2>11. OnePendingRevocation' /\ EffectNotLost'
    BY <1>u, Zenon DEF EpochInv, ApprovalsHold, OnePendingRevocation, EffectNotLost, Published
  <2>12. ApprovalsHold'
    BY <2>10, <2>11 DEF ApprovalsHold
  <2> QED BY <2>4, <2>7, <2>8, <2>9, <2>12 DEF EpochInv
<1> QED BY <1>1, <1>2, Zenon

\* SecondApproval preserves the invariant: the first confirmation is still
\* there, and the number read is free only if nothing was inserted since.
LEMMA SecondApprovalKeeps ==
    ASSUME EpochInv, NEW h \in EpochHandler, SecondApproval(h)
    PROVE  EpochInv'
<1> DEFINE j == eh[h]
           e == j.epoch
           n == Len(revLog)
           job == [NoEpochJob EXCEPT !.pc = "publish", !.epoch = e, !.seq = j.seq]
<1>0. /\ j \in EpochJobs /\ j.pc = "second" /\ EpochJobInv(j, revLog, confirmed, epochNow)
      /\ EpochTypes /\ epochNow \in Nat
  BY JobAt DEF SecondApproval
<1>e. /\ e \in EpochIds /\ e \in Nat /\ e # 0 /\ j.at \in Nat /\ j.seq \in Nat
      /\ j.actor \in Actor \union {"none"}
  BY ONLY <1>0, EpochAssumption, Zenon DEF EpochJobInv, EpochJobs
<1>n. n \in Nat /\ DOMAIN revLog = 1 .. n
  BY <1>0, RowPositions
<1>u. UNCHANGED <<epochNow, secretEpoch>>
  BY Zenon DEF SecondApproval
<1>1. CASE ~(version[e].epoch = j.ver /\ n + 1 = j.seq)
  <2>1. Leave(h) /\ UNCHANGED <<version, approval, epochTable, revLog, effects, confirmed>>
    BY <1>1 DEF SecondApproval
  <2>2. version' \in [EpochIds -> [epoch : Nat, approval : Nat]]
    BY <1>0, <2>1, Zenon DEF EpochTypes
  <2> QED BY <2>1, <2>2, <1>u, LeaveKeeps
<1>2. CASE version[e].epoch = j.ver /\ n + 1 = j.seq
  <2>1. /\ version' = [version EXCEPT ![e] = Versions(version[e].epoch + 1, version[e].approval)]
        /\ epochTable' = [epochTable EXCEPT ![e] = "revoked"]
        /\ revLog' = Append(revLog, NewRevocation(e))
        /\ effects' = effects \union {<<"revocation", e, j.seq>>}
        /\ Confirm(e, j.actor, j.at)
        /\ To(h, job)
    BY <1>2, Zenon DEF SecondApproval
  <2>2. \/ approval' = [approval EXCEPT ![e] =
                          Approval(approval[e].first, j.actor, approval[e].expires)]
        \/ approval' = approval
    BY <1>2, Zenon DEF SecondApproval
  <2>3. /\ confirmed' \in [EpochIds -> SUBSET [actor : Actor \union {"none"}, at : Nat]]
        /\ \A f \in EpochIds : confirmed[f] \subseteq confirmed'[f]
        /\ [actor |-> j.actor, at |-> j.at] \in confirmed'[e]
    BY <1>0, <1>e, <2>1, ConfirmAdds, Zenon
  <2>4. ~PendingAny
    <3>1. \A i \in DOMAIN revLog : i < j.seq => revLog[i].stage = "published"
      BY <1>0, Zenon DEF EpochJobInv
    <3>2. \A i \in DOMAIN revLog : i < j.seq
      BY <1>n, <1>e, <1>2
    <3> QED BY <3>1, <3>2 DEF PendingAny, Published
  <2>5. /\ Grows
        /\ DOMAIN revLog' = DOMAIN revLog \union {n + 1}
        /\ \A k \in DOMAIN revLog : revLog'[k] = revLog[k]
        /\ revLog'[n + 1] = NewRevocation(e)
        /\ \A k, l \in DOMAIN revLog' : ~Published(k)' /\ ~Published(l)' => k = l
    BY <1>e, <1>u, <2>1, <2>3, <2>4, AppendKeeps
  <2>r. NewRevocation(e).epoch = e
    BY Zenon DEF NewRevocation, Revocation
  <2>6. /\ eh' \in [EpochHandler -> EpochJobs]
        /\ \A q \in EpochHandler : EpochJobInv(eh'[q], revLog', confirmed', epochNow')
    <3>1. NoEpochJob \in EpochJobs /\ NoEpochJob.at = 0
      BY <1>0, NoJobHolds, Zenon DEF NoEpochJob
    <3>2. job \in EpochJobs /\ job.pc = "publish" /\ job.seq = j.seq /\ job.at = 0
      BY <1>e, <3>1, Zenon DEF EpochJobs
    <3>3. j.seq \in DOMAIN revLog'
      BY <1>2, <2>5
    <3> HIDE DEF job
    <3>4. EpochJobInv(job, revLog', confirmed', epochNow')
      BY ONLY <1>0, <1>u, <3>2, <3>3 DEF EpochJobInv
    <3> QED BY <2>1, <2>5, <3>2, <3>4, HandlersKept, Zenon
  <2>7. /\ approval' \in [EpochIds -> [first : Actor \union {"none"},
                                       second : Actor \union {"none"}, expires : Nat]]
        /\ \A f \in EpochIds : /\ approval'[f].first = approval[f].first
                               /\ approval'[f].expires = approval[f].expires
    <3>1. CASE approval' = approval
      BY <3>1, <1>0 DEF EpochTypes
    <3>2. CASE approval' = [approval EXCEPT ![e] =
                              Approval(approval[e].first, j.actor, approval[e].expires)]
      <4> DEFINE new == Approval(approval[e].first, j.actor, approval[e].expires)
      <4>1. approval \in [EpochIds -> [first : Actor \union {"none"},
                                       second : Actor \union {"none"}, expires : Nat]]
        BY <1>0 DEF EpochTypes
      <4>2. /\ new \in [first : Actor \union {"none"}, second : Actor \union {"none"}, expires : Nat]
            /\ new.first = approval[e].first /\ new.expires = approval[e].expires
        BY <1>e, <4>1, Zenon DEF Approval
      <4> HIDE DEF new
      <4>3. approval' = [approval EXCEPT ![e] = new]
        BY <3>2 DEF new
      <4> QED BY <1>e, <4>1, <4>2, <4>3
    <3> QED BY <2>2, <3>1, <3>2
  <2>8. EpochTypes'
    <3>1. Versions(version[e].epoch + 1, version[e].approval) \in [epoch : Nat, approval : Nat]
      BY ONLY <1>0, <1>e, NextVersions, Zenon
    <3>2. version' \in [EpochIds -> [epoch : Nat, approval : Nat]]
      BY <1>0, <2>1, <3>1, Zenon DEF EpochTypes
    <3>3. epochTable' \in [EpochIds -> {"absent", "active", "revoked"}]
      BY <1>0, <2>1, Zenon DEF EpochTypes
    <3>4. revLog' \in Seq(Revocations) /\ epochNow' \in Nat /\ secretEpoch' \in EpochIds
      BY <1>0, <1>u, <2>5, Zenon DEF Grows, EpochTypes
    <3> QED BY <2>3, <2>6, <2>7, <3>2, <3>3, <3>4, Zenon DEF EpochTypes
  <2>9. ApprovalInv(approval, confirmed, epochNow)'
    BY <1>u, <2>3, <2>7 DEF EpochInv, ApprovalInv
  <2>10. EffectInv(effects, revLog)'
    BY <1>2, <1>e, <2>1, <2>5 DEF EpochInv, EffectInv
  <2>11. \A f \in EpochIds : epochTable'[f] = "revoked" => f = e \/ epochTable[f] = "revoked"
    BY <1>0, <2>1, Zenon DEF EpochTypes
  <2>12. TwoActors'
    <3>1. PICK x \in confirmed[e] : x.actor # j.actor /\ x.at <= j.at /\ j.at <= x.at + ApprovalWindow
      BY <1>0, Zenon DEF EpochJobInv, ConfirmedBy
    <3>2. \E y, z \in confirmed'[e] :
            y.actor # z.actor /\ y.at <= z.at /\ z.at <= y.at + ApprovalWindow
      <4> DEFINE y == [actor |-> j.actor, at |-> j.at]
      <4>1. x \in confirmed'[e] /\ y \in confirmed'[e]
        BY <1>e, <2>3, Zenon
      <4>2. x.actor # y.actor /\ x.at <= y.at /\ y.at <= x.at + ApprovalWindow
        BY ONLY <3>1
      <4> HIDE DEF y
      <4> QED BY <4>1, <4>2
    <3>3. TwoActors /\ \A f \in EpochIds : confirmed[f] \subseteq confirmed'[f]
      BY <2>3, Zenon DEF EpochInv, ApprovalsHold
    <3> QED BY ONLY <2>11, <3>2, <3>3, Zenon DEF TwoActors
  <2>13. OnePendingRevocation'
    <3>1. SUFFICES ASSUME NEW f \in EpochIds, epochTable'[f] = "revoked"
                   PROVE  \E k \in DOMAIN revLog' : revLog'[k].epoch = f
      BY <2>5, Zenon DEF OnePendingRevocation
    <3>2. CASE f = e
      BY <3>2, <2>5, <2>r, Zenon
    <3>3. CASE f # e
      BY <3>1, <3>3, <2>5, <2>11 DEF EpochInv, ApprovalsHold, OnePendingRevocation
    <3> QED BY <3>2, <3>3
  <2>14. EffectNotLost'
    <3>1. SUFFICES ASSUME NEW k \in DOMAIN revLog', revLog'[k].epoch # 0, ~Published(k)'
                   PROVE  <<"revocation", revLog'[k].epoch, k>> \in effects'
      BY DEF EffectNotLost
    <3>2. CASE k \in DOMAIN revLog
      BY <3>1, <3>2, <2>1, <2>5 DEF EpochInv, ApprovalsHold, EffectNotLost, Published
    <3>3. CASE k = n + 1
      BY <3>3, <1>2, <2>1, <2>5, <2>r
    <3> QED BY <2>5, <3>2, <3>3
  <2>15. ApprovalsHold'
    BY <2>12, <2>13, <2>14 DEF ApprovalsHold
  <2> QED BY <2>6, <2>8, <2>9, <2>10, <2>15 DEF EpochInv
<1> QED BY <1>1, <1>2

\* A fresh registry: nobody has confirmed, nothing is revoked or pending.
LEMMA EpochInitKeeps ==
    ASSUME EpochInit
    PROVE  EpochInv
<1>1. NoEpochJob \in EpochJobs /\ EpochJobInv(NoEpochJob, revLog, confirmed, epochNow)
  BY NoJobHolds DEF EpochInit
<1>2. NoApproval \in [first : Actor \union {"none"}, second : Actor \union {"none"}, expires : Nat]
  BY DEF NoApproval, Approval
<1>3. Versions(1, 0) \in [epoch : Nat, approval : Nat] /\ Versions(0, 0) \in [epoch : Nat, approval : Nat]
  BY DEF Versions
<1>4. EpochTypes
  <2>1. version \in [EpochIds -> [epoch : Nat, approval : Nat]]
    <3>1. \A e \in EpochIds : Versions(IF e \in Uploaded THEN 1 ELSE 0, 0) \in [epoch : Nat, approval : Nat]
      BY <1>3
    <3> QED BY <3>1 DEF EpochInit
  <2>2. approval \in [EpochIds -> [first : Actor \union {"none"}, second : Actor \union {"none"},
                                   expires : Nat]]
    BY <1>2 DEF EpochInit
  <2>3. eh \in [EpochHandler -> EpochJobs]
    BY <1>1 DEF EpochInit
  <2>4. epochNow \in Nat /\ secretEpoch \in EpochIds /\ revLog \in Seq(Revocations)
    BY EpochAssumption DEF EpochInit
  <2>5. /\ epochTable \in [EpochIds -> {"absent", "active", "revoked"}]
        /\ confirmed \in [EpochIds -> SUBSET [actor : Actor \union {"none"}, at : Nat]]
    BY DEF EpochInit
  <2> QED BY <2>1, <2>2, <2>3, <2>4, <2>5 DEF EpochTypes
<1>5. ApprovalInv(approval, confirmed, epochNow)
  BY DEF ApprovalInv, EpochInit, NoApproval, Approval
<1>6. \A h \in EpochHandler : EpochJobInv(eh[h], revLog, confirmed, epochNow)
  BY <1>1 DEF EpochInit
<1>7. EffectInv(effects, revLog)
  BY DEF EffectInv, EpochInit
<1>8. ApprovalsHold
  <2>1. \A e \in EpochIds : epochTable[e] # "revoked"
    BY DEF EpochInit
  <2>2. DOMAIN revLog = {}
    BY DEF EpochInit
  <2> QED BY <2>1, <2>2 DEF ApprovalsHold, TwoActors, OnePendingRevocation, EffectNotLost
<1> QED BY <1>4, <1>5, <1>6, <1>7, <1>8 DEF EpochInv

\* Every step preserves the invariant, one action at a time.
LEMMA EpochNextKeeps ==
    ASSUME EpochInv, [EpochNext]_epochVars
    PROVE  EpochInv'
<1>1. ASSUME NEW h \in EpochHandler, ApprovalStep(h) PROVE EpochInv'
  BY <1>1, RevokeCheckKeeps, RevokeApprovalKeeps, FirstVersionKeeps, FirstApprovalKeeps,
     SecondHeadKeeps, SecondApprovalKeeps DEF ApprovalStep
<1>2. ASSUME NEW h \in EpochHandler, EffectStep(h) PROVE EpochInv'
  BY <1>2, UploadCheckKeeps, CronEffectKeeps, UploadCommitKeeps, SignRevocationKeeps,
     PublishRevocationKeeps, MarkPublishedKeeps, KeysetCertsKeeps, KeysetEpochKeeps,
     KeysetPutKeeps DEF EffectStep
<1>3. ASSUME NEW h \in EpochHandler, EpochHandlerDies(h) PROVE EpochInv'
  <2>1. version' \in [EpochIds -> [epoch : Nat, approval : Nat]]
    BY <1>3 DEF EpochHandlerDies, EpochInv, EpochTypes
  <2> QED BY <1>3, <2>1, LeaveKeeps DEF EpochHandlerDies
<1>4. ASSUME KeyStep PROVE EpochInv'
  BY <1>4, RotateSecretKeeps, SignatureForgottenKeeps DEF KeyStep
<1>5. CASE UNCHANGED epochVars
  <2>1. EpochTypes'
    BY <1>5, Zenon DEF epochVars, EpochInv, EpochTypes
  <2>2. ApprovalsHold'
    BY <1>5, Zenon DEF epochVars, EpochInv, ApprovalsHold, TwoActors, OnePendingRevocation, EffectNotLost,
                Published
  <2> QED BY <1>5, <2>1, <2>2 DEF epochVars, EpochInv
<1> QED BY <1>1, <1>2, <1>3, <1>4, <1>5, LicenseRevokedKeeps, LicensePublishedKeeps, EpochTickKeeps
     DEF EpochNext

\* An epoch is revoked only with the confirmations of two distinct actors
\* inside the window, at most one revocation is pending, every revoked epoch
\* has its row, and a pending one keeps its side effect: for any number of
\* handlers, actors and epochs and any approval window
\* (revoke, persist_second_approval, publish_epoch_revocation).
THEOREM ApprovalsSafe == EpochSpec => []ApprovalsHold
<1>1. EpochInit => EpochInv
  BY EpochInitKeeps
<1>2. EpochInv /\ [EpochNext]_epochVars => EpochInv'
  BY EpochNextKeeps
<1>3. EpochInv => ApprovalsHold
  BY Zenon DEF EpochInv
<1> QED BY <1>1, <1>2, <1>3, PTL DEF EpochSpec
=============================================================================
