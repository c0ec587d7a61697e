--------------------------- MODULE RevocationLog ----------------------------
(***************************************************************************)
(* The global revocation sequence (admin.rs, admin_resources/epochs.rs):   *)
(* a row of D1 table revocations is reserved, recorded in the audit chain, *)
(* applied in its LicenseDO, published to KV and checkpointed, by request  *)
(* handlers and by the minute cron, each awaiting between two steps and    *)
(* possibly dying there.                                                   *)
(*                                                                         *)
(* Licenses, machines and epochs are revoked.  An epoch revocation is the  *)
(* side effect of a journaled Admin operation, which also records it: see  *)
(* AdminJournal for that part.                                             *)
(***************************************************************************)
EXTENDS Integers, Sequences

CONSTANTS
    Request,    \* Idempotency-Keys
    NoReq,
    License, Machine, Epoch,    \* what may be revoked
    TargetOf,   \* the target of each request
    LicenseOf,  \* the license of each license or machine
    Drifting,   \* the targets whose machine is deactivated meanwhile
    Purgeable,  \* the machines that are released or erased for their owner
    Client,     \* request handlers
    Cron,       \* runs of the scheduled handler
    MaxFail,    \* bound: how many workers die
    MaxForeign  \* bound: how many events other operations add to the audit chain

Target == License \cup Machine \cup Epoch

ASSUME RevocationAssumption ==
    /\ NoReq \notin Request
    /\ TargetOf \in [Request -> Target]
    /\ LicenseOf \in [License \cup Machine -> License]
    /\ Epoch \cap (License \cup Machine) = {}
    /\ Client \cap Cron = {}
    /\ MaxFail \in Nat /\ MaxForeign \in Nat

VARIABLES
    revs,       \* table revocations in seq order: r, applied_at and published_at
    rows,       \* the targets with a row in D1
    count,      \* affected_machines as D1 counts it for each target
    shown,      \* the targets whose D1 row has status revoked
    known,      \* the targets whose LicenseDO has a row for them
    revoked,    \* the targets whose LicenseDO has them revoked
    epoch,      \* revocation_epoch_seen of each LicenseDO
    event,      \* the event AdminAuditDO holds for a request: its before snapshot
    mirror,     \* the same in D1 table admin_audit_events
    foreign,    \* the events other operations have in AdminAuditDO and in D1
    batch,      \* KV rev:batch:<seq - 1>: the request each one stands for
    kvEpoch,    \* KV rev:epoch
    sent,       \* the requests whose audit event went to the queue
    work,       \* what each worker is doing
    fails

table == <<revs, rows, count, shown>>
objects == <<known, revoked, epoch>>
audit == <<event, mirror, foreign>>
feed == <<batch, kvEpoch>>
vars == <<table, objects, audit, feed, sent, work, fails>>

Worker == Client \cup Cron

Max(a, b) == IF a < b THEN b ELSE a

\* The before snapshot of an event, as far as it varies: the target's status
\* and affected_machines.
NoSnap == -1
RevokedSnap == 2
Snapshot(t) == IF t \in shown THEN RevokedSnap ELSE count[t]

\* What a worker keeps across its awaits: the request, the row's seq and whether
\* it had applied_at, the target's snapshot and the value read from rev:epoch.
Idle == [pc |-> "idle", r |-> NoReq, seq |-> 0, applied |-> FALSE, snap |-> 0, cur |-> 0]

Pending(i) == ~revs[i].published
AnyPending == \E i \in DOMAIN revs : Pending(i)
Reserved(r) == \E i \in DOMAIN revs : revs[i].r = r
SeqOf(r) == CHOOSE i \in DOMAIN revs : revs[i].r = r

\* Variant that takes the last row whether it is applied or not.
AuthoritativeLast == Len(revs)

\* current_revocation_epoch: MAX(seq) WHERE applied_at IS NOT NULL.
Authoritative ==
    LET A == {i \in DOMAIN revs : revs[i].applied}
    IN  IF A = {} THEN 0 ELSE CHOOSE i \in A : \A j \in A : j <= i

Init ==
    /\ revs = <<>>
    /\ rows = Target
    /\ count = [t \in Target |-> 1]
    /\ shown = {}
    /\ known = License \cup Machine
    /\ revoked = {}
    /\ epoch = [l \in License |-> 0]
    /\ event = [r \in Request |-> NoSnap]
    /\ mirror = [r \in Request |-> NoSnap]
    /\ foreign = [chain |-> 0, d1 |-> 0]
    /\ batch = [i \in {} |-> NoReq]
    /\ kvEpoch = 0
    /\ sent = {}
    /\ work = [p \in Worker |-> Idle]
    /\ fails = 0

\* Worker p is awaiting the call its step pc makes.
At(p, pc) == work[p].pc = pc
Goto(p, pc) == work' = [work EXCEPT ![p].pc = pc]
Stop(p) == work' = [work EXCEPT ![p] = Idle]

(***************************************************************************)
(* Reservation                                                             *)
(***************************************************************************)

\* revoke, revoke_refunded_license: load_target.
Load(p, r) ==
    /\ work[p] = Idle
    /\ TargetOf[r] \in rows \ Epoch
    /\ work' = [work EXCEPT ![p] =
                  [Idle EXCEPT !.pc = "look", !.r = r, !.snap = Snapshot(TargetOf[r])]]
    /\ UNCHANGED <<table, objects, audit, feed, sent, fails>>

\* The row is Ready: apply_and_publish unless it is published already.
Ready(p, r) ==
    IF Pending(SeqOf(r))
    THEN work' = [work EXCEPT ![p] = [@ EXCEPT !.pc = "audit", !.seq = SeqOf(r),
                                               !.applied = revs[SeqOf(r)].applied]]
    ELSE Stop(p)

\* reserve_revocation up to the INSERT: the request's row, or already_revoked.
Look(p) ==
    LET r == work[p].r
        t == TargetOf[r]
    IN  /\ At(p, "look")
        /\ \/ Reserved(r) /\ Ready(p, r)
           \/ /\ ~Reserved(r)
              /\ IF \/ work[p].snap = RevokedSnap
                    \/ \E i \in DOMAIN revs : TargetOf[revs[i].r] = t /\ ~Pending(i)
                 THEN Stop(p)
                 ELSE Goto(p, "insert")
        /\ UNCHANGED <<table, objects, audit, feed, sent, fails>>

NewRow(r) == Append(revs, [r |-> r, applied |-> FALSE, published |-> FALSE])

\* The conditional INSERT, and what the losers get.
Insert(p) ==
    LET r == work[p].r
    IN  /\ At(p, "insert")
        /\ \/ Reserved(r) /\ Ready(p, r) /\ UNCHANGED revs
           \/ ~Reserved(r) /\ AnyPending /\ Stop(p) /\ UNCHANGED revs
           \/ /\ ~Reserved(r) /\ ~AnyPending
              /\ revs' = NewRow(r)
              /\ work' = [work EXCEPT ![p] = [@ EXCEPT !.pc = "audit", !.seq = Len(revs) + 1]]
        /\ UNCHANGED <<rows, count, shown, objects, audit, feed, sent, fails>>

\* persist_second_approval: revocation_head, which fixes the sequence number.
EpochHead(p, r) ==
    /\ work[p] = Idle
    /\ TargetOf[r] \in Epoch
    /\ ~Reserved(r)
    /\ ~AnyPending
    /\ work' = [work EXCEPT ![p] = [Idle EXCEPT !.pc = "batch", !.r = r, !.seq = Len(revs) + 1]]
    /\ UNCHANGED <<table, objects, audit, feed, sent, fails>>

\* The batch that journals the operation and inserts the row under that number:
\* it fails when the number, the request or the approval is taken.
EpochBatch(p) ==
    LET r == work[p].r
    IN  /\ At(p, "batch")
        /\ IF work[p].seq = Len(revs) + 1 /\ ~Reserved(r)
           THEN revs' = NewRow(r) /\ Goto(p, "mark")
           ELSE Stop(p) /\ UNCHANGED revs
        /\ UNCHANGED <<rows, count, shown, objects, audit, feed, sent, fails>>

\* The journal repeats the side effect of an epoch revocation, for a caller that
\* retries or in the cron: publish_epoch_revocation reads the row.
EpochResume(p, r) ==
    /\ work[p] = Idle
    /\ TargetOf[r] \in Epoch
    /\ Reserved(r)
    /\ Pending(SeqOf(r))
    /\ work' = [work EXCEPT ![p] =
                  [Idle EXCEPT !.pc = IF revs[SeqOf(r)].applied THEN "put" ELSE "mark",
                               !.r = r, !.seq = SeqOf(r)]]
    /\ UNCHANGED <<table, objects, audit, feed, sent, fails>>

\* reconcile_pending: the oldest unpublished row, with its target read again.
CronPending(c) ==
    /\ work[c] = Idle
    /\ \E i \in DOMAIN revs :
          LET t == TargetOf[revs[i].r]
          IN  /\ Pending(i)
              /\ \A j \in 1 .. (i - 1) : ~Pending(j)
              /\ t \in rows \ Epoch
              /\ work' = [work EXCEPT ![c] =
                            [Idle EXCEPT !.pc = "audit", !.r = revs[i].r, !.seq = i,
                                         !.applied = revs[i].applied, !.snap = Snapshot(t)]]
    /\ UNCHANGED <<table, objects, audit, feed, sent, fails>>

(***************************************************************************)
(* apply_and_publish                                                       *)
(***************************************************************************)

\* load_or_create_admin_audit: the stored event, or a new one to append.
LoadAudit(p) ==
    /\ At(p, "audit")
    /\ IF mirror[work[p].r] # NoSnap
       THEN Goto(p, IF work[p].applied THEN "put" ELSE "apply")
       ELSE Goto(p, "append")
    /\ UNCHANGED <<table, objects, audit, feed, sent, fails>>

\* The mirror's head, which the caller sends along, is behind the chain.
HeadIsStale == foreign.d1 < foreign.chain \/ \E q \in Request : event[q] # mirror[q]

\* Variant that does not know the request it has already appended.
AppendAuditAfresh(p) ==
    LET r == work[p].r
    IN  /\ At(p, "append")
        /\ \/ HeadIsStale /\ Stop(p) /\ UNCHANGED event
           \/ /\ ~HeadIsStale
              /\ event' = [event EXCEPT ![r] = work[p].snap]
              /\ Goto(p, "mirror")
        /\ UNCHANGED <<table, objects, mirror, foreign, feed, sent, fails>>

\* AdminAuditDO::append: the stored event for the same request, or
\* idempotency_conflict when its before snapshot is another; stale_chain_head;
\* a new event.
AppendAudit(p) ==
    LET r == work[p].r
    IN  /\ At(p, "append")
        /\ \/ event[r] = work[p].snap /\ Goto(p, "mirror") /\ UNCHANGED event
           \/ event[r] \notin {NoSnap, work[p].snap} /\ Stop(p) /\ UNCHANGED event
           \/ event[r] = NoSnap /\ HeadIsStale /\ Stop(p) /\ UNCHANGED event
           \/ /\ event[r] = NoSnap /\ ~HeadIsStale
              /\ event' = [event EXCEPT ![r] = work[p].snap]
              /\ Goto(p, "mirror")
        /\ UNCHANGED <<table, objects, mirror, foreign, feed, sent, fails>>

\* INSERT INTO admin_audit_events ... ON CONFLICT(operation_id) DO NOTHING.
MirrorAudit(p) ==
    LET r == work[p].r
    IN  /\ At(p, "mirror")
        /\ mirror' = [mirror EXCEPT ![r] = event[r]]
        /\ Goto(p, IF work[p].applied THEN "put" ELSE "apply")
        /\ UNCHANGED <<table, objects, event, foreign, feed, sent, fails>>

\* LicenseDO /init, which changes nothing here, and /revoke with plan_license or
\* plan_machine: a target that is gone or an epoch that is not newer is refused,
\* an exact retry succeeds, and the reply must carry this very epoch.
Apply(p) ==
    LET t == TargetOf[work[p].r]
        l == LicenseOf[t]
        n == work[p].seq
    IN  /\ At(p, "apply")
        /\ \/ /\ t \in known /\ t \in revoked
              /\ epoch' = [epoch EXCEPT ![l] = Max(@, n)]
              /\ IF epoch[l] <= n THEN Goto(p, "mark") ELSE Stop(p)
              /\ UNCHANGED revoked
           \/ /\ t \in known /\ t \notin revoked /\ epoch[l] < n
              /\ revoked' = revoked \cup {t}
              /\ epoch' = [epoch EXCEPT ![l] = n]
              /\ Goto(p, "mark")
           \/ /\ t \notin known \/ (t \notin revoked /\ n <= epoch[l])
              /\ Stop(p)
              /\ UNCHANGED <<revoked, epoch>>
        /\ UNCHANGED <<table, known, audit, feed, sent, fails>>

\* The applied_at checkpoint.
MarkApplied(p) ==
    /\ At(p, "mark")
    /\ revs' = [revs EXCEPT ![work[p].seq] = [@ EXCEPT !.applied = TRUE]]
    /\ Goto(p, "put")
    /\ UNCHANGED <<rows, count, shown, objects, audit, feed, sent, fails>>

\* Variant that leaves the batch for later.
PutBatchLater(p) ==
    /\ At(p, "put")
    /\ Goto(p, "read")
    /\ UNCHANGED <<table, objects, audit, feed, sent, fails>>

\* Signs the batch and stores it under a key that is never overwritten: a batch
\* of another row there is an error.  The IssuerDO remembers the envelope of a
\* row, so a retry has the same bytes (module EpochAdmin has the key change
\* after it is forgotten).
PutBatch(p) ==
    LET n == work[p].seq
        r == work[p].r
    IN  /\ At(p, "put")
        /\ IF n \in DOMAIN batch
           THEN /\ IF batch[n] = r THEN Goto(p, "read") ELSE Stop(p)
                /\ UNCHANGED batch
           ELSE /\ batch' = [i \in DOMAIN batch \cup {n} |-> IF i = n THEN r ELSE batch[i]]
                /\ Goto(p, "read")
        /\ UNCHANGED <<table, objects, audit, kvEpoch, sent, fails>>

\* publish_batch reads rev:epoch and refuses a value ahead of the row or a gap.
ReadEpoch(p) ==
    /\ At(p, "read")
    /\ IF kvEpoch \in {work[p].seq - 1, work[p].seq}
       THEN work' = [work EXCEPT ![p] = [@ EXCEPT !.pc = "advance", !.cur = kvEpoch]]
       ELSE Stop(p)
    /\ UNCHANGED <<table, objects, audit, feed, sent, fails>>

\* It then writes rev:epoch if the value it read was smaller.
AdvanceEpoch(p) ==
    /\ At(p, "advance")
    /\ kvEpoch' = IF work[p].cur < work[p].seq THEN work[p].seq ELSE kvEpoch
    /\ Goto(p, IF TargetOf[work[p].r] \in Epoch THEN "finish" ELSE "send")
    /\ UNCHANGED <<table, objects, audit, batch, sent, fails>>

\* enqueue_admin_audit and its checkpoint.
SendAudit(p) ==
    /\ At(p, "send")
    /\ sent' = sent \cup {work[p].r}
    /\ Goto(p, "finish")
    /\ UNCHANGED <<table, objects, audit, feed, fails>>

\* The published_at checkpoint, for a row that has applied_at.
Finish(p) ==
    /\ At(p, "finish")
    /\ revs' = IF revs[work[p].seq].applied
               THEN [revs EXCEPT ![work[p].seq] = [@ EXCEPT !.published = TRUE]]
               ELSE revs
    /\ Stop(p)
    /\ UNCHANGED <<rows, count, shown, objects, audit, feed, sent, fails>>

\* A worker dies at an await.
Fail(p) ==
    /\ work[p] # Idle
    /\ fails < MaxFail
    /\ fails' = fails + 1
    /\ Stop(p)
    /\ UNCHANGED <<table, objects, audit, feed, sent>>

(***************************************************************************)
(* What goes on around it                                                  *)
(***************************************************************************)

\* The consumer projects the status of a revoked target into D1.
Project(t) ==
    /\ t \in (revoked \cap rows) \ shown
    /\ shown' = shown \cup {t}
    /\ UNCHANGED <<revs, rows, count, objects, audit, feed, sent, work, fails>>

\* A device is deactivated: D1 counts a machine less.
Drift(t) ==
    /\ t \in Drifting
    /\ count[t] = 1
    /\ count' = [count EXCEPT ![t] = 0]
    /\ UNCHANGED <<revs, rows, shown, objects, audit, feed, sent, work, fails>>

\* dsr.rs deletes the D1 row of a machine; its side effect follows.
Erase(t) ==
    /\ t \in Purgeable \cap rows
    /\ rows' = rows \ {t}
    /\ UNCHANGED <<revs, count, shown, objects, audit, feed, sent, work, fails>>

\* The LicenseDO deletes an activation: a released one after its retention, of
\* which D1 is not told, and any one that is erased.
Purge(t) ==
    /\ t \in Purgeable \cap known
    /\ t \notin revoked \/ t \notin rows
    /\ known' = known \ {t}
    /\ revoked' = revoked \ {t}
    /\ UNCHANGED <<table, epoch, audit, feed, sent, work, fails>>

\* A device validates: the router passes current_revocation_epoch to LicenseDO.
Validate(l) ==
    /\ epoch[l] < Authoritative
    /\ epoch' = [epoch EXCEPT ![l] = Authoritative]
    /\ UNCHANGED <<table, known, revoked, audit, feed, sent, work, fails>>

\* Another operation appends to the chain, and mirrors its event.
ForeignAppend ==
    /\ ~HeadIsStale
    /\ foreign.chain < MaxForeign
    /\ foreign' = [foreign EXCEPT !.chain = @ + 1]
    /\ UNCHANGED <<table, objects, event, mirror, feed, sent, work, fails>>

ForeignMirror ==
    /\ foreign.d1 < foreign.chain
    /\ foreign' = [foreign EXCEPT !.d1 = @ + 1]
    /\ UNCHANGED <<table, objects, event, mirror, feed, sent, work, fails>>

Step(p) ==
    \/ Look(p) \/ Insert(p) \/ EpochBatch(p)
    \/ LoadAudit(p) \/ AppendAudit(p) \/ MirrorAudit(p)
    \/ Apply(p) \/ MarkApplied(p)
    \/ PutBatch(p) \/ ReadEpoch(p) \/ AdvanceEpoch(p)
    \/ SendAudit(p) \/ Finish(p)

Resume(c) == CronPending(c) \/ \E r \in Request : EpochResume(c, r)

Ask(p) == \E r \in Request : Load(p, r) \/ EpochHead(p, r) \/ EpochResume(p, r)

Around ==
    \/ \E t \in Target : Project(t) \/ Drift(t) \/ Erase(t) \/ Purge(t)
    \/ \E l \in License : Validate(l)
    \/ ForeignAppend \/ ForeignMirror

Next ==
    \/ \E p \in Worker : Step(p) \/ Fail(p)
    \/ \E p \in Client : Ask(p)
    \/ \E c \in Cron : Resume(c)
    \/ Around

Spec == Init /\ [][Next]_vars

(***************************************************************************)
(* Properties                                                              *)
(***************************************************************************)

Row == [r : Request, applied : BOOLEAN, published : BOOLEAN]
Snap == {NoSnap, 0, 1, RevokedSnap}
Job == [pc : {"idle", "look", "insert", "batch", "audit", "append", "mirror", "apply",
              "mark", "put", "read", "advance", "send", "finish"},
        r : Request \cup {NoReq}, seq : Nat, applied : BOOLEAN, snap : Snap, cur : Nat]

\* A worker past the reservation has the seq of its own row.
OwnsRow(p) ==
    work[p].pc \notin {"idle", "look", "insert", "batch"} =>
       work[p].seq \in DOMAIN revs /\ revs[work[p].seq].r = work[p].r

\* The tables, objects, KV keys and worker states keep their types, and each
\* worker refers to the row of its request.
TypeOK ==
    /\ revs \in Seq(Row)
    /\ rows \subseteq Target /\ shown \subseteq Target
    /\ count \in [Target -> {0, 1}]
    /\ known \subseteq Target /\ revoked \subseteq known
    /\ epoch \in [License -> Nat]
    /\ event \in [Request -> Snap] /\ mirror \in [Request -> Snap]
    /\ foreign \in [chain : 0 .. MaxForeign, d1 : 0 .. MaxForeign]
    /\ DOMAIN batch \subseteq DOMAIN revs
    /\ kvEpoch \in Nat
    /\ sent \subseteq Request
    /\ work \in [Worker -> Job]
    /\ \A p \in Worker : OwnsRow(p)
    /\ fails \in 0 .. MaxFail

\* A later revocation cannot pass a pending one: only the last row of the table
\* may be unpublished, whichever of the two paths inserted it.  The epoch path
\* looks for a pending row one await before it inserts.
StrictSequence == \A i \in 1 .. (Len(revs) - 1) : revs[i].published

\* Whatever epoch a client reads, the batches up to it are all in KV, each of
\* them for the row that has that number, so that no client meets a gap.
FeedIsComplete ==
    \A i \in 1 .. kvEpoch : i \in DOMAIN batch /\ i \in DOMAIN revs /\ batch[i] = revs[i].r

\* The audit event is in the D1 mirror before the LicenseDO changes.
AuditPrecedesEffect ==
    \A t \in revoked : \E r \in Request : TargetOf[r] = t /\ mirror[r] # NoSnap

\* What a worker relies on at its next step: the request it is about; the number
\* an epoch confirmation read is free only while nothing is pending; the audit
\* event is stored before its mirror and that before /revoke; the batch is in KV
\* before rev:epoch is read, and all earlier ones before it is written.
Holds(p) ==
    /\ work[p].pc # "idle" => work[p].r \in Request
    /\ OwnsRow(p)
    /\ work[p].pc = "batch" =>
          /\ work[p].seq \in 1 .. (Len(revs) + 1)
          /\ work[p].seq = Len(revs) + 1 => ~AnyPending
    /\ work[p].snap # NoSnap
    /\ work[p].pc = "mirror" => event[work[p].r] # NoSnap
    /\ work[p].pc = "apply" => mirror[work[p].r] # NoSnap
    /\ work[p].pc \in {"read", "advance"} => work[p].seq \in DOMAIN batch
    /\ work[p].pc = "advance" => 1 .. work[p].seq \subseteq DOMAIN batch

\* The inductive invariant behind StrictSequence, FeedIsComplete
\* and AuditPrecedesEffect.
FeedInv ==
    /\ StrictSequence
    /\ AuditPrecedesEffect
    /\ \A i \in DOMAIN batch : i \in DOMAIN revs /\ batch[i] = revs[i].r
    /\ 1 .. kvEpoch \subseteq DOMAIN batch
    /\ \A p \in Worker : Holds(p)

\* A row has applied_at before it gets published_at.
AppliedFirst == \A i \in DOMAIN revs : revs[i].published => revs[i].applied

\* A row that is checkpointed as published was applied in its LicenseDO, has its
\* batch in KV and its audit event in the queue.
PublishedIsDone ==
    \A i \in DOMAIN revs :
       LET t == TargetOf[revs[i].r]
       IN  revs[i].published =>
             /\ revs[i].applied /\ i \in DOMAIN batch
             /\ t \notin Epoch =>
                   /\ t \in revoked \/ t \notin known
                   /\ i <= epoch[LicenseOf[t]]
                   /\ revs[i].r \in sent

\* A row that is not applied yet still can be, as long as its LicenseDO has the
\* target: neither another revocation of the license nor a device that passed on
\* the global epoch has moved the epoch of its LicenseDO to where plan_for_state
\* would call the row stale.
PendingCanApply ==
    \A i \in DOMAIN revs :
       LET t == TargetOf[revs[i].r]
       IN  ~revs[i].applied /\ t \in known \ Epoch =>
             epoch[LicenseOf[t]] < i \/ (t \in revoked /\ epoch[LicenseOf[t]] = i)

\* rev:epoch in KV never goes back.
FeedNeverRegresses == [][kvEpoch' >= kvEpoch]_vars

\* A reserved revocation is published at last.
RevocationsFinish == \A r \in Request : Reserved(r) ~> (Reserved(r) /\ ~Pending(SeqOf(r)))

\* The minute cron runs again and again, its calls return, and so do those of
\* the other operations on the audit chain.
CronSpec ==
    /\ Spec
    /\ \A c \in Cron : WF_vars(Step(c)) /\ WF_vars(Resume(c))
    /\ WF_vars(ForeignMirror)

\* Recovery is sound at every step: a row checkpointed as published was applied,
\* fed and audited, and a row that is not applied yet still can be, whatever
\* other revocations and devices did to its license meanwhile (apply_and_publish,
\* reconcile_pending).
RecoverySound == PublishedIsDone /\ PendingCanApply

\* The LicenseDO has what row i, of request r, is about.
Effected(i, r) ==
    LET t == TargetOf[r]
    IN  t \notin Epoch => (t \in revoked \/ t \notin known) /\ i <= epoch[LicenseOf[t]]

\* What a worker may rely on for the checkpoints it sets: the path it is on, the
\* effect before applied_at, and applied_at, the batch and the audit message
\* before published_at.
Carries(p) ==
    LET w == work[p]
    IN  /\ w.pc \in {"look", "insert", "audit", "append", "mirror", "apply", "send"} =>
              TargetOf[w.r] \notin Epoch
        /\ w.pc = "batch" => TargetOf[w.r] \in Epoch
        /\ w.pc \in {"look", "insert"} => ~w.applied
        /\ w.pc \in {"audit", "append", "mirror"} /\ w.applied => revs[w.seq].applied
        /\ w.pc = "mark" => Effected(w.seq, w.r)
        /\ w.pc \in {"put", "read", "advance", "send", "finish"} => revs[w.seq].applied
        /\ w.pc \in {"send", "finish"} => w.seq \in DOMAIN batch
        /\ w.pc = "finish" /\ TargetOf[w.r] \notin Epoch => w.r \in sent

\* The inductive invariant behind RecoverySound, beside FeedInv.
RecoveryInv ==
    /\ \A l \in License : epoch[l] <= Len(revs)
    /\ \A i \in DOMAIN revs : revs[i].applied => Effected(i, revs[i].r)
    /\ \A i \in DOMAIN revs : revs[i].published =>
          /\ revs[i].applied /\ i \in DOMAIN batch
          /\ TargetOf[revs[i].r] \notin Epoch => revs[i].r \in sent
    /\ PendingCanApply
    /\ \A p \in Worker : Carries(p)
=============================================================================
