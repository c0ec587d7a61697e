------------------------ MODULE RevocationLogProofs -------------------------
(***************************************************************************)
(* The revocation sequence is strict and its feed complete for any         *)
(* requests, targets, handlers, cron runs and failures.  The argument: a   *)
(* row is inserted only when nothing is pending, by the condition of the   *)
(* INSERT or because the number an epoch confirmation read is still free;  *)
(* rows, batches and audit events are never removed, so what a worker saw  *)
(* before an await still holds after it.                                   *)
(***************************************************************************)
EXTENDS RevocationLog, TLAPS

Inv == TypeOK /\ FeedInv

\* What no step takes back.
Grows ==
    /\ revs' \in Seq(Row)
    /\ Len(revs) <= Len(revs')
    /\ \A i \in DOMAIN revs : revs'[i].r = revs[i].r
    /\ Len(revs') = Len(revs) => (AnyPending' => AnyPending)
    /\ DOMAIN batch \subseteq DOMAIN batch'
    /\ \A r \in Request : (event[r] # NoSnap => event'[r] # NoSnap)
                       /\ (mirror[r] # NoSnap => mirror'[r] # NoSnap)

LEMMA Prefixes == \A n \in Nat : 1 .. (n - 1) \subseteq 1 .. n /\ 1 .. n \subseteq 1 .. (n + 1)
OBVIOUS

LEMMA AppendRow ==
    ASSUME NEW s \in Seq(Row), NEW e \in Row
    PROVE  /\ Append(s, e) \in Seq(Row) /\ Len(Append(s, e)) = Len(s) + 1
           /\ \A i \in 1 .. Len(s) : Append(s, e)[i] = s[i]
           /\ Append(s, e)[Len(s) + 1] = e
OBVIOUS

LEMMA ExceptRow ==
    ASSUME NEW s \in Seq(Row), NEW n \in 1 .. Len(s), NEW e \in Row
    PROVE  /\ [s EXCEPT ![n] = e] \in Seq(Row) /\ Len([s EXCEPT ![n] = e]) = Len(s)
           /\ \A i \in 1 .. Len(s) : [s EXCEPT ![n] = e][i] = IF i = n THEN e ELSE s[i]
OBVIOUS

LEMMA SameRowsGrow ==
    ASSUME TypeOK, revs' = revs, DOMAIN batch \subseteq DOMAIN batch',
           \A r \in Request : (event[r] # NoSnap => event'[r] # NoSnap)
                            /\ (mirror[r] # NoSnap => mirror'[r] # NoSnap)
    PROVE  Grows
<1>1. revs \in Seq(Row) /\ Len(revs) \in Nat
  BY DEF TypeOK
<1>2. AnyPending' => AnyPending
  BY DEF AnyPending, Pending
<1>3. Len(revs) <= Len(revs')
  BY <1>1
<1> QED BY <1>1, <1>2, <1>3 DEF Grows

\* What a worker relies on survives the steps of the others.
LEMMA HoldsKept ==
    ASSUME TypeOK, Grows, NEW q \in Worker, Holds(q), work'[q] = work[q]
    PROVE  Holds(q)'
<1>a. Len(revs) \in Nat /\ DOMAIN revs = 1 .. Len(revs)
  BY DEF TypeOK
<1>b. Len(revs') \in Nat /\ DOMAIN revs' = 1 .. Len(revs')
  BY DEF Grows
<1>c. Len(revs) <= Len(revs') /\ \A i \in DOMAIN revs : revs'[i].r = revs[i].r
  BY DEF Grows
<1>g. \A i \in DOMAIN revs : i \in DOMAIN revs' /\ revs'[i].r = revs[i].r
  BY <1>a, <1>b, <1>c
<1>1. OwnsRow(q)'
  BY <1>g DEF Holds, OwnsRow
<1>2. ASSUME work[q].pc = "batch"
      PROVE  /\ work[q].seq \in 1 .. (Len(revs') + 1)
             /\ work[q].seq = Len(revs') + 1 => ~AnyPending'
  <2>1. work[q].seq \in 1 .. (Len(revs) + 1) /\ (work[q].seq = Len(revs) + 1 => ~AnyPending)
    BY <1>2 DEF Holds
  <2>2. work[q].seq \in 1 .. (Len(revs') + 1)
    BY <2>1, <1>a, <1>b, <1>c
  <2>3. ASSUME work[q].seq = Len(revs') + 1 PROVE ~AnyPending'
    <3>0. work[q].seq \in 1 .. (Len(revs) + 1) /\ Len(revs) <= Len(revs')
      BY <2>1, <1>c
    <3>1. Len(revs') = Len(revs) /\ work[q].seq = Len(revs) + 1
      <4>1. Len(revs) \in Nat /\ Len(revs') \in Nat
        BY <1>a, <1>b
      <4> QED BY <4>1, <3>0, <2>3
    <3> QED BY <3>1, <2>1 DEF Grows
  <2> QED BY <2>2, <2>3
<1>3. /\ work[q].pc \in {"read", "advance"} => work[q].seq \in DOMAIN batch'
      /\ work[q].pc = "advance" => 1 .. work[q].seq \subseteq DOMAIN batch'
  BY DEF Holds, Grows
<1>4. /\ work[q].pc # "idle" => work[q].r \in Request
      /\ work[q].snap # NoSnap
      /\ work[q].pc = "mirror" => event'[work[q].r] # NoSnap
      /\ work[q].pc = "apply" => mirror'[work[q].r] # NoSnap
  BY DEF Holds, Grows
<1> QED BY <1>1, <1>2, <1>3, <1>4 DEF Holds

LEMMA IdleType == Idle \in Job /\ Idle.pc = "idle" /\ Idle.snap # NoSnap
BY DEF Idle, Job, Snap, NoSnap

\* A worker that has stopped relies on nothing.
LEMMA StopHolds ==
    ASSUME TypeOK, NEW p \in Worker, Stop(p)
    PROVE  /\ work' \in [Worker -> Job] /\ Holds(p)'
           /\ \A q \in Worker : q # p => work'[q] = work[q]
<1>1. work' \in [Worker -> Job] /\ work'[p] = Idle
  BY IdleType DEF TypeOK, Stop
<1>2. \A q \in Worker : q # p => work'[q] = work[q]
  BY DEF TypeOK, Stop
<1> QED BY <1>1, <1>2, IdleType DEF Holds, OwnsRow

\* A step that changes no table but the workers' own states.
Quiet ==
    /\ UNCHANGED <<table, objects, audit, feed, sent>>
    /\ fails' \in 0 .. MaxFail

LEMMA QuietGrows == TypeOK /\ Quiet => Grows
BY DEF TypeOK, Quiet, table, audit, feed, Grows, AnyPending, Pending

\* Such a step keeps the invariant if the worker that takes it can go on.
LEMMA QuietKeeps ==
    ASSUME Inv, Quiet, NEW p \in Worker, work' \in [Worker -> Job], Holds(p)',
           \A q \in Worker : q # p => work'[q] = work[q]
    PROVE  Inv'
<1>1. TypeOK /\ \A q \in Worker : Holds(q)
  BY DEF Inv, FeedInv
<1>2. \A q \in Worker : Holds(q)'
  BY <1>1, QuietGrows, HoldsKept
<1>3. TypeOK'
  BY <1>1, <1>2 DEF TypeOK, Quiet, table, objects, audit, feed, Holds
<1>4. StrictSequence' /\ AuditPrecedesEffect'
  BY DEF Inv, FeedInv, Quiet, table, objects, audit, StrictSequence, AuditPrecedesEffect
<1>5. /\ (\A i \in DOMAIN batch : i \in DOMAIN revs /\ batch[i] = revs[i].r)'
      /\ (1 .. kvEpoch \subseteq DOMAIN batch)'
  BY DEF Inv, FeedInv, Quiet, table, feed
<1> QED BY <1>2, <1>3, <1>4, <1>5 DEF Inv, FeedInv

PC == {"idle", "look", "insert", "batch", "audit", "append", "mirror", "apply",
       "mark", "put", "read", "advance", "send", "finish"}

LEMMA GotoType ==
    ASSUME TypeOK, NEW p \in Worker, NEW c \in PC, Goto(p, c)
    PROVE  /\ work' \in [Worker -> Job]
           /\ work'[p].pc = c /\ work'[p].r = work[p].r /\ work'[p].seq = work[p].seq
           /\ work'[p].snap = work[p].snap /\ work'[p].cur = work[p].cur
           /\ \A q \in Worker : q # p => work'[q] = work[q]
<1> DEFINE w == [work[p] EXCEPT !.pc = c]
<1>1. work \in [Worker -> Job] /\ work[p] \in Job
  BY DEF TypeOK
<1>2. w \in Job
  BY <1>1 DEF Job, PC
<1>3. /\ w.pc = c /\ w.r = work[p].r /\ w.seq = work[p].seq
      /\ w.snap = work[p].snap /\ w.cur = work[p].cur
  BY <1>1 DEF Job
<1>4. work' = [work EXCEPT ![p] = w]
  BY DEF Goto
<1> HIDE DEF w
<1> QED BY <1>1, <1>2, <1>3, <1>4

\* A worker that gets a new state.
LEMMA SetType ==
    ASSUME TypeOK, NEW p \in Worker, NEW w \in Job, work' = [work EXCEPT ![p] = w]
    PROVE  /\ work' \in [Worker -> Job] /\ work'[p] = w
           /\ \A q \in Worker : q # p => work'[q] = work[q]
BY DEF TypeOK

LEMMA SeqOfIs ==
    ASSUME NEW r \in Request, Reserved(r)
    PROVE  SeqOf(r) \in DOMAIN revs /\ revs[SeqOf(r)].r = r
BY DEF Reserved, SeqOf

LEMMA RowType ==
    ASSUME TypeOK, NEW i \in DOMAIN revs
    PROVE  /\ i \in Nat /\ i \in 1 .. Len(revs) /\ revs[i] \in Row
           /\ revs[i].r \in Request /\ revs[i].applied \in BOOLEAN
<1>1. revs \in Seq(Row)
  BY DEF TypeOK
<1>2. i \in 1 .. Len(revs) /\ Len(revs) \in Nat
  BY <1>1
<1>3. revs[i] \in Row
  BY <1>1, <1>2
<1> QED BY <1>2, <1>3 DEF Row

LEMMA SnapshotType ==
    ASSUME TypeOK, NEW t \in Target
    PROVE  Snapshot(t) \in Snap /\ Snapshot(t) # NoSnap
BY DEF TypeOK, Snapshot, Snap, NoSnap, RevokedSnap

\* apply_and_publish begins with a row that is the request's own.
LEMMA ReadyHolds ==
    ASSUME Inv, NEW p \in Worker, NEW r \in Request, work[p].r = r, Reserved(r), Ready(p, r),
           UNCHANGED <<table, objects, audit, feed, sent, fails>>
    PROVE  Inv'
<1>1. Quiet /\ TypeOK /\ Holds(p) /\ work \in [Worker -> Job]
  BY DEF Inv, FeedInv, TypeOK, Quiet
<1>2. CASE Stop(p)
  BY <1>1, <1>2, StopHolds, QuietKeeps
<1>3. CASE work' = [work EXCEPT ![p] = [work[p] EXCEPT !.pc = "audit", !.seq = SeqOf(r),
                                          !.applied = revs[SeqOf(r)].applied]]
  <2>1. SeqOf(r) \in DOMAIN revs /\ revs[SeqOf(r)].r = r
    BY SeqOfIs
  <2>2. SeqOf(r) \in Nat /\ revs[SeqOf(r)].applied \in BOOLEAN
    BY <1>1, <2>1, RowType
  <2> DEFINE w == [work[p] EXCEPT !.pc = "audit", !.seq = SeqOf(r),
                                  !.applied = revs[SeqOf(r)].applied]
  <2>w. work[p] \in Job
    BY <1>1
  <2>j. w \in Job /\ w.pc = "audit" /\ w.r = r /\ w.seq = SeqOf(r) /\ w.snap = work[p].snap
    BY <2>w, <2>2, Zenon DEF Job
  <2>3. work' \in [Worker -> Job] /\ work'[p] = w /\ \A q \in Worker : q # p => work'[q] = work[q]
    BY <1>1, <1>3, <2>j, SetType
  <2>4. revs' = revs
    BY DEF table
  <2>5. Holds(p)'
    BY <1>1, <2>1, <2>j, <2>3, <2>4 DEF Holds, OwnsRow
  <2> QED BY <1>1, <2>3, <2>5, QuietKeeps
<1> QED BY <1>2, <1>3 DEF Ready

\* load_target, revocation_head, the journal's repetition and the cron's search.
LEMMA TakeSteps ==
    ASSUME Inv, NEW p \in Worker,
           \/ \E r \in Request : Load(p, r) \/ EpochHead(p, r) \/ EpochResume(p, r)
           \/ CronPending(p)
    PROVE  Inv'
<1>1. TypeOK /\ MaxFail \in Nat /\ TargetOf \in [Request -> Target]
  BY RevocationAssumption DEF Inv
<1>2. ASSUME NEW r \in Request, Load(p, r) PROVE Inv'
  <2> DEFINE w == [Idle EXCEPT !.pc = "look", !.r = r, !.snap = Snapshot(TargetOf[r])]
  <2>1. w \in Job /\ w.pc = "look" /\ w.r = r /\ w.snap # NoSnap
    BY <1>1, SnapshotType, Zenon DEF Idle, Job
  <2>2. Quiet /\ work' = [work EXCEPT ![p] = w]
    BY <1>1, <1>2, Zenon DEF Load, Quiet, TypeOK
  <2>3. work' \in [Worker -> Job] /\ work'[p] = w /\ \A q \in Worker : q # p => work'[q] = work[q]
    BY <1>1, <2>1, <2>2, SetType, Zenon
  <2>4. Holds(p)'
    BY <2>1, <2>3 DEF Holds, OwnsRow
  <2> QED BY <2>2, <2>3, <2>4, QuietKeeps
<1>3. ASSUME NEW r \in Request, EpochHead(p, r) PROVE Inv'
  <2> DEFINE w == [Idle EXCEPT !.pc = "batch", !.r = r, !.seq = Len(revs) + 1]
  <2>1. Len(revs) \in Nat /\ Len(revs) + 1 \in Nat
    BY <1>1 DEF TypeOK
  <2>2. w \in Job /\ w.pc = "batch" /\ w.r = r /\ w.seq = Len(revs) + 1 /\ w.snap # NoSnap
    BY <2>1, IdleType, Zenon DEF Job
  <2>3. Quiet /\ work' = [work EXCEPT ![p] = w] /\ ~AnyPending
    BY <1>1, <1>3, Zenon DEF EpochHead, Quiet, TypeOK
  <2>4. work' \in [Worker -> Job] /\ work'[p] = w /\ \A q \in Worker : q # p => work'[q] = work[q]
    BY <1>1, <2>2, <2>3, SetType, Zenon
  <2>5. ~AnyPending' /\ revs' = revs
    BY <2>3 DEF Quiet, table, AnyPending, Pending
  <2>6. Holds(p)'
    BY <2>1, <2>2, <2>4, <2>5 DEF Holds, OwnsRow
  <2> QED BY <2>3, <2>4, <2>6, QuietKeeps
<1>4. ASSUME NEW r \in Request, EpochResume(p, r) PROVE Inv'
  <2> DEFINE c == IF revs[SeqOf(r)].applied THEN "put" ELSE "mark"
             w == [Idle EXCEPT !.pc = c, !.r = r, !.seq = SeqOf(r)]
  <2>1. SeqOf(r) \in DOMAIN revs /\ revs[SeqOf(r)].r = r
    BY <1>4, SeqOfIs, Zenon DEF EpochResume
  <2>2. SeqOf(r) \in Nat /\ c \in {"put", "mark"}
    BY <1>1, <2>1 DEF TypeOK
  <2>3. w \in Job /\ w.pc \in {"put", "mark"} /\ w.r = r /\ w.seq = SeqOf(r) /\ w.snap # NoSnap
    BY <2>2, IdleType, Zenon DEF Job
  <2>4. Quiet /\ work' = [work EXCEPT ![p] = w]
    BY <1>1, <1>4, Zenon DEF EpochResume, Quiet, TypeOK
  <2>5. work' \in [Worker -> Job] /\ work'[p] = w /\ \A q \in Worker : q # p => work'[q] = work[q]
    BY <1>1, <2>3, <2>4, SetType, Zenon
  <2>6. revs' = revs
    BY <2>4 DEF Quiet, table
  <2>7. Holds(p)'
    BY <2>1, <2>3, <2>5, <2>6 DEF Holds, OwnsRow
  <2> QED BY <2>4, <2>5, <2>7, QuietKeeps
<1>5. CASE CronPending(p)
  <2>1. PICK i \in DOMAIN revs :
          work' = [work EXCEPT ![p] =
                    [Idle EXCEPT !.pc = "audit", !.r = revs[i].r, !.seq = i,
                                 !.applied = revs[i].applied, !.snap = Snapshot(TargetOf[revs[i].r])]]
    BY <1>5, Zenon DEF CronPending
  <2> DEFINE w == [Idle EXCEPT !.pc = "audit", !.r = revs[i].r, !.seq = i,
                     !.applied = revs[i].applied, !.snap = Snapshot(TargetOf[revs[i].r])]
  <2>2. i \in Nat /\ revs[i].r \in Request /\ revs[i].applied \in BOOLEAN
    BY <1>1, RowType
  <2>3. Snapshot(TargetOf[revs[i].r]) \in Snap /\ Snapshot(TargetOf[revs[i].r]) # NoSnap
    BY <1>1, <2>2, SnapshotType
  <2>4. w \in Job /\ w.pc = "audit" /\ w.r = revs[i].r /\ w.seq = i /\ w.snap # NoSnap
    BY <2>2, <2>3, Zenon DEF Idle, Job
  <2>5. Quiet
    BY <1>1, <1>5, Zenon DEF CronPending, Quiet, TypeOK
  <2>6. work' \in [Worker -> Job] /\ work'[p] = w /\ \A q \in Worker : q # p => work'[q] = work[q]
    BY <1>1, <2>1, <2>4, SetType, Zenon
  <2>7. revs' = revs
    BY <2>5 DEF Quiet, table
  <2>8. Holds(p)'
    BY <2>2, <2>4, <2>6, <2>7 DEF Holds, OwnsRow
  <2> QED BY <2>5, <2>6, <2>8, QuietKeeps
<1> QED BY <1>2, <1>3, <1>4, <1>5

\* The searches that fail or succeed without a write, and the death of a worker.
LEMMA QuietSteps ==
    ASSUME Inv, NEW p \in Worker, Look(p) \/ LoadAudit(p) \/ ReadEpoch(p) \/ Fail(p)
    PROVE  Inv'
<1>1. /\ TypeOK /\ Holds(p) /\ work \in [Worker -> Job] /\ fails \in 0 .. MaxFail
      /\ MaxFail \in Nat /\ kvEpoch \in Nat
  BY RevocationAssumption DEF Inv, FeedInv, TypeOK
<1>2. CASE Stop(p) /\ Quiet
  BY <1>1, <1>2, StopHolds, QuietKeeps
<1>3. CASE Look(p)
  <2>1. work[p].pc = "look" /\ work[p].r \in Request
    BY ONLY <1>1, <1>3 DEF Look, At, Holds
  <2>2. UNCHANGED <<table, objects, audit, feed, sent, fails>>
    BY <1>3 DEF Look
  <2>3. Quiet
    BY <1>1, <2>2 DEF Quiet
  <2>4. CASE Reserved(work[p].r) /\ Ready(p, work[p].r)
    BY <2>1, <2>2, <2>4, ReadyHolds
  <2>5. CASE Goto(p, "insert")
    <3>1. /\ work' \in [Worker -> Job] /\ work'[p].pc = "insert" /\ work'[p].r = work[p].r
          /\ work'[p].snap = work[p].snap /\ \A q \in Worker : q # p => work'[q] = work[q]
      BY <1>1, <2>5, GotoType DEF PC
    <3>2. Holds(p)'
      BY ONLY <1>1, <2>1, <3>1 DEF Holds, OwnsRow
    <3> QED BY <2>3, <3>1, <3>2, QuietKeeps, Zenon
  <2> QED BY ONLY <1>2, <1>3, <2>3, <2>4, <2>5 DEF Look
<1>4. CASE LoadAudit(p)
  <2>1. work[p].pc = "audit" /\ Quiet
    BY <1>1, <1>4 DEF LoadAudit, At, Quiet
  <2>2. PICK c \in {"put", "apply", "append"} :
           Goto(p, c) /\ (c = "apply" => mirror[work[p].r] # NoSnap)
    BY ONLY <1>4 DEF LoadAudit
  <2>3. /\ work' \in [Worker -> Job] /\ work'[p].pc = c /\ work'[p].r = work[p].r
        /\ work'[p].seq = work[p].seq
        /\ work'[p].snap = work[p].snap /\ \A q \in Worker : q # p => work'[q] = work[q]
    BY <1>1, <2>2, GotoType DEF PC
  <2>4. revs' = revs /\ mirror' = mirror
    BY <2>1 DEF Quiet, table, audit
  <2>5. Holds(p)'
    BY ONLY <1>1, <2>1, <2>2, <2>3, <2>4 DEF Holds, OwnsRow
  <2> QED BY <2>1, <2>3, <2>5, QuietKeeps, Zenon
<1>5. CASE ReadEpoch(p)
  <2>1. work[p].pc = "read" /\ Quiet
    BY <1>1, <1>5 DEF ReadEpoch, At, Quiet
  <2>2. CASE ~Stop(p)
    <3> DEFINE w == [work[p] EXCEPT !.pc = "advance", !.cur = kvEpoch]
    <3>1. work' = [work EXCEPT ![p] = w] /\ kvEpoch \in {work[p].seq - 1, work[p].seq}
      BY <1>5, <2>2 DEF ReadEpoch
    <3>2. work[p] \in Job /\ work[p].seq \in Nat
      BY <1>1 DEF Job
    <3>3. /\ w \in Job /\ w.pc = "advance" /\ w.r = work[p].r /\ w.seq = work[p].seq
          /\ w.snap = work[p].snap
      BY <1>1, <3>2, Zenon DEF Job
    <3>4. work' \in [Worker -> Job] /\ work'[p] = w /\ \A q \in Worker : q # p => work'[q] = work[q]
      BY <1>1, <3>1, <3>3, SetType
    <3>5. revs' = revs /\ batch' = batch
      BY <2>1 DEF Quiet, table, feed
    <3>6. 1 .. kvEpoch \subseteq DOMAIN batch /\ work[p].seq \in DOMAIN batch
      BY <1>1, <2>1, Zenon DEF Inv, FeedInv, Holds
    <3>7. 1 .. work[p].seq \subseteq DOMAIN batch
      BY <1>1, <3>1, <3>2, <3>6
    <3>8. Holds(p)'
      BY <1>1, <2>1, <3>3, <3>4, <3>5, <3>6, <3>7 DEF Holds, OwnsRow
    <3> QED BY <2>1, <3>4, <3>8, QuietKeeps
  <2> QED BY <1>2, <2>1, <2>2
<1>6. CASE Fail(p)
  <2>1. Stop(p) /\ Quiet
    BY <1>1, <1>6 DEF Fail, Quiet
  <2> QED BY <1>2, <2>1
<1> QED BY <1>3, <1>4, <1>5, <1>6

(***************************************************************************)
(* Steps that write                                                        *)
(***************************************************************************)

\* What TypeOK says of the tables other than revs and the workers' states.
Tables ==
    /\ rows \subseteq Target /\ shown \subseteq Target /\ count \in [Target -> {0, 1}]
    /\ known \subseteq Target /\ revoked \subseteq known /\ epoch \in [License -> Nat]
    /\ event \in [Request -> Snap] /\ mirror \in [Request -> Snap]
    /\ foreign \in [chain : 0 .. MaxForeign, d1 : 0 .. MaxForeign]
    /\ kvEpoch \in Nat /\ sent \subseteq Request /\ fails \in 0 .. MaxFail

Feed ==
    /\ \A i \in DOMAIN batch : i \in DOMAIN revs /\ batch[i] = revs[i].r
    /\ 1 .. kvEpoch \subseteq DOMAIN batch

LEMMA StepKeeps ==
    ASSUME Inv, Grows, NEW p \in Worker, work' \in [Worker -> Job], Holds(p)',
           \A q \in Worker : q # p => work'[q] = work[q],
           Tables', StrictSequence', AuditPrecedesEffect', Feed'
    PROVE  Inv'
<1>1. TypeOK /\ \A q \in Worker : Holds(q)
  BY Zenon DEF Inv, FeedInv
<1>2. \A q \in Worker : Holds(q)'
  BY <1>1, HoldsKept
<1>3. TypeOK'
  BY <1>2, Zenon DEF TypeOK, Tables, Feed, Grows, Holds
<1> QED BY <1>2, <1>3, Zenon DEF Inv, FeedInv, Feed

LEMMA NewRowIs ==
    ASSUME TypeOK, NEW r \in Request, revs' = NewRow(r)
    PROVE  /\ revs' \in Seq(Row) /\ Len(revs') = Len(revs) + 1
           /\ DOMAIN revs = 1 .. Len(revs) /\ DOMAIN revs' = 1 .. (Len(revs) + 1)
           /\ Len(revs) \in Nat
           /\ \A i \in 1 .. Len(revs) : revs'[i] = revs[i]
           /\ revs'[Len(revs) + 1].r = r
<1> DEFINE e == [r |-> r, applied |-> FALSE, published |-> FALSE]
<1>1. revs \in Seq(Row) /\ e \in Row /\ e.r = r /\ revs' = Append(revs, e)
  BY Zenon DEF TypeOK, Row, NewRow
<1> HIDE DEF e
<1>2. /\ revs' \in Seq(Row) /\ Len(revs') = Len(revs) + 1
      /\ \A i \in 1 .. Len(revs) : revs'[i] = revs[i]
      /\ revs'[Len(revs) + 1] = e
  BY <1>1, AppendRow
<1>3. Len(revs) \in Nat /\ DOMAIN revs = 1 .. Len(revs) /\ DOMAIN revs' = 1 .. Len(revs')
  BY <1>1, <1>2
<1> QED BY <1>1, <1>2, <1>3

\* A row inserted when nothing is pending.
LEMMA NewRowKeeps ==
    ASSUME Inv, NEW p \in Worker, NEW r \in Request, revs' = NewRow(r), ~AnyPending,
           work' \in [Worker -> Job], \A q \in Worker : q # p => work'[q] = work[q],
           work'[p].pc \in {"audit", "mark"}, work'[p].r = r, work'[p].seq = Len(revs) + 1,
           work'[p].snap # NoSnap,
           UNCHANGED <<rows, count, shown, objects, audit, feed, sent, fails>>
    PROVE  Inv'
<1>1. TypeOK /\ FeedInv
  BY DEF Inv
<1>2. /\ revs' \in Seq(Row) /\ Len(revs') = Len(revs) + 1
      /\ DOMAIN revs = 1 .. Len(revs) /\ DOMAIN revs' = 1 .. (Len(revs) + 1)
      /\ Len(revs) \in Nat
      /\ \A i \in 1 .. Len(revs) : revs'[i] = revs[i]
      /\ revs'[Len(revs) + 1].r = r
  BY <1>1, NewRowIs, Zenon
<1>3. /\ batch' = batch /\ kvEpoch' = kvEpoch /\ event' = event /\ mirror' = mirror
      /\ revoked' = revoked
  BY DEF feed, audit, objects
<1>4. Grows
  <2>0. Len(revs') = Len(revs) + 1 /\ Len(revs) \in Nat
    BY <1>2
  <2>1. Len(revs') # Len(revs) /\ Len(revs) <= Len(revs')
    BY <2>0
  <2>2. \A i \in DOMAIN revs : revs'[i].r = revs[i].r
    BY <1>2
  <2> QED BY <1>2, <1>3, <2>1, <2>2, Zenon DEF Grows
<1>5. Holds(p)'
  <2>1. /\ work'[p].pc \in {"audit", "mark"} /\ work'[p].r = r /\ r \in Request
        /\ work'[p].seq = Len(revs) + 1 /\ work'[p].snap # NoSnap
    BY Zenon
  <2>2. Len(revs) + 1 \in DOMAIN revs' /\ revs'[Len(revs) + 1].r = r
    BY ONLY <1>2
  <2> QED BY ONLY <2>1, <2>2 DEF Holds, OwnsRow
<1>6. Tables'
  BY <1>1, Zenon DEF TypeOK, Tables, objects, audit, feed
<1>7. StrictSequence'
  <2>1. \A i \in 1 .. Len(revs) : revs[i].published
    BY <1>2 DEF AnyPending, Pending
  <2> QED BY <1>2, <2>1 DEF StrictSequence
<1>8. AuditPrecedesEffect'
  BY ONLY <1>1, <1>3 DEF FeedInv, AuditPrecedesEffect
<1>9. Feed'
  <2>1. \A i \in DOMAIN revs : i \in DOMAIN revs' /\ revs'[i] = revs[i]
    BY ONLY <1>2, Prefixes
  <2>2. /\ \A i \in DOMAIN batch : i \in DOMAIN revs /\ batch[i] = revs[i].r
        /\ 1 .. kvEpoch \subseteq DOMAIN batch
    BY <1>1 DEF FeedInv
  <2> QED BY <1>3, <2>1, <2>2, Zenon DEF Feed
<1> QED BY <1>4, <1>5, <1>6, <1>7, <1>8, <1>9, StepKeeps

LEMMA InsertStep ==
    ASSUME Inv, NEW p \in Worker, Insert(p)
    PROVE  Inv'
<1>1. /\ TypeOK /\ Holds(p) /\ work \in [Worker -> Job] /\ fails \in 0 .. MaxFail
      /\ Len(revs) + 1 \in Nat
  <2>1. TypeOK /\ FeedInv
    BY DEF Inv
  <2>2. revs \in Seq(Row) /\ work \in [Worker -> Job] /\ fails \in 0 .. MaxFail
    BY <2>1 DEF TypeOK
  <2>3. Len(revs) \in Nat
    BY <2>2
  <2>4. Holds(p)
    BY <2>1 DEF FeedInv
  <2> QED BY <2>1, <2>2, <2>3, <2>4
<1>2. work[p].pc = "insert" /\ work[p].r \in Request
  BY <1>1 DEF Insert, At, Holds
<1>3. UNCHANGED <<rows, count, shown, objects, audit, feed, sent, fails>>
  BY DEF Insert
<1>4. CASE UNCHANGED revs
  <2>1. UNCHANGED <<table, objects, audit, feed, sent, fails>>
    BY <1>3, <1>4 DEF table
  <2>2. Quiet
    BY <1>1, <2>1 DEF Quiet
  <2>3. CASE Stop(p)
    BY <1>1, <2>2, <2>3, StopHolds, QuietKeeps
  <2>4. CASE Reserved(work[p].r) /\ Ready(p, work[p].r)
    BY <1>2, <2>1, <2>4, ReadyHolds
  <2>5. CASE revs' = NewRow(work[p].r)
    <3>1. Len(revs') = Len(revs) + 1 /\ Len(revs) \in Nat
      BY <1>1, <1>2, <2>5, NewRowIs
    <3> QED BY <1>4, <3>1
  <2> QED BY <2>3, <2>4, <2>5 DEF Insert
<1>5. CASE ~UNCHANGED revs
  <2> DEFINE w == [work[p] EXCEPT !.pc = "audit", !.seq = Len(revs) + 1]
  <2>1. revs' = NewRow(work[p].r) /\ ~AnyPending /\ work' = [work EXCEPT ![p] = w]
    BY <1>5 DEF Insert
  <2>2. work[p] \in Job /\ work[p].snap # NoSnap
    BY ONLY <1>1 DEF Holds
  <2>3. /\ w \in Job /\ w.pc = "audit" /\ w.r = work[p].r /\ w.seq = Len(revs) + 1
        /\ w.snap = work[p].snap
    BY <1>1, <2>2, Zenon DEF Job
  <2>4. work' \in [Worker -> Job] /\ work'[p] = w /\ \A q \in Worker : q # p => work'[q] = work[q]
    BY <1>1, <2>1, <2>3, SetType
  <2> HIDE DEF w
  <2> QED BY <1>2, <1>3, <2>1, <2>2, <2>3, <2>4, NewRowKeeps
<1> QED BY <1>4, <1>5

LEMMA EpochBatchStep ==
    ASSUME Inv, NEW p \in Worker, EpochBatch(p)
    PROVE  Inv'
<1>1. TypeOK /\ Holds(p) /\ fails \in 0 .. MaxFail
  BY Zenon DEF Inv, FeedInv, TypeOK
<1>2. work[p].pc = "batch" /\ work[p].r \in Request /\ work[p].snap # NoSnap
  BY <1>1, Zenon DEF EpochBatch, At, Holds
<1>3. UNCHANGED <<rows, count, shown, objects, audit, feed, sent, fails>>
  BY Zenon DEF EpochBatch
<1>4. CASE Stop(p) /\ UNCHANGED revs
  <2>1. Quiet
    BY <1>1, <1>3, <1>4 DEF Quiet, table
  <2> QED BY <1>1, <1>4, <2>1, StopHolds, QuietKeeps
<1>5. CASE work[p].seq = Len(revs) + 1 /\ revs' = NewRow(work[p].r) /\ Goto(p, "mark")
  <2>1. ~AnyPending
    BY <1>1, <1>2, <1>5, Zenon DEF Holds
  <2>2. /\ work' \in [Worker -> Job] /\ work'[p].pc = "mark" /\ work'[p].r = work[p].r
        /\ work'[p].seq = work[p].seq /\ work'[p].snap = work[p].snap
        /\ \A q \in Worker : q # p => work'[q] = work[q]
    BY ONLY <1>1, <1>5, GotoType DEF PC
  <2> QED BY <1>2, <1>3, <1>5, <2>1, <2>2, NewRowKeeps, Zenon
<1> QED BY <1>4, <1>5, Zenon DEF EpochBatch

LEMMA AppendAuditStep ==
    ASSUME Inv, NEW p \in Worker, AppendAudit(p)
    PROVE  Inv'
<1>1. /\ TypeOK /\ FeedInv /\ Holds(p) /\ fails \in 0 .. MaxFail
      /\ work \in [Worker -> Job] /\ event \in [Request -> Snap]
  BY Zenon DEF Inv, FeedInv, TypeOK
<1>2. /\ work[p].pc = "append" /\ work[p].r \in Request /\ work[p].snap # NoSnap
      /\ work[p].snap \in Snap
  BY <1>1, Zenon DEF AppendAudit, At, Holds, Job
<1>3. UNCHANGED <<table, objects, mirror, foreign, feed, sent, fails>>
  BY Zenon DEF AppendAudit
<1>4. CASE Stop(p) /\ UNCHANGED event
  <2>1. Quiet
    BY <1>1, <1>3, <1>4 DEF Quiet, audit
  <2> QED BY <1>1, <1>4, <2>1, StopHolds, QuietKeeps
<1>5. CASE Goto(p, "mirror") /\ event' \in [Request -> Snap] /\ event'[work[p].r] # NoSnap
           /\ \A r \in Request : event[r] # NoSnap => event'[r] # NoSnap
  <2>1. /\ work' \in [Worker -> Job] /\ work'[p].pc = "mirror" /\ work'[p].r = work[p].r
        /\ work'[p].seq = work[p].seq /\ work'[p].snap = work[p].snap
        /\ \A q \in Worker : q # p => work'[q] = work[q]
    BY ONLY <1>1, <1>5, GotoType DEF PC
  <2>2. /\ revs' = revs /\ batch' = batch /\ kvEpoch' = kvEpoch /\ mirror' = mirror
        /\ revoked' = revoked
    BY <1>3 DEF table, feed, objects
  <2>3. Grows
    BY ONLY <1>1, <1>5, <2>2, SameRowsGrow
  <2>4. Holds(p)'
    BY <1>1, <1>2, <1>5, <2>1, <2>2, Zenon DEF Holds, OwnsRow
  <2>5. Tables'
    BY <1>1, <1>3, <1>5, Zenon DEF TypeOK, Tables, table, objects, feed
  <2>6. StrictSequence' /\ AuditPrecedesEffect' /\ Feed'
    BY <1>1, <2>2, Zenon DEF FeedInv, StrictSequence, AuditPrecedesEffect, Feed
  <2> QED BY <2>1, <2>3, <2>4, <2>5, <2>6, StepKeeps
<1>6. CASE event[work[p].r] = work[p].snap /\ Goto(p, "mirror") /\ UNCHANGED event
  BY <1>1, <1>2, <1>5, <1>6
<1>7. CASE event' = [event EXCEPT ![work[p].r] = work[p].snap] /\ Goto(p, "mirror")
  BY <1>1, <1>2, <1>5, <1>7
<1> QED BY <1>4, <1>6, <1>7 DEF AppendAudit

LEMMA MirrorAuditStep ==
    ASSUME Inv, NEW p \in Worker, MirrorAudit(p)
    PROVE  Inv'
<1>1. /\ TypeOK /\ FeedInv /\ Holds(p)
      /\ event \in [Request -> Snap] /\ mirror \in [Request -> Snap]
  BY Zenon DEF Inv, FeedInv, TypeOK
<1>2. work[p].pc = "mirror" /\ work[p].r \in Request /\ event[work[p].r] # NoSnap
  BY <1>1, Zenon DEF MirrorAudit, At, Holds
<1>3. UNCHANGED <<table, objects, event, foreign, feed, sent, fails>>
  BY Zenon DEF MirrorAudit
<1>4. mirror' = [mirror EXCEPT ![work[p].r] = event[work[p].r]]
  BY Zenon DEF MirrorAudit
<1>5. /\ mirror' \in [Request -> Snap] /\ mirror'[work[p].r] # NoSnap
      /\ \A r \in Request : mirror[r] # NoSnap => mirror'[r] # NoSnap
  BY ONLY <1>1, <1>2, <1>4
<1>6. PICK c \in {"put", "apply"} : Goto(p, c)
  BY Zenon DEF MirrorAudit
<1>7. /\ work' \in [Worker -> Job] /\ work'[p].pc = c /\ work'[p].r = work[p].r
      /\ work'[p].seq = work[p].seq /\ work'[p].snap = work[p].snap
      /\ \A q \in Worker : q # p => work'[q] = work[q]
  BY ONLY <1>1, <1>6, GotoType DEF PC
<1>8. /\ revs' = revs /\ batch' = batch /\ kvEpoch' = kvEpoch /\ event' = event
      /\ revoked' = revoked
  BY <1>3 DEF table, feed, objects
<1>9. Grows
  BY <1>1, <1>5, <1>8, SameRowsGrow, Zenon
<1>10. Holds(p)'
  BY ONLY <1>1, <1>2, <1>5, <1>7, <1>8 DEF Holds, OwnsRow
<1>11. Tables'
  BY <1>1, <1>3, <1>5, Zenon DEF TypeOK, Tables, table, objects, feed
<1>12. StrictSequence' /\ Feed'
  BY <1>1, <1>8, Zenon DEF FeedInv, StrictSequence, Feed
<1>13. AuditPrecedesEffect'
  <2>1. AuditPrecedesEffect
    BY <1>1, Zenon DEF FeedInv
  <2> QED BY <1>5, <1>8, <2>1, Zenon DEF AuditPrecedesEffect
<1> QED BY <1>7, <1>9, <1>10, <1>11, <1>12, <1>13, StepKeeps

LEMMA ApplyStep ==
    ASSUME Inv, NEW p \in Worker, Apply(p)
    PROVE  Inv'
<1>1. TypeOK /\ FeedInv /\ Holds(p) /\ fails \in 0 .. MaxFail
  BY Zenon DEF Inv, FeedInv, TypeOK
<1>2. /\ work[p].pc = "apply" /\ work[p].r \in Request /\ mirror[work[p].r] # NoSnap
      /\ OwnsRow(p) /\ work[p].snap # NoSnap
  BY <1>1, Zenon DEF Apply, At, Holds
<1>3. UNCHANGED <<table, known, audit, feed, sent, fails>>
  BY Zenon DEF Apply
<1>4. CASE /\ revoked' \in {revoked, revoked \cup {TargetOf[work[p].r]}}
           /\ revoked' \subseteq known /\ epoch' \in [License -> Nat]
           /\ Stop(p) \/ Goto(p, "mark")
  <2>1. /\ revs' = revs /\ batch' = batch /\ kvEpoch' = kvEpoch /\ event' = event
        /\ mirror' = mirror /\ known' = known
    BY <1>3 DEF table, feed, audit
  <2>2. Grows
    BY <1>1, <2>1, SameRowsGrow
  <2>3. Tables'
    BY <1>1, <1>3, <1>4, Zenon DEF TypeOK, Tables, table, audit, feed
  <2>4. StrictSequence' /\ Feed'
    BY <1>1, <2>1, Zenon DEF FeedInv, StrictSequence, Feed
  <2>5. AuditPrecedesEffect'
    <3>1. AuditPrecedesEffect
      BY <1>1 DEF FeedInv
    <3> QED BY <1>2, <1>4, <2>1, <3>1, Zenon DEF AuditPrecedesEffect
  <2>6. /\ work' \in [Worker -> Job] /\ Holds(p)'
        /\ \A q \in Worker : q # p => work'[q] = work[q]
    <3>1. CASE Stop(p)
      BY <1>1, <3>1, StopHolds, Zenon
    <3>2. CASE Goto(p, "mark")
      <4>1. /\ work' \in [Worker -> Job] /\ work'[p].pc = "mark" /\ work'[p].r = work[p].r
            /\ work'[p].seq = work[p].seq /\ work'[p].snap = work[p].snap
            /\ \A q \in Worker : q # p => work'[q] = work[q]
        BY <1>1, <3>2, GotoType, Zenon DEF PC
      <4> QED BY <1>2, <2>1, <4>1, Zenon DEF Holds, OwnsRow
    <3> QED BY ONLY <1>4, <3>1, <3>2
  <2> QED BY <2>2, <2>3, <2>4, <2>5, <2>6, StepKeeps
<1>5. /\ revoked' \in {revoked, revoked \cup {TargetOf[work[p].r]}}
      /\ Stop(p) \/ Goto(p, "mark")
  BY Zenon DEF Apply
<1>6. revoked' \subseteq known
  BY <1>1, Zenon DEF Apply, TypeOK
<1>7. epoch' \in [License -> Nat]
  <2>1. work[p].seq \in Nat /\ epoch \in [License -> Nat]
    BY <1>1, Zenon DEF TypeOK, Job
  <2> QED BY <2>1, Zenon DEF Apply, Max
<1> QED BY ONLY <1>4, <1>5, <1>6, <1>7

\* A checkpoint on the worker's own row.
LEMMA SetRowIs ==
    ASSUME TypeOK, NEW n \in DOMAIN revs, NEW row \in Row, row.r = revs[n].r,
           revs[n].published => row.published, revs' = [revs EXCEPT ![n] = row]
    PROVE  /\ revs' \in Seq(Row) /\ Len(revs') = Len(revs) /\ Len(revs) \in Nat
           /\ DOMAIN revs = 1 .. Len(revs) /\ DOMAIN revs' = DOMAIN revs
           /\ \A i \in DOMAIN revs : /\ revs'[i].r = revs[i].r
                                     /\ revs[i].published => revs'[i].published
<1>1. revs \in Seq(Row) /\ n \in 1 .. Len(revs) /\ DOMAIN revs = 1 .. Len(revs)
  BY DEF TypeOK
<1>2. /\ revs' \in Seq(Row) /\ Len(revs') = Len(revs)
      /\ \A i \in 1 .. Len(revs) : revs'[i] = IF i = n THEN row ELSE revs[i]
  BY <1>1, ExceptRow
<1>3. Len(revs) \in Nat /\ DOMAIN revs' = 1 .. Len(revs')
  BY <1>1, <1>2
<1> QED BY <1>1, <1>2, <1>3

LEMMA CheckpointKeeps ==
    ASSUME Inv, NEW p \in Worker, NEW row \in Row, OwnsRow(p), work[p].seq \in DOMAIN revs,
           row.r = revs[work[p].seq].r, revs[work[p].seq].published => row.published,
           revs' = [revs EXCEPT ![work[p].seq] = row],
           work' \in [Worker -> Job], \A q \in Worker : q # p => work'[q] = work[q],
           \/ work'[p] = Idle
           \/ /\ work'[p].pc = "put" /\ work'[p].r \in Request /\ work'[p].r = row.r
              /\ work'[p].seq = work[p].seq /\ work'[p].snap # NoSnap,
           UNCHANGED <<rows, count, shown, objects, audit, feed, sent, fails>>
    PROVE  Inv'
<1>1. TypeOK /\ FeedInv
  BY DEF Inv
<1>2. /\ revs' \in Seq(Row) /\ Len(revs') = Len(revs) /\ Len(revs) \in Nat
      /\ DOMAIN revs = 1 .. Len(revs) /\ DOMAIN revs' = DOMAIN revs
      /\ \A i \in DOMAIN revs : /\ revs'[i].r = revs[i].r
                                /\ revs[i].published => revs'[i].published
  BY <1>1, SetRowIs, Zenon
<1>3. /\ batch' = batch /\ kvEpoch' = kvEpoch /\ event' = event /\ mirror' = mirror
      /\ revoked' = revoked
  BY Zenon DEF feed, audit, objects
<1>4. Grows
  <2>1. AnyPending' => AnyPending
    BY <1>2, Zenon DEF AnyPending, Pending
  <2>a. Len(revs') = Len(revs) /\ Len(revs) \in Nat
    BY ONLY <1>2
  <2>2. Len(revs) <= Len(revs')
    BY ONLY <2>a
  <2> QED BY ONLY <1>2, <1>3, <2>1, <2>2 DEF Grows
<1>5. Holds(p)'
  <2>1. CASE work'[p] = Idle
    BY <2>1, IdleType, Zenon DEF Holds, OwnsRow
  <2>2. CASE work'[p] # Idle
    BY <1>2, <2>2, Zenon DEF Holds, OwnsRow
  <2> QED BY ONLY <2>1, <2>2
<1>6. Tables'
  BY <1>1, Zenon DEF TypeOK, Tables, objects, audit, feed
<1>7. StrictSequence'
  <2>1. \A i \in 1 .. (Len(revs) - 1) : i \in DOMAIN revs /\ revs[i].published
    <3>1. \A i \in 1 .. (Len(revs) - 1) : revs[i].published
      BY <1>1, Zenon DEF FeedInv, StrictSequence
    <3> QED BY ONLY <1>2, <3>1, Prefixes
  <2> QED BY <1>2, <2>1, Zenon DEF StrictSequence
<1>8. AuditPrecedesEffect'
  BY ONLY <1>1, <1>3 DEF FeedInv, AuditPrecedesEffect
<1>9. Feed'
  BY ONLY <1>1, <1>2, <1>3, Zenon DEF FeedInv, Feed
<1> QED BY <1>4, <1>5, <1>6, <1>7, <1>8, <1>9, StepKeeps, Zenon

LEMMA MarkAppliedStep ==
    ASSUME Inv, NEW p \in Worker, MarkApplied(p)
    PROVE  Inv'
<1>1. TypeOK /\ Holds(p)
  BY DEF Inv, FeedInv
<1>2. /\ work[p].pc = "mark" /\ OwnsRow(p) /\ work[p].seq \in DOMAIN revs
      /\ revs[work[p].seq].r = work[p].r /\ work[p].snap # NoSnap /\ work[p].r \in Request
  BY <1>1 DEF MarkApplied, At, Holds, OwnsRow
<1> DEFINE row == [revs[work[p].seq] EXCEPT !.applied = TRUE]
<1>3. revs[work[p].seq] \in Row
  BY ONLY <1>1, <1>2, RowType
<1>4. row \in Row /\ row.r = revs[work[p].seq].r /\ row.published = revs[work[p].seq].published
  BY <1>3, Zenon DEF Row
<1>5. /\ revs' = [revs EXCEPT ![work[p].seq] = row] /\ Goto(p, "put")
      /\ UNCHANGED <<rows, count, shown, objects, audit, feed, sent, fails>>
  BY DEF MarkApplied
<1>6. /\ work' \in [Worker -> Job] /\ work'[p].pc = "put" /\ work'[p].r = work[p].r
      /\ work'[p].seq = work[p].seq /\ work'[p].snap = work[p].snap
      /\ \A q \in Worker : q # p => work'[q] = work[q]
  BY <1>1, <1>5, GotoType DEF PC
<1> HIDE DEF row
<1> QED BY <1>2, <1>4, <1>5, <1>6, CheckpointKeeps, Zenon

LEMMA FinishStep ==
    ASSUME Inv, NEW p \in Worker, Finish(p)
    PROVE  Inv'
<1>1. TypeOK /\ Holds(p) /\ fails \in 0 .. MaxFail
  BY DEF Inv, FeedInv, TypeOK
<1>2. work[p].pc = "finish" /\ OwnsRow(p) /\ work[p].seq \in DOMAIN revs
  BY <1>1 DEF Finish, At, Holds, OwnsRow
<1>3. /\ Stop(p)
      /\ UNCHANGED <<rows, count, shown, objects, audit, feed, sent, fails>>
  BY DEF Finish
<1>4. CASE revs' = revs
  <2>1. Quiet
    BY <1>1, <1>3, <1>4 DEF Quiet, table
  <2> QED BY <1>1, <1>3, <2>1, StopHolds, QuietKeeps
<1>5. CASE revs' # revs
  <2> DEFINE row == [revs[work[p].seq] EXCEPT !.published = TRUE]
  <2>1. revs[work[p].seq] \in Row
    BY <1>1, <1>2, RowType
  <2>2. row \in Row /\ row.r = revs[work[p].seq].r /\ row.published
    BY <2>1, Zenon DEF Row
  <2>3. revs' = [revs EXCEPT ![work[p].seq] = row]
    BY <1>5 DEF Finish
  <2>4. /\ work' \in [Worker -> Job] /\ work'[p] = Idle
        /\ \A q \in Worker : q # p => work'[q] = work[q]
    BY <1>1, <1>3, IdleType, SetType, Zenon DEF Stop
  <2> HIDE DEF row
  <2> QED BY <1>2, <1>3, <2>2, <2>3, <2>4, CheckpointKeeps, Zenon
<1> QED BY <1>4, <1>5

LEMMA PutBatchStep ==
    ASSUME Inv, NEW p \in Worker, PutBatch(p)
    PROVE  Inv'
<1>1. TypeOK /\ FeedInv /\ Holds(p)
  BY DEF Inv, FeedInv
<1>2. /\ work[p].pc = "put" /\ OwnsRow(p) /\ work[p].seq \in DOMAIN revs
      /\ revs[work[p].seq].r = work[p].r /\ work[p].snap # NoSnap /\ work[p].r \in Request
  BY <1>1, Zenon DEF PutBatch, At, Holds, OwnsRow
<1>3. /\ UNCHANGED <<table, objects, audit, kvEpoch, sent, fails>> /\ Goto(p, "read")
      /\ \/ work[p].seq \in DOMAIN batch /\ batch' = batch
         \/ batch' = [i \in DOMAIN batch \cup {work[p].seq} |->
                        IF i = work[p].seq THEN work[p].r ELSE batch[i]]
  <2>1. work[p].seq \in DOMAIN batch => batch[work[p].seq] = work[p].r
    BY ONLY <1>1, <1>2 DEF FeedInv
  <2> QED BY ONLY <2>1, PutBatch(p), Zenon DEF PutBatch
<1>4. /\ DOMAIN batch' = DOMAIN batch \cup {work[p].seq}
      /\ \A i \in DOMAIN batch' : batch'[i] = revs[i].r /\ i \in DOMAIN revs
  BY ONLY <1>1, <1>2, <1>3 DEF FeedInv
<1>5. /\ revs' = revs /\ kvEpoch' = kvEpoch /\ event' = event /\ mirror' = mirror
      /\ revoked' = revoked
  BY <1>3 DEF table, audit, objects
<1>6. Grows
  BY <1>1, <1>4, <1>5, SameRowsGrow
<1>7. /\ work' \in [Worker -> Job] /\ work'[p].pc = "read" /\ work'[p].r = work[p].r
      /\ work'[p].seq = work[p].seq /\ work'[p].snap = work[p].snap
      /\ \A q \in Worker : q # p => work'[q] = work[q]
  BY <1>1, <1>3, GotoType, Zenon DEF PC
<1>8. Holds(p)'
  BY <1>2, <1>4, <1>5, <1>7, Zenon DEF Holds, OwnsRow
<1>9. Tables'
  BY ONLY <1>1, <1>3 DEF TypeOK, Tables, table, objects, audit
<1>10. StrictSequence' /\ AuditPrecedesEffect'
  BY <1>1, <1>5, Zenon DEF FeedInv, StrictSequence, AuditPrecedesEffect
<1>11. Feed'
  BY <1>1, <1>4, <1>5, Zenon DEF FeedInv, Feed
<1> QED BY <1>6, <1>7, <1>8, <1>9, <1>10, <1>11, StepKeeps, Zenon

LEMMA AdvanceEpochStep ==
    ASSUME Inv, NEW p \in Worker, AdvanceEpoch(p)
    PROVE  Inv'
<1>1. TypeOK /\ FeedInv /\ Holds(p) /\ kvEpoch \in Nat /\ work \in [Worker -> Job]
  BY Zenon DEF Inv, FeedInv, TypeOK
<1>2. /\ work[p].pc = "advance" /\ OwnsRow(p) /\ work[p].snap # NoSnap
      /\ work[p].r \in Request /\ 1 .. work[p].seq \subseteq DOMAIN batch /\ work[p].seq \in Nat
  BY <1>1, Zenon DEF AdvanceEpoch, At, Holds, Job
<1>3. /\ UNCHANGED <<table, objects, audit, batch, sent, fails>>
      /\ kvEpoch' \in {kvEpoch, work[p].seq}
      /\ \E c \in {"finish", "send"} : Goto(p, c)
  BY Zenon DEF AdvanceEpoch
<1>4. /\ revs' = revs /\ batch' = batch /\ event' = event /\ mirror' = mirror
      /\ revoked' = revoked
  BY <1>3 DEF table, audit, objects
<1>5. Grows
  BY <1>1, <1>4, SameRowsGrow
<1>6. PICK c \in {"finish", "send"} : Goto(p, c)
  BY <1>3
<1>7. /\ work' \in [Worker -> Job] /\ work'[p].pc = c /\ work'[p].r = work[p].r
      /\ work'[p].seq = work[p].seq /\ work'[p].snap = work[p].snap
      /\ \A q \in Worker : q # p => work'[q] = work[q]
  BY <1>1, <1>6, GotoType, Zenon DEF PC
<1>8. Holds(p)'
  BY ONLY <1>2, <1>4, <1>7 DEF Holds, OwnsRow
<1>9. Tables'
  BY ONLY <1>1, <1>2, <1>3 DEF TypeOK, Tables, table, objects, audit
<1>10. StrictSequence' /\ AuditPrecedesEffect'
  BY <1>1, <1>4, Zenon DEF FeedInv, StrictSequence, AuditPrecedesEffect
<1>11. Feed'
  BY ONLY <1>1, <1>2, <1>3, <1>4 DEF FeedInv, Feed
<1> QED BY <1>5, <1>7, <1>8, <1>9, <1>10, <1>11, StepKeeps, Zenon

LEMMA SendAuditStep ==
    ASSUME Inv, NEW p \in Worker, SendAudit(p)
    PROVE  Inv'
<1>1. TypeOK /\ FeedInv /\ Holds(p)
  BY DEF Inv, FeedInv
<1>2. work[p].pc = "send" /\ OwnsRow(p) /\ work[p].snap # NoSnap /\ work[p].r \in Request
  BY <1>1, Zenon DEF SendAudit, At, Holds
<1>3. /\ UNCHANGED <<table, objects, audit, feed, fails>>
      /\ sent' = sent \cup {work[p].r} /\ Goto(p, "finish")
  BY DEF SendAudit
<1>4. /\ revs' = revs /\ batch' = batch /\ kvEpoch' = kvEpoch /\ event' = event
      /\ mirror' = mirror /\ revoked' = revoked
  BY <1>3 DEF table, audit, objects, feed
<1>5. Grows
  BY <1>1, <1>4, SameRowsGrow, Zenon
<1>6. /\ work' \in [Worker -> Job] /\ work'[p].pc = "finish" /\ work'[p].r = work[p].r
      /\ work'[p].seq = work[p].seq /\ work'[p].snap = work[p].snap
      /\ \A q \in Worker : q # p => work'[q] = work[q]
  BY ONLY <1>1, <1>3, GotoType DEF PC
<1>7. Holds(p)'
  BY <1>2, <1>4, <1>6, Zenon DEF Holds, OwnsRow
<1>8. Tables'
  BY <1>1, <1>2, <1>3, Zenon DEF TypeOK, Tables, table, objects, audit, feed
<1>9. StrictSequence' /\ AuditPrecedesEffect' /\ Feed'
  BY <1>1, <1>4, Zenon DEF FeedInv, StrictSequence, AuditPrecedesEffect, Feed
<1> QED BY <1>5, <1>6, <1>7, <1>8, <1>9, StepKeeps, Zenon

\* The largest applied seq is that of the last row or of the one before it.
LEMMA AuthoritativeIs ==
    ASSUME Inv, AppliedFirst
    PROVE  Authoritative = 0 \/ Authoritative \in {i \in DOMAIN revs : revs[i].applied}
<1> DEFINE A == {i \in DOMAIN revs : revs[i].applied}
<1>1. Len(revs) \in Nat /\ DOMAIN revs = 1 .. Len(revs)
  BY DEF Inv, TypeOK
<1>2. CASE A = {}
  BY <1>2 DEF Authoritative
<1>3. CASE A # {}
  <2>1. PICK x \in A : TRUE
    BY <1>3
  <2>2. \E m \in A : \A j \in A : j <= m
    <3>1. CASE Len(revs) \in A
      BY <1>1, <3>1
    <3>2. CASE Len(revs) \notin A
      <4>1. \A j \in A : j \in 1 .. (Len(revs) - 1)
        BY <1>1, <3>2
      <4>2. Len(revs) - 1 \in 1 .. (Len(revs) - 1) /\ Len(revs) - 1 \in DOMAIN revs
        BY <1>1, <2>1, <4>1
      <4>3. Len(revs) - 1 \in A
        BY <4>2 DEF Inv, FeedInv, StrictSequence, AppliedFirst
      <4>4. \A j \in A : j <= Len(revs) - 1
        BY <1>1, <4>1
      <4> HIDE DEF A
      <4> QED BY <4>3, <4>4
    <3> QED BY <3>1, <3>2
  <2>3. Authoritative = CHOOSE i \in A : \A j \in A : j <= i
    BY <1>3 DEF Authoritative
  <2> QED BY <2>2, <2>3
<1> QED BY <1>2, <1>3

LEMMA AuthoritativeType ==
    ASSUME Inv, AppliedFirst
    PROVE  Authoritative \in Nat
<1>1. Authoritative = 0 \/ Authoritative \in DOMAIN revs
  BY AuthoritativeIs
<1>2. revs \in Seq(Row)
  BY DEF Inv, TypeOK
<1> QED BY <1>1, <1>2

\* What goes on around the workers touches no row, batch or event of theirs.
LEMMA AroundStep == Inv /\ AppliedFirst /\ Around => Inv'
<1> SUFFICES ASSUME Inv, AppliedFirst, Around PROVE Inv'
  OBVIOUS
<1>1. TypeOK /\ FeedInv /\ (\A q \in Worker : Holds(q))
  BY DEF Inv, FeedInv
<1>2. UNCHANGED <<revs, event, mirror, batch, kvEpoch, work>>
  BY DEF Around, Project, Drift, Erase, Purge, Validate, ForeignAppend, ForeignMirror,
         table, objects, audit, feed
<1>3. revoked' \subseteq revoked
  BY DEF Around, Project, Drift, Erase, Purge, Validate, ForeignAppend, ForeignMirror,
         table, objects, audit, feed
<1>4. Grows
  BY <1>1, <1>2, SameRowsGrow
<1>5. \A q \in Worker : Holds(q)'
  BY <1>1, <1>2, <1>4, HoldsKept
<1>6. StrictSequence' /\ AuditPrecedesEffect' /\ Feed'
  BY <1>1, <1>2, <1>3 DEF FeedInv, StrictSequence, AuditPrecedesEffect, Feed
<1>7. Tables'
  <2> USE <1>1 DEF TypeOK, Tables, table, objects, audit, feed
  <2>1. ASSUME NEW t \in Target, Project(t) PROVE Tables'
    BY <2>1, Zenon DEF Project
  <2>2. ASSUME NEW t \in Target, Drift(t) PROVE Tables'
    BY <2>2, Zenon DEF Drift
  <2>3. ASSUME NEW t \in Target, Erase(t) PROVE Tables'
    BY <2>3, Zenon DEF Erase
  <2>4. ASSUME NEW t \in Target, Purge(t) PROVE Tables'
    BY <2>4, Zenon DEF Purge
  <2>5. ASSUME NEW l \in License, Validate(l) PROVE Tables'
    <3>1. Authoritative \in Nat
      BY AuthoritativeType
    <3> QED BY <2>5, <3>1, Zenon DEF Validate
  <2>6. CASE ForeignAppend
    <3>1. foreign.chain + 1 \in 0 .. MaxForeign
      BY <2>6, RevocationAssumption DEF ForeignAppend
    <3>2. foreign' \in [chain : 0 .. MaxForeign, d1 : 0 .. MaxForeign]
      BY <2>6, <3>1, Zenon DEF ForeignAppend
    <3> QED BY <2>6, <3>2 DEF ForeignAppend
  <2>7. CASE ForeignMirror
    <3>1. foreign.d1 + 1 \in 0 .. MaxForeign
      BY <2>7, RevocationAssumption DEF ForeignMirror
    <3>2. foreign' \in [chain : 0 .. MaxForeign, d1 : 0 .. MaxForeign]
      BY <2>7, <3>1, Zenon DEF ForeignMirror
    <3> QED BY <2>7, <3>2 DEF ForeignMirror
  <2> QED BY <2>1, <2>2, <2>3, <2>4, <2>5, <2>6, <2>7, Zenon DEF Around
<1>8. TypeOK'
  BY <1>1, <1>2, <1>5, <1>6, <1>7, Zenon DEF TypeOK, Tables, Feed, Holds
<1> QED BY <1>2, <1>5, <1>6, <1>8 DEF Inv, FeedInv, Feed

LEMMA AppliedInit == Init => AppliedFirst
BY DEF Init, AppliedFirst

\* Only a new row and the two checkpoints change the table.
LEMMA AppliedNext == Inv /\ AppliedFirst /\ [Next]_vars => AppliedFirst'
<1> SUFFICES ASSUME Inv, AppliedFirst, [Next]_vars PROVE AppliedFirst'
  OBVIOUS
<1>1. TypeOK /\ revs \in Seq(Row) /\ Len(revs) \in Nat /\ DOMAIN revs = 1 .. Len(revs)
  BY DEF Inv, TypeOK
<1>2. CASE UNCHANGED revs
  BY <1>2 DEF AppliedFirst
<1>3. ASSUME NEW r \in Request, revs' = NewRow(r) PROVE AppliedFirst'
  <2> DEFINE e == [r |-> r, applied |-> FALSE, published |-> FALSE]
  <2>1. e \in Row /\ ~e.published /\ revs' = Append(revs, e)
    BY <1>3 DEF Row, NewRow
  <2> HIDE DEF e
  <2>2. revs'[Len(revs) + 1] = e /\ \A i \in 1 .. Len(revs) : revs'[i] = revs[i]
    BY <1>1, <2>1, AppendRow
  <2>3. DOMAIN revs' = 1 .. (Len(revs) + 1)
    BY <1>1, <1>3, NewRowIs
  <2>4. \A i \in DOMAIN revs' : i \in DOMAIN revs \/ i = Len(revs) + 1
    BY <1>1, <2>3
  <2> QED BY <1>1, <2>1, <2>2, <2>4, Zenon DEF AppliedFirst
<1>4. ASSUME NEW n \in DOMAIN revs, NEW row \in Row, revs' = [revs EXCEPT ![n] = row], row.applied
      PROVE  AppliedFirst'
  <2>1. /\ DOMAIN revs' = DOMAIN revs
        /\ \A i \in DOMAIN revs : revs'[i] = IF i = n THEN row ELSE revs[i]
    BY <1>1, <1>4
  <2> QED BY <1>4, <2>1 DEF AppliedFirst
<1>5. ASSUME NEW p \in Worker, Insert(p) \/ EpochBatch(p) PROVE AppliedFirst'
  <2>1. work[p].r \in Request
    BY <1>5 DEF Insert, EpochBatch, At, Inv, FeedInv, Holds
  <2> QED BY <1>2, <1>3, <1>5, <2>1 DEF Insert, EpochBatch
<1>6. ASSUME NEW p \in Worker, MarkApplied(p) \/ Finish(p) PROVE AppliedFirst'
  <2> DEFINE n == work[p].seq
             marked == [revs[n] EXCEPT !.applied = TRUE]
             finished == [revs[n] EXCEPT !.published = TRUE]
  <2>1. n \in DOMAIN revs
    BY <1>6 DEF MarkApplied, Finish, At, Inv, FeedInv, Holds, OwnsRow
  <2>2. revs[n] \in Row
    BY <1>1, <2>1, RowType
  <2>3. /\ marked \in Row /\ marked.applied
        /\ finished \in Row /\ finished.applied = revs[n].applied
    BY <2>2, Zenon DEF Row
  <2>4. \/ revs' = revs
        \/ revs' = [revs EXCEPT ![n] = marked]
        \/ revs[n].applied /\ revs' = [revs EXCEPT ![n] = finished]
    BY <1>6 DEF MarkApplied, Finish
  <2> HIDE DEF n, marked, finished
  <2> QED BY <1>2, <1>4, <2>1, <2>3, <2>4
<1>7. ASSUME NEW p \in Worker, Step(p) \/ Fail(p) \/ Ask(p) \/ Resume(p) PROVE AppliedFirst'
  BY <1>2, <1>5, <1>6, <1>7, Zenon DEF Step, Fail, Ask, Resume, Look, LoadAudit, AppendAudit,
     MirrorAudit, Apply, PutBatch, ReadEpoch, AdvanceEpoch, SendAudit, Load, EpochHead,
     EpochResume, CronPending, table
<1>8. CASE Around
  BY <1>2, <1>8, Zenon DEF Around, Project, Drift, Erase, Purge, Validate, ForeignAppend,
     ForeignMirror, table
<1>9. CASE UNCHANGED vars
  BY <1>2, <1>9 DEF vars, table
<1> QED BY <1>7, <1>8, <1>9 DEF Next, Worker

LEMMA InvInit == Init => Inv
<1> SUFFICES ASSUME Init PROVE Inv
  OBVIOUS
<1>1. DOMAIN batch = {} /\ kvEpoch = 0 /\ revs = <<>> /\ revoked = {}
  BY DEF Init
<1>2. \A p \in Worker : work[p] = Idle
  BY DEF Init
<1>3. \A p \in Worker : Holds(p)
  BY ONLY <1>2, IdleType DEF Holds, OwnsRow
<1>4. work \in [Worker -> Job] /\ event \in [Request -> Snap] /\ mirror \in [Request -> Snap]
  BY IdleType DEF Init, Snap
<1>a. Tables
  <2>1. foreign \in [chain : 0 .. MaxForeign, d1 : 0 .. MaxForeign] /\ fails \in 0 .. MaxFail
    BY RevocationAssumption DEF Init
  <2>2. count \in [Target -> {0, 1}] /\ epoch \in [License -> Nat]
    BY DEF Init
  <2>3. /\ rows \subseteq Target /\ shown \subseteq Target /\ known \subseteq Target
        /\ revoked \subseteq known /\ sent \subseteq Request /\ kvEpoch \in Nat
    BY DEF Init, Target
  <2> QED BY <1>4, <2>1, <2>2, <2>3 DEF Tables
<1>b. revs \in Seq(Row)
  BY <1>1
<1>c. \A p \in Worker : OwnsRow(p)
  BY <1>2, IdleType DEF OwnsRow
<1>5. TypeOK
  BY <1>1, <1>4, <1>a, <1>b, <1>c DEF TypeOK, Tables
<1>6. FeedInv
  BY <1>1, <1>3 DEF FeedInv, StrictSequence, AuditPrecedesEffect
<1> QED BY <1>5, <1>6 DEF Inv

LEMMA InvNext == Inv /\ AppliedFirst /\ [Next]_vars => Inv'
<1> SUFFICES ASSUME Inv, AppliedFirst, [Next]_vars PROVE Inv'
  OBVIOUS
<1>1. ASSUME NEW p \in Worker, Step(p) \/ Fail(p) PROVE Inv'
  BY <1>1, QuietSteps, InsertStep, EpochBatchStep, AppendAuditStep, MirrorAuditStep, ApplyStep,
     MarkAppliedStep, PutBatchStep, AdvanceEpochStep, SendAuditStep, FinishStep DEF Step
<1>2. ASSUME NEW p \in Client, Ask(p) PROVE Inv'
  <2>1. p \in Worker
    BY DEF Worker
  <2> QED BY <1>2, <2>1, TakeSteps DEF Ask
<1>3. ASSUME NEW c \in Cron, Resume(c) PROVE Inv'
  <2>1. c \in Worker
    BY DEF Worker
  <2> QED BY <1>3, <2>1, TakeSteps DEF Resume
<1>4. CASE Around
  BY <1>4, AroundStep
<1>5. CASE UNCHANGED vars
  BY <1>5, Zenon DEF vars, table, objects, audit, feed, Inv, TypeOK, FeedInv, Holds, OwnsRow,
     StrictSequence, AuditPrecedesEffect, AnyPending, Pending
<1> QED BY <1>1, <1>2, <1>3, <1>4, <1>5 DEF Next

\* The tables, objects, KV keys and worker states of the revocation sequence are
\* well formed, and each worker refers to the row of its request.
THEOREM RevocationTypes == Spec => []TypeOK
<1>1. Inv => TypeOK
  BY DEF Inv
<1> QED BY <1>1, InvInit, InvNext, AppliedInit, AppliedNext, PTL DEF Spec

\* No revocation passes a pending one, through either way of reserving it.
THEOREM SequenceIsStrict == Spec => []StrictSequence
<1>1. Inv => StrictSequence
  BY DEF Inv, FeedInv
<1> QED BY <1>1, InvInit, InvNext, AppliedInit, AppliedNext, PTL DEF Spec

\* A client that reads rev:epoch finds every batch up to it.
THEOREM FeedComplete == Spec => []FeedIsComplete
<1>1. Inv => FeedIsComplete
  BY DEF Inv, FeedInv, FeedIsComplete
<1> QED BY <1>1, InvInit, InvNext, AppliedInit, AppliedNext, PTL DEF Spec

\* No LicenseDO revokes anything before the audit event is in D1.
THEOREM AuditFirst == Spec => []AuditPrecedesEffect
<1>1. Inv => AuditPrecedesEffect
  BY DEF Inv, FeedInv
<1> QED BY <1>1, InvInit, InvNext, AppliedInit, AppliedNext, PTL DEF Spec
=============================================================================
