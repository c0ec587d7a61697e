---------------------------- MODULE AdminJournal ----------------------------
(***************************************************************************)
(* The Admin operation journal (admin_operations.rs, admin_resources.rs),  *)
(* the audit chain of AdminAuditDO with its mirror in D1, the minute cron  *)
(* that resumes unfinished operations and the archive consumer (audit.rs). *)
(*                                                                         *)
(* A worker is a request handler or a cron run.  It awaits D1, a Durable   *)
(* Object or the queue between any two steps, and may die at every await:  *)
(* what the awaited call did stays done.                                   *)
(***************************************************************************)
EXTENDS Integers, Sequences, FiniteSets

CONSTANTS
    Op,         \* operations, in the order of (created_at, operation_id)
    NoOperation,
    HasEffect,  \* the operations with a side_effect_json
    Rejected,   \* those whose Durable Object keeps refusing the side effect
    Client,     \* request handlers
    Cron,       \* runs of the scheduled handler
    MaxFail     \* bound: how many workers die

ASSUME JournalAssumption ==
    /\ Op \subseteq Nat /\ IsFiniteSet(Op)
    /\ NoOperation \notin Op
    /\ HasEffect \subseteq Op /\ Rejected \subseteq HasEffect
    /\ Client \cap Cron = {}
    /\ MaxFail \in Nat

VARIABLES
    journal,    \* the rows of admin_operations
    applied,    \* the operations whose side effect took place in its object
    marked,     \* side_effect_at is stored
    done,       \* enqueued_at and completed_at are stored (one statement)
    chain,      \* table events of AdminAuditDO, in seq order
    mirror,     \* table admin_audit_events: the seq and operation of each row
    queue,      \* the events sent to the archive consumer
    archive,    \* how far an operation's event is archived: 1 in R2, 2 indexed,
                \* 3 archived_at is stored
    work,       \* what each worker is doing
    stage,      \* what a cron run looks for next
    fails

store == <<journal, applied, marked, done>>
trail == <<chain, mirror>>
outlet == <<queue, archive>>
journalVars == <<store, trail, outlet, work, stage, fails>>

Worker == Client \cup Cron

Genesis == [seq |-> 0, op |-> NoOperation]
Idle == [pc |-> "idle", op |-> NoOperation, boot |-> Genesis, ev |-> 0]
At(pc, o) == [pc |-> pc, op |-> o, boot |-> Genesis, ev |-> 0]

\* side_effect_pending
EffectPending(o) == o \in HasEffect \ marked

\* The first step of complete_operation(o) that is still to be done.
FirstStep(o) == IF EffectPending(o) THEN At("effect", o) ELSE At("load", o)

Mirrored(o) == \E r \in mirror : r.op = o
MirrorSeq(o) == (CHOOSE r \in mirror : r.op = o).seq

\* SELECT seq, hash FROM admin_audit_events ORDER BY seq DESC LIMIT 1.  The hash
\* of an event stands for the operation and everything before it.
MirrorHead ==
    IF mirror = {} THEN Genesis
    ELSE CHOOSE r \in mirror : \A x \in mirror : x.seq <= r.seq

ChainHead ==
    IF chain = <<>> THEN Genesis ELSE [seq |-> Len(chain), op |-> chain[Len(chain)]]

ChainSeq(o) == CHOOSE i \in DOMAIN chain : chain[i] = o

\* Variant that does not look the operation up.
ChainedNever(o) == FALSE

Chained(o) == \E i \in DOMAIN chain : chain[i] = o

JournalInit ==
    /\ journal = {} /\ applied = {} /\ marked = {} /\ done = {}
    /\ chain = <<>> /\ mirror = {}
    /\ queue = {} /\ archive = [o \in Op |-> 0]
    /\ work = [p \in Worker |-> Idle]
    /\ stage = [c \in Cron |-> "side"]
    /\ fails = 0

Move(p, r) == work' = [work EXCEPT ![p] = r]

(***************************************************************************)
(* Where work comes from                                                   *)
(***************************************************************************)

\* The batch with the business writes and the journal row, then
\* finish_new_operation.
Submit(p, o) ==
    /\ work[p] = Idle
    /\ o \notin journal
    /\ journal' = journal \cup {o}
    /\ Move(p, FirstStep(o))
    /\ UNCHANGED <<applied, marked, done, trail, outlet, stage, fails>>

\* replay_operation: the caller repeats its request with the same key.
Replay(p, o) ==
    /\ work[p] = Idle
    /\ o \in journal \ done
    /\ Move(p, FirstStep(o))
    /\ UNCHANGED <<store, trail, outlet, stage, fails>>

\* Takes up the operation of S that comes first in (created_at, operation_id).
TakeFirst(c, S) ==
    \/ S = {} /\ Move(c, Idle)
    \/ \E o \in S : (\A x \in S : o <= x) /\ Move(c, FirstStep(o))

\* reconcile_pending_side_effect: the oldest operation that waits for its side
\* effect; the run goes on to reconcile_pending whatever comes of it.
CronSide(c) ==
    LET waiting == {o \in journal \ done : EffectPending(o)}
    IN  /\ work[c] = Idle
        /\ stage[c] = "side"
        /\ stage' = [stage EXCEPT ![c] = "pending"]
        /\ TakeFirst(c, waiting)
        /\ UNCHANGED <<store, trail, outlet, fails>>

\* reconcile_pending: the oldest other operation that is not completed
CronPending(c) ==
    LET waiting == {o \in journal \ done : ~EffectPending(o)}
    IN  /\ work[c] = Idle
        /\ stage[c] = "pending"
        /\ stage' = [stage EXCEPT ![c] = "side"]
        /\ TakeFirst(c, waiting)
        /\ UNCHANGED <<store, trail, outlet, fails>>

(***************************************************************************)
(* complete_operation and finalize                                         *)
(***************************************************************************)

\* apply_side_effect: the object accepts (again) or refuses
CallEffect(p) ==
    /\ work[p].pc = "effect"
    /\ IF work[p].op \in Rejected
         THEN UNCHANGED applied /\ Move(p, Idle)
         ELSE applied' = applied \cup {work[p].op} /\ Move(p, At("mark", work[p].op))
    /\ UNCHANGED <<journal, marked, done, trail, outlet, stage, fails>>

\* mark_side_effect_complete, which reads the row again
Mark(p) ==
    /\ work[p].pc = "mark"
    /\ marked' = marked \cup {work[p].op}
    /\ Move(p, IF work[p].op \in done THEN Idle ELSE At("load", work[p].op))
    /\ UNCHANGED <<journal, applied, done, trail, outlet, stage, fails>>

\* ensure_audit: load_audit
LoadAudit(p) ==
    /\ work[p].pc = "load"
    /\ Move(p, IF Mirrored(work[p].op)
                 THEN [At("send", work[p].op) EXCEPT !.ev = MirrorSeq(work[p].op)]
                 ELSE At("head", work[p].op))
    /\ UNCHANGED <<store, trail, outlet, stage, fails>>

ReadHead(p) ==
    /\ work[p].pc = "head"
    /\ Move(p, [At("append", work[p].op) EXCEPT !.boot = MirrorHead])
    /\ UNCHANGED <<store, trail, outlet, stage, fails>>

\* Variant that appends to whatever head the chain has.
HeadMatchesAny(h) == TRUE

\* load_or_initialize_head: the caller saw the current head
HeadMatches(h) == h = ChainHead

\* AdminAuditDO append: the stored event of the operation, or a new one, or
\* stale_chain_head
AppendAudit(p) ==
    LET o == work[p].op
    IN  /\ work[p].pc = "append"
        /\ \/ /\ Chained(o)
              /\ Move(p, [At("mirror", o) EXCEPT !.ev = ChainSeq(o)])
              /\ UNCHANGED chain
           \/ /\ ~Chained(o)
              /\ HeadMatches(work[p].boot)
              /\ chain' = Append(chain, o)
              /\ Move(p, [At("mirror", o) EXCEPT !.ev = Len(chain) + 1])
           \/ /\ ~Chained(o)
              /\ ~HeadMatches(work[p].boot)
              /\ Move(p, Idle)
              /\ UNCHANGED chain
        /\ UNCHANGED <<store, mirror, outlet, stage, fails>>

\* The D1 mirror: INSERT ... ON CONFLICT(operation_id) DO NOTHING; a second row
\* with the same seq is an error.
MirrorEvent(p) ==
    LET o == work[p].op
    IN  /\ work[p].pc = "mirror"
        /\ IF Mirrored(o)
             THEN /\ Move(p, [At("send", o) EXCEPT !.ev = MirrorSeq(o)])
                  /\ UNCHANGED mirror
             ELSE IF \E r \in mirror : r.seq = work[p].ev
             THEN Move(p, Idle) /\ UNCHANGED mirror
             ELSE /\ mirror' = mirror \cup {[seq |-> work[p].ev, op |-> o]}
                  /\ Move(p, [At("send", o) EXCEPT !.ev = work[p].ev])
        /\ UNCHANGED <<store, chain, outlet, stage, fails>>

SendAudit(p) ==
    /\ work[p].pc = "send"
    /\ queue' = queue \cup {[seq |-> work[p].ev, op |-> work[p].op]}
    /\ Move(p, [work[p] EXCEPT !.pc = "check"])
    /\ UNCHANGED <<store, trail, archive, stage, fails>>

\* the enqueued_at and completed_at checkpoint
Checkpoint(p) ==
    /\ work[p].pc = "check"
    /\ done' = done \cup {work[p].op}
    /\ Move(p, Idle)
    /\ UNCHANGED <<journal, applied, marked, trail, outlet, stage, fails>>

\* A call fails or the worker dies; nothing of what it did is taken back.
Fail(p) ==
    /\ work[p] # Idle
    /\ fails < MaxFail
    /\ fails' = fails + 1
    /\ Move(p, Idle)
    /\ UNCHANGED <<store, trail, outlet, stage>>

(***************************************************************************)
(* archive_admin: the source row is compared first, then the event goes to *)
(* R2 and to the index and the row is marked; a failed delivery stopped    *)
(* somewhere on the way and comes again, and so may one that succeeded.    *)
(***************************************************************************)
Archive(r, upto) ==
    /\ r \in queue
    /\ r \in mirror
    /\ r.seq \in DOMAIN chain /\ chain[r.seq] = r.op
    /\ archive[r.op] < upto
    /\ archive' = [archive EXCEPT ![r.op] = upto]
    /\ UNCHANGED <<store, trail, queue, work, stage, fails>>

Step(p) ==
    \/ CallEffect(p) \/ Mark(p) \/ LoadAudit(p) \/ ReadHead(p)
    \/ AppendAudit(p) \/ MirrorEvent(p) \/ SendAudit(p) \/ Checkpoint(p)

JournalNext ==
    \/ \E p \in Client, o \in Op : Submit(p, o) \/ Replay(p, o)
    \/ \E c \in Cron : CronSide(c) \/ CronPending(c)
    \/ \E p \in Worker : Step(p) \/ Fail(p)
    \/ \E r \in queue, upto \in 1..3 : Archive(r, upto)

JournalSpec == JournalInit /\ [][JournalNext]_journalVars

\* Workers that do not die go on, the cron keeps running and the queue keeps
\* delivering.
CronFairness ==
    /\ \A p \in Worker : WF_journalVars(Step(p))
    /\ \A c \in Cron : WF_journalVars(CronSide(c)) /\ WF_journalVars(CronPending(c))
    /\ WF_journalVars(\E r \in queue : Archive(r, 3))

CronSpec == JournalSpec /\ CronFairness

(***************************************************************************)
(* Properties                                                              *)
(***************************************************************************)
AuditEvent == [seq: Nat \ {0}, op: Op]

\* Tables, queue, archive and worker state keep their types, and only journaled
\* operations are applied, marked or completed.
JournalTypeOK ==
    /\ journal \subseteq Op /\ applied \subseteq journal
    /\ marked \subseteq journal /\ done \subseteq journal
    /\ chain \in Seq(Op) /\ mirror \subseteq AuditEvent
    /\ queue \subseteq AuditEvent /\ archive \in [Op -> 0..3]
    /\ work \in [Worker -> [pc: {"idle", "effect", "mark", "load", "head", "append",
                                 "mirror", "send", "check"},
                            op: Op \cup {NoOperation}, boot: AuditEvent \cup {Genesis}, ev: Nat]]
    /\ stage \in [Cron -> {"side", "pending"}]
    /\ fails \in Nat

\* The mirror in D1 is the chain of AdminAuditDO, or lacks only its last event,
\* whatever handlers and cron runs append at once and wherever they die: no
\* gap, no reordering, no second event for an operation (ensure_audit, append).
MirrorFollowsChain ==
    /\ \A i, j \in DOMAIN chain : chain[i] = chain[j] => i = j
    /\ \A r \in mirror : r.seq \in DOMAIN chain /\ chain[r.seq] = r.op
    /\ \A i \in DOMAIN chain : i < Len(chain) => [seq |-> i, op |-> chain[i]] \in mirror

\* An operation is reported complete only when its side effect took place, its
\* event is in the chain and in the mirror and was handed to the queue; and no
\* event exists for an operation whose side effect did not take place.
CompletedIsRecorded ==
    /\ \A o \in done : \E r \in mirror \cap queue : r.op = o
    /\ \A i \in DOMAIN chain : chain[i] \in journal
    /\ \A i \in DOMAIN chain : chain[i] \in HasEffect => chain[i] \in applied \cap marked

\* What worker p holds from before its last await is still true of the tables.
Holds(p) ==
    LET w == work[p]
    IN  /\ w.pc # "idle" => w.op \in journal
        /\ w.pc = "mark" => w.op \in applied
        /\ w.pc \notin {"idle", "effect", "mark"} /\ w.op \in HasEffect => w.op \in marked
        /\ w.pc = "append" => w.boot \in mirror \cup {Genesis}
        /\ w.pc = "mirror" => w.ev \in DOMAIN chain /\ chain[w.ev] = w.op
        /\ w.pc \in {"send", "check"} => [seq |-> w.ev, op |-> w.op] \in mirror
        /\ w.pc = "check" => [seq |-> w.ev, op |-> w.op] \in queue

\* What the two above rest on: the mirror row a worker saw and the event it was
\* given are still there when it uses them (ensure_audit, finalize).
JournalInv ==
    /\ MirrorFollowsChain
    /\ CompletedIsRecorded
    /\ marked \subseteq applied
    /\ \A p \in Worker : Holds(p)

\* The journal implements an audit trail: an append-only log, shown in order with
\* at most one record behind, in which an operation is reported complete only
\* once it is shown (AdminAuditDO append, ensure_audit, finalize).
Trail == INSTANCE AuditTrail
             WITH log <- chain, shown <- {r.seq : r \in mirror}, complete <- done
TrailSpec == Trail!Spec

\* Every journaled operation is completed and archived in the end.
JournalCompletes == \A o \in Op : o \in journal ~> o \in done /\ archive[o] = 3

\* The event at the end of the chain has no mirror row, and reconcile_pending
\* takes an older operation first, whose append needs that row.
Wedged ==
    /\ chain # <<>> /\ ~Mirrored(chain[Len(chain)])
    /\ \E o \in journal \ done :
         ~EffectPending(o) /\ ~Chained(o) /\ o < chain[Len(chain)]

\* With nobody repeating a request the cron completes and archives every
\* operation, wherever handlers and cron runs die, save in one case: an
\* operation died between its append and its mirror row while an older one was
\* still without an event, and then it stays so (reconcile_pending, finalize).
JournalSettles == JournalCompletes \/ <>[]Wedged
==============================================================================
