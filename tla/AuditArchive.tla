---------------------------- MODULE AuditArchive ----------------------------
(***************************************************************************)
(* Where audit records go after they are written.  The Admin chain of      *)
(* AdminAuditDO (durable/admin_audit.rs) is mirrored in D1; each event of  *)
(* it, and each issuance of an issuer shard, travels through the EVENTS    *)
(* queue (consumer.rs) into an R2 object and a row of audit_index          *)
(* (audit.rs), and POST /v1/admin/audit/verify (audit_admin.rs) replays    *)
(* the mirror.  The queue delivers more than once, the consumer dies       *)
(* between any two of its writes, and D1 rows are lost or changed, as by a *)
(* restore.  Who may append, and when, is in AdminJournal.                 *)
(***************************************************************************)
EXTENDS Integers, FiniteSets, Sequences

CONSTANTS
  AShard,       \* issuer shards
  AMaxAdmin,    \* bound: events of the Admin chain
  AMaxIssued,   \* bound: issuances of a shard
  AMaxMail,     \* bound: deliveries at once
  AMaxHarm      \* bound: damages to D1 rows

ASSUME ABounds == {AMaxAdmin, AMaxIssued, AMaxMail, AMaxHarm} \subseteq Nat

VARIABLES
  auditChain,   \* AdminAuditDO events, after its base
  auditBase,    \* AdminAuditDO chain_base: the head D1 had at the first append
  appended,     \* the event a handler got and has not mirrored yet
  mirrorRows,       \* D1 admin_audit_events
  issueLog,     \* issuance_log of each shard
  mail,         \* deliveries of the queue, each with its consumer's progress
  vault,        \* R2 objects by key
  indexRows,    \* D1 audit_index by sequence number
  acked,        \* events a delivery of which was acknowledged
  harms         \* counter under AMaxHarm

archiveVars == <<auditChain, auditBase, appended, mirrorRows, issueLog, mail, vault, indexRows,
                 acked, harms>>

ISSUER_SHARDS == 8
Admin == -1                       \* the Admin chain, beside the shards 0..7
ZeroHash == << >>

(* A hash tells apart everything that goes into it. *)
HashOf(schema, src, seq, body, prev) == <<schema, src, seq, body, prev>>
Event(schema, src, seq, body, prev) ==
  [schema |-> schema, src |-> src, seq |-> seq, body |-> body, prev |-> prev,
   hash |-> HashOf(schema, src, seq, body, prev)]
NoEvent == Event(0, Admin, 0, "none", ZeroHash)
IsValid(e) == e.seq > 0 /\ e.hash = HashOf(e.schema, e.src, e.seq, e.body, e.prev)

(* audit_r2_key and admin_audit_r2_key *)
KeyOf(e) == <<e.src, e.seq>>

(* audit_index_seq and admin_audit_index_seq: the shards interleave above  *)
(* zero, the Admin chain counts down below it.                             *)
IndexSeq(e) == IF e.src = Admin THEN -e.seq ELSE (e.seq - 1) * ISSUER_SHARDS + e.src + 1

MirrorRow(e) == [event |-> e, hash |-> e.hash, archived |-> FALSE]
NoMirror == MirrorRow(NoEvent)
Mirrored == {s \in DOMAIN mirrorRows : mirrorRows[s] # NoMirror}

(* The event AdminAuditDO has for s; rows up to its base are in D1 alone. *)
Base(seq, hash) == [seq |-> seq, hash |-> hash]
NoBase == Base(-1, ZeroHash)
BaseSeq == IF auditBase = NoBase THEN 0 ELSE auditBase.seq
HasEvent(s) == s - BaseSeq \in DOMAIN auditChain
ChainEvent(s) == auditChain[s - BaseSeq]
HeadOf(log, base) == IF log = << >> THEN base ELSE Base(log[Len(log)].seq, log[Len(log)].hash)

-----------------------------------------------------------------------------
(* Writing the chains *)

(* The newest row of D1, which ensure_audit sends as bootstrap_seq and     *)
(* bootstrap_hash.                                                         *)
Bootstrap ==
  IF Mirrored = {} THEN Base(0, ZeroHash)
  ELSE LET s == CHOOSE s \in Mirrored : \A t \in Mirrored : s >= t
       IN Base(s, mirrorRows[s].hash)

(* ensure_audit and append: the first call sets the base, and each one     *)
(* must come from the head; another head is stale and nothing happens.     *)
AppendEvent ==
  /\ appended = NoEvent
  /\ Bootstrap.seq < AMaxAdmin
  /\ auditBase' = IF auditBase = NoBase THEN Bootstrap ELSE auditBase
  /\ Bootstrap = HeadOf(auditChain, auditBase')
  /\ appended' = Event(2, Admin, Bootstrap.seq + 1, "change", Bootstrap.hash)
  /\ auditChain' = Append(auditChain, appended')
  /\ UNCHANGED <<mirrorRows, issueLog, mail, vault, indexRows, acked, harms>>

MirrorEvent ==
  /\ appended # NoEvent
  /\ mirrorRows[appended.seq] = NoMirror
  /\ mirrorRows' = [mirrorRows EXCEPT ![appended.seq] = MirrorRow(appended)]
  /\ appended' = NoEvent
  /\ UNCHANGED <<auditChain, auditBase, issueLog, mail, vault, indexRows, acked, harms>>

AppendIssued(shard) ==
  LET log == issueLog[shard]
      head == HeadOf(log, Base(0, ZeroHash))
  IN /\ Len(log) < AMaxIssued
     /\ issueLog' = [issueLog EXCEPT ![shard] =
          Append(log, Event(1, shard, head.seq + 1, "issue", head.hash))]
     /\ UNCHANGED <<auditChain, auditBase, appended, mirrorRows, mail, vault, indexRows, acked, harms>>

-----------------------------------------------------------------------------
(* Sending: again whenever the mark of an earlier sending was lost *)

Delivery(e) == [event |-> e, pc |-> "queued"]

SendAdmin(s) ==
  LET row == mirrorRows[s]
  IN /\ row # NoMirror
     /\ IsValid(row.event) /\ row.hash = row.event.hash
     /\ Cardinality(mail) < AMaxMail
     /\ mail' = mail \cup {Delivery(row.event)}
     /\ UNCHANGED <<auditChain, auditBase, appended, mirrorRows, issueLog, vault, indexRows, acked, harms>>

SendIssued(shard, i) ==
  /\ i \in DOMAIN issueLog[shard]
  /\ Cardinality(mail) < AMaxMail
  /\ mail' = mail \cup {Delivery(issueLog[shard][i])}
  /\ UNCHANGED <<auditChain, auditBase, appended, mirrorRows, issueLog, vault, indexRows, acked, harms>>

-----------------------------------------------------------------------------
(* The consumer *)

Progress(m, pc) == mail' = (mail \ {m}) \cup {[m EXCEPT !.pc = pc]}
Ack(m) == mail' = mail \ {m} /\ acked' = acked \cup {m.event}

(* verify_admin_source: the D1 row, and for schema 2 AdminAuditDO /verify. *)
SourceOk(e) ==
  /\ mirrorRows[e.seq].event = e /\ mirrorRows[e.seq].hash = e.hash
  /\ e.schema = 2 => HasEvent(e.seq) /\ ChainEvent(e.seq) = e

CheckSource(m) ==
  /\ m.event.src = Admin /\ m.pc = "queued"
  /\ SourceOk(m.event)
  /\ Progress(m, "sourced")
  /\ UNCHANGED <<auditChain, auditBase, appended, mirrorRows, issueLog, vault, indexRows, acked, harms>>

ReadyToStore(m) == m.pc = IF m.event.src = Admin THEN "sourced" ELSE "queued"

PutAckKnown(m) ==
  LET k == KeyOf(m.event)
  IN /\ ReadyToStore(m)
     /\ IF k \in DOMAIN vault
        THEN vault[k] = m.event /\ Ack(m) /\ UNCHANGED vault
        ELSE /\ vault' = [x \in DOMAIN vault \cup {k} |-> IF x = k THEN m.event ELSE vault[x]]
             /\ Progress(m, "stored") /\ UNCHANGED acked
     /\ UNCHANGED <<auditChain, auditBase, appended, mirrorRows, issueLog, indexRows, harms>>

(* archive_r2: a conditional put; an object already there must be equal. *)
PutArchive(m) ==
  LET k == KeyOf(m.event)
  IN /\ ReadyToStore(m)
     /\ k \in DOMAIN vault => vault[k] = m.event
     /\ vault' = [x \in DOMAIN vault \cup {k} |-> IF x = k THEN m.event ELSE vault[x]]
     /\ Progress(m, "stored")
     /\ UNCHANGED <<auditChain, auditBase, appended, mirrorRows, issueLog, indexRows, acked, harms>>

(* index_d1 and index_admin_d1: insert, or find the same row. *)
PutIndex(m) ==
  LET i == IndexSeq(m.event)
  IN /\ m.pc = "stored"
     /\ i \in DOMAIN indexRows => indexRows[i] = m.event
     /\ indexRows' = [x \in DOMAIN indexRows \cup {i} |-> IF x = i THEN m.event ELSE indexRows[x]]
     /\ IF m.event.src = Admin THEN Progress(m, "indexed") /\ UNCHANGED acked ELSE Ack(m)
     /\ UNCHANGED <<auditChain, auditBase, appended, mirrorRows, issueLog, vault, harms>>

(* mark_admin_archived: only the row that still holds this event. *)
MarkArchived(m) ==
  /\ m.pc = "indexed"
  /\ mirrorRows[m.event.seq].event = m.event
  /\ mirrorRows' = [mirrorRows EXCEPT ![m.event.seq].archived = TRUE]
  /\ Ack(m)
  /\ UNCHANGED <<auditChain, auditBase, appended, issueLog, vault, indexRows, harms>>

(* An error or a death in between: the queue delivers the message again. *)
RetryMail(m) ==
  /\ m.pc # "queued"
  /\ Progress(m, "queued")
  /\ UNCHANGED <<auditChain, auditBase, appended, mirrorRows, issueLog, vault, indexRows, acked, harms>>

-----------------------------------------------------------------------------
(* Damage to a D1 row: lost; changed in its event or in a column; or       *)
(* replaced by a well-formed event of another history.  Until the first    *)
(* append D1 is the only copy there is.                                    *)

Damaged(row, kind) ==
  CASE kind = "lost" -> NoMirror
    [] kind = "event" -> [row EXCEPT !.event.body = "other"]
    [] kind = "column" -> [row EXCEPT !.hash = ZeroHash]
    [] kind = "fork" -> MirrorRow(Event(2, Admin, row.event.seq, "other", row.event.prev))

Harm(s, kind) ==
  /\ harms < AMaxHarm /\ auditBase # NoBase
  /\ mirrorRows[s] # NoMirror
  /\ mirrorRows' = [mirrorRows EXCEPT ![s] = Damaged(mirrorRows[s], kind)]
  /\ harms' = harms + 1
  /\ UNCHANGED <<auditChain, auditBase, appended, issueLog, mail, vault, indexRows, acked>>

-----------------------------------------------------------------------------
(* POST /v1/admin/audit/verify, in one read of the mirror *)

FirstSeq == 1

RowsBefore(s) == {t \in Mirrored : t < s}
RowUnlinked(s, before) ==
  /\ mirrorRows[s].event.seq = s
  /\ s = FirstSeq + Cardinality(before)
  /\ mirrorRows[s].hash = mirrorRows[s].event.hash
  /\ IsValid(mirrorRows[s].event)
(* One row: in sequence, equal to its columns, linked to the row before it *)
(* and with the hash its content has.                                      *)
RowVerified(s, before) ==
  /\ mirrorRows[s].event.seq = s
  /\ s = FirstSeq + Cardinality(before)
  /\ mirrorRows[s].hash = mirrorRows[s].event.hash
  /\ mirrorRows[s].event.prev = IF before = {} THEN ZeroHash ELSE mirrorRows[s - 1].event.hash
  /\ IsValid(mirrorRows[s].event)

Verified == \A s \in Mirrored : RowVerified(s, RowsBefore(s))

-----------------------------------------------------------------------------
(* The chain may have begun with rows of schema 1, before AdminAuditDO. *)
ArchiveInit ==
  /\ auditBase = NoBase /\ auditChain = << >>
  /\ appended = NoEvent
  /\ \E first \in {NoMirror, MirrorRow(Event(1, Admin, 1, "revoke", ZeroHash))} :
       mirrorRows = [s \in 1..AMaxAdmin |-> IF s = 1 THEN first ELSE NoMirror]
  /\ issueLog = [shard \in AShard |-> << >>]
  /\ mail = {}
  /\ vault = << >> /\ indexRows = << >>
  /\ acked = {}
  /\ harms = 0

Consume ==
  \E m \in mail : CheckSource(m) \/ PutArchive(m) \/ PutIndex(m) \/ MarkArchived(m) \/ RetryMail(m)

ArchiveNext ==
  \/ AppendEvent \/ MirrorEvent
  \/ \E shard \in AShard : AppendIssued(shard) \/ \E i \in 1..AMaxIssued : SendIssued(shard, i)
  \/ \E s \in 1..AMaxAdmin : SendAdmin(s)
  \/ Consume
  \/ \E s \in 1..AMaxAdmin, kind \in {"lost", "event", "column", "fork"} : Harm(s, kind)

ArchiveSpec == ArchiveInit /\ [][ArchiveNext]_archiveVars

-----------------------------------------------------------------------------
(* Properties *)

(* Every R2 object is the record its writer appended, under the key of its *)
(* place, although archive_admin is handed events read back from D1 and D1 *)
(* may have been damaged or restored from another history in between.      *)
(* Events of schema 1 have D1 as their only source.                        *)
ArchiveIsAuthentic ==
  \A k \in DOMAIN vault :
    IF k[1] # Admin THEN vault[k] = issueLog[k[1]][k[2]]
    ELSE vault[k].schema = 2 => HasEvent(k[2]) /\ vault[k] = ChainEvent(k[2])

(* No delivery ever finds another event in its audit_index slot or under   *)
(* its R2 key, which would be retried until the queue gives up: the eight  *)
(* shards and the Admin chain share one integer sequence (audit_index_seq).*)
ArchiveNeverConflicts ==
  \A m \in mail :
    /\ (m.pc = "stored" /\ IndexSeq(m.event) \in DOMAIN indexRows)
         => indexRows[IndexSeq(m.event)] = m.event
    /\ (ReadyToStore(m) /\ m.event.schema = 2 /\ KeyOf(m.event) \in DOMAIN vault)
         => vault[KeyOf(m.event)] = m.event

(* An acknowledged event is in R2 and in audit_index, and archived_at is   *)
(* only set on a row whose event is, wherever a consumer died before and   *)
(* however often the message came (archive, archive_admin).                *)
AckedIsIndexed ==
  /\ \A e \in acked : /\ KeyOf(e) \in DOMAIN vault /\ vault[KeyOf(e)] = e
                      /\ IndexSeq(e) \in DOMAIN indexRows /\ indexRows[IndexSeq(e)] = e
  /\ \A s \in Mirrored : mirrorRows[s].archived => KeyOf(mirrorRows[s].event) \in DOMAIN vault

(* What verify vouches for: when it finds no broken row, every row before  *)
(* one that AdminAuditDO also has is there and unchanged, down to the row  *)
(* its chain began on.                                                     *)
VerifiedIsPrefix ==
  Verified =>
    \A s \in Mirrored : (HasEvent(s) /\ mirrorRows[s].event = ChainEvent(s)) =>
      \A t \in 1..(s - 1) : /\ t \in Mirrored
                            /\ HasEvent(t) => mirrorRows[t].event = ChainEvent(t)
                            /\ t = BaseSeq => mirrorRows[t].event.hash = auditBase.hash

(* verify reports an undamaged mirror as verified, in the middle of any    *)
(* append and with or without rows from before AdminAuditDO.               *)
IntactVerifies == harms = 0 => Verified

(* The archive has what was audited and nothing else: its records come     *)
(* from the chains, two chains never claim one place, and an acknowledged  *)
(* message is indexed (archive, archive_admin).                            *)
ArchiveFaithful == ArchiveIsAuthentic /\ ArchiveNeverConflicts /\ AckedIsIndexed

(* Verification accepts an untouched mirror, whatever is being appended    *)
(* meanwhile, and accepts nothing but a prefix of the chain (verify).      *)
VerifyIsExact == VerifiedIsPrefix /\ IntactVerifies
=============================================================================
