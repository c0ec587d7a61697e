------------------------------ MODULE Issuance ------------------------------
(***************************************************************************)
(* The issuance of a signed artifact across the Worker (router.rs,         *)
(* offline.rs), the LicenseDO (reserve and complete), one shard of the     *)
(* IssuerDO (durable/issuer.rs) and the audit archive fed by the queue     *)
(* (consumer.rs, audit.rs).                                                *)
(*                                                                         *)
(* Requests of one device activate online or over the air-gapped relay;    *)
(* every request is one handler whose awaits are its steps.  A handler may *)
(* die at any await and the sender repeats the request with the same       *)
(* Idempotency-Key.  Machine ids, credential secrets and nonces drawn by a *)
(* handler are named by the handler.  Beside them the operator rotates the *)
(* epoch signing key, which lives in D1 (the certificate) and in the       *)
(* Secrets Store (the key), two stores that change one after the other.    *)
(***************************************************************************)
EXTENDS Naturals, Sequences

CONSTANTS Attempt,      \* request handlers, as numbers from 1
          IssueKey,     \* client Idempotency-Keys, as numbers from 1
          RelayKeys,    \* the keys whose requests come over the offline relay
          BatchKeys,    \* the keys that stand for revocation batches, not requests
          Rotations,    \* bound on the epoch key rotations
          Expiries      \* bound on the expiries of the issuer's idem rows, and of each
                        \* key's row at the LicenseDO

ASSUME IssuanceAssumption ==
    /\ Attempt \subseteq Nat \ {0} /\ IssueKey \subseteq Nat \ {0}
    /\ RelayKeys \subseteq IssueKey /\ BatchKeys \subseteq IssueKey \ RelayKeys
    /\ Rotations \in Nat /\ Expiries \in Nat

VARIABLES
    seat,         \* the LicenseDO's activation row of the device
    resv,         \* its idem rows "reserve:<key>"
    days,         \* how often the key's row has been reclaimed: each time at least
                  \* a day has gone by
    chain,        \* the IssuerDO's issuance_log
    signed,       \* its idem rows: the envelopes it would replay
    unsent,       \* outbox rows of the IssuerDO not yet sent: sequence numbers
    events,       \* messages of the EVENTS queue: <<seq, chain entry>>
    archive,      \* R2 objects by the chain's sequence number
    auditIndex,   \* D1 audit_index rows by sequence number
    written,      \* write-once objects: R2 offline/<license>/<nonce>.aresp of a
                  \* relay key, KV rev:batch:<cursor> of a batch key
    epochRow,     \* newest epoch certificate in D1
    epochKey,     \* epoch of the key in the Secrets Store
    expired,      \* number of idem rows of the IssuerDO reclaimed
    att,          \* the handlers
    answered,     \* <<key, day, bytes>> of every answer a sender got
    issued,       \* history: the credentials /complete stored
    suspicion,    \* the LicenseDO's stored suspicion reaches the threshold
    alerts,       \* suspicion alerts enqueued
    rises         \* history: how often the score rose to the threshold

issuanceVars == <<seat, resv, days, chain, signed, unsent, events, archive,
                  auditIndex, written, epochRow, epochKey, expired, att, answered,
                  issued, suspicion, alerts, rises>>

(* What is signed: `n` stands for the handler's fresh randomness and clock, *)
(* `of` is the credential an ActivationResponse wraps, `after` the          *)
(* refresh_after of a credential, of which the day is kept.                 *)
Artifact(kind, key, n, of, machine, secret, after, epoch) ==
    [kind |-> kind, key |-> key, n |-> n, of |-> of,
     machine |-> machine, secret |-> secret, after |-> after, epoch |-> epoch]

Nothing == Artifact("none", 0, 0, 0, 0, 0, 0, 0)
BatchOf(k) == Artifact("batch", k, 0, 0, 0, 0, 0, 0)

Envelope(tbs, by) == [tbs |-> tbs, by |-> by]
NoEnvelope == Envelope(Nothing, 0)

Seat(status, machine, secret) == [status |-> status, machine |-> machine, secret |-> secret]
NoSeat == Seat("none", 0, 0)

Reservation(machine, secret, after, env) ==
    [machine |-> machine, secret |-> secret, after |-> after, env |-> env]
NoReservation == Reservation(0, 0, 0, NoEnvelope)

(* A handler: where it is, its key and signing epoch, the machine of its    *)
(* reservation, what it has signed and the envelope it holds.               *)
Handler(pc, key, epoch, machine, tbs, env) ==
    [pc |-> pc, key |-> key, epoch |-> epoch, machine |-> machine, tbs |-> tbs, env |-> env]
Over(pc) == Handler(pc, 0, 0, 0, Nothing, NoEnvelope)
NoAttempt == Over("idle")

IssuanceInit ==
    /\ seat = NoSeat
    /\ resv = [k \in IssueKey |-> NoReservation] /\ days = [k \in IssueKey |-> 0]
    /\ chain = << >> /\ signed = {} /\ unsent = {} /\ events = {}
    /\ archive = << >> /\ auditIndex = << >>
    /\ written = [k \in IssueKey |-> NoEnvelope]
    /\ epochRow = 1 /\ epochKey = 1 /\ expired = 0
    /\ att = [a \in Attempt |-> NoAttempt]
    /\ answered = {} /\ issued = {} /\ suspicion = FALSE /\ alerts = 0 /\ rises = 0

LicenseSide == <<seat, resv, days, issued>>
IssuerSide == <<chain, signed, unsent, expired>>
ArchiveSide == <<events, archive, auditIndex>>
KeySide == <<epochRow, epochKey>>
AlertSide == <<suspicion, alerts, rises>>

-----------------------------------------------------------------------------
(* The Worker's activation handler and the LicenseDO. *)

(* Handlers are interchangeable, so they start in the order of their        *)
(* numbers.  The signing epoch is the newest certificate D1 lists.  A       *)
(* revocation batch has one form whoever builds it: its fields come from    *)
(* the reserved row.                                                        *)
StartAttempt(a, k) ==
    /\ att[a].pc = "idle"
    /\ \A b \in Attempt : b < a => att[b].pc # "idle"
    /\ att' = [att EXCEPT ![a] =
                 IF k \in BatchKeys
                 THEN Handler("sign", k, 0, 0, BatchOf(k), NoEnvelope)
                 ELSE Handler("reserve", k, epochRow, 0, Nothing, NoEnvelope)]
    /\ UNCHANGED <<LicenseSide, IssuerSide, ArchiveSide, KeySide, AlertSide, written, answered>>

(* The handler goes on at pc with the envelope env.                         *)
Turn(a, pc, env) ==
    Handler(pc, att[a].key, att[a].epoch, att[a].machine, att[a].tbs, env)

(* The ActivationResponse of handler a around the credential it answers.    *)
Response(a, tbs) ==
    Artifact("response", tbs.key, a, tbs.n, tbs.machine, tbs.secret, tbs.after,
             tbs.epoch)

(* The answer of an activation: the envelope, or over the relay an          *)
(* ActivationResponse around it, which is signed next.                      *)
Answer(a, env) ==
    IF att[a].key \in RelayKeys
    THEN /\ att' = [att EXCEPT ![a] = Handler("sign", att[a].key, att[a].epoch, att[a].machine,
                                              Response(a, env.tbs), env)]
         /\ UNCHANGED answered
    ELSE /\ att' = [att EXCEPT ![a] = Over("done")]
         /\ answered' = answered \union {<<att[a].key, days[att[a].key], env>>}

(* The secret the handler seals for the device is the reservation's, not    *)
(* the candidate it drew itself.                                            *)
SealedSecret(a, r) == r.secret

(* What the handler asks the IssuerDO to sign once it has reservation r.    *)
Credential(a, r) ==
    Handler("sign", att[a].key, att[a].epoch, r.machine,
            Artifact("credential", att[a].key, a, 0, r.machine,
                     SealedSecret(a, r), r.after, att[a].epoch),
            NoEnvelope)

SeatLive == seat.status \in {"pending", "active"}
Replays(k) ==
    /\ resv[k].machine # 0
    /\ resv[k].env # NoEnvelope \/ (SeatLive /\ seat.machine = resv[k].machine)

(* /reserve: an issued key answers its envelope, a key of a live row its    *)
(* reservation.  Otherwise the key is reserved anew: for the machine that   *)
(* already holds the device's seat, or for the candidate; a seat another    *)
(* key still has pending refuses.                                           *)
Reserve(a) ==
    LET k == att[a].key
        r == Reservation(IF SeatLive THEN seat.machine ELSE a, a, days[k], NoEnvelope) IN
    /\ att[a].pc = "reserve"
    /\ \/ /\ Replays(k) /\ resv[k].env # NoEnvelope
          /\ Answer(a, resv[k].env)
          /\ UNCHANGED LicenseSide
       \/ /\ Replays(k) /\ resv[k].env = NoEnvelope
          /\ att' = [att EXCEPT ![a] = Credential(a, resv[k])]
          /\ UNCHANGED <<LicenseSide, answered>>
       \/ /\ ~Replays(k) /\ seat.status = "pending"
          /\ att' = [att EXCEPT ![a] = Over("refused")]
          /\ UNCHANGED <<LicenseSide, answered>>
       \/ /\ ~Replays(k) /\ seat.status # "pending"
          /\ resv' = [resv EXCEPT ![k] = r]
          /\ seat' = IF SeatLive THEN seat ELSE Seat("pending", a, a)
          /\ att' = [att EXCEPT ![a] = Credential(a, r)]
          /\ UNCHANGED <<days, issued, answered>>
    /\ UNCHANGED <<IssuerSide, ArchiveSide, KeySide, AlertSide, written>>

(* /complete: the first completion of a key decides its envelope; a later   *)
(* one is answered with that envelope.                                      *)
Completion(a) == IF resv[att[a].key].env # NoEnvelope THEN resv[att[a].key].env ELSE att[a].env
CompletionAnswer(a) == Completion(a)

(* completion_matches: a first completion is for the terms its row was      *)
(* reserved on.  A row made anew a day later has another refresh_after.     *)
CompletionUnmatched(a) == TRUE
CompletionMatches(a) == att[a].tbs.after = resv[att[a].key].after

Finish(a) ==
    LET k == att[a].key
        ok == resv[k].machine = att[a].machine
              /\ (resv[k].env # NoEnvelope
                  \/ (CompletionMatches(a) /\ SeatLive /\ seat.machine = att[a].machine)) IN
    /\ att[a].pc = "complete"
    /\ IF ~ok
       THEN /\ att' = [att EXCEPT ![a] = Over("refused")]
            /\ UNCHANGED <<LicenseSide, answered>>
       ELSE /\ Answer(a, CompletionAnswer(a))
            /\ resv' = [resv EXCEPT ![k] = Reservation(resv[k].machine, resv[k].secret,
                                                       resv[k].after, Completion(a))]
            /\ issued' = issued \union {Completion(a).tbs}
            /\ seat' = IF resv[k].env # NoEnvelope THEN seat
                       ELSE Seat("active", att[a].machine, resv[k].secret)
            /\ UNCHANGED days
    /\ UNCHANGED <<IssuerSide, ArchiveSide, KeySide, AlertSide, written>>

(* The seat ends: the pending timeout, a deactivation or a revocation.      *)
SeatEnds ==
    /\ SeatLive
    /\ seat' = Seat("ended", seat.machine, seat.secret)
    /\ UNCHANGED <<resv, days, issued, IssuerSide, ArchiveSide, KeySide, AlertSide, written, att,
                   answered>>

(* reclaim: the row of a key goes a day after it was made, whoever has      *)
(* replayed it in the meantime and is still under way.                      *)
ReserveExpires(k) ==
    /\ resv[k].machine # 0 /\ days[k] < Expiries
    /\ resv' = [resv EXCEPT ![k] = NoReservation]
    /\ days' = [days EXCEPT ![k] = @ + 1]
    /\ UNCHANGED <<seat, issued, IssuerSide, ArchiveSide, KeySide, AlertSide, written, att, answered>>

-----------------------------------------------------------------------------
(* The IssuerDO. *)

(* The idem row of an artifact: its key is the hash of the bytes to sign.   *)
Replayed(tbs) == \E e \in signed : e.tbs = tbs
ReplayOf(tbs) == CHOOSE e \in signed : e.tbs = tbs

(* Where the handler continues with an envelope from the issuer.            *)
Continues(a, env) ==
    CASE att[a].tbs.kind = "credential" -> Turn(a, "complete", env)
      [] att[a].tbs.kind \in {"response", "batch"} -> Turn(a, "write", env)
      [] OTHER -> Over("done")
Signed(a, env) == att' = [att EXCEPT ![a] = Continues(a, env)]

(* sign, up to the await of the Secrets Store. *)
SignLookup(a) ==
    /\ att[a].pc = "sign"
    /\ IF Replayed(att[a].tbs) THEN Signed(a, ReplayOf(att[a].tbs))
                               ELSE att' = [att EXCEPT ![a] = Turn(a, "key", att[a].env)]
    /\ UNCHANGED <<LicenseSide, IssuerSide, ArchiveSide, KeySide, AlertSide, written, answered>>

(* validate_tbs: artifacts that name an epoch must name the key's.          *)
EpochFits(tbs) == tbs.kind \in {"batch", "kill"} \/ tbs.epoch = epochKey

(* append_issuance: log, outbox and idem rows in one synchronous section.   *)
AppendWithoutOutbox(env) ==
    /\ chain' = Append(chain, env)
    /\ signed' = signed \union {env}
    /\ UNCHANGED <<unsent, expired>>
AppendIssuance(env) ==
    /\ chain' = Append(chain, env)
    /\ signed' = signed \union {env}
    /\ unsent' = unsent \union {Len(chain) + 1}
    /\ UNCHANGED expired

(* sign, after the await: the key is there, the artifact is checked, the    *)
(* idem row is looked up again and the issuance appended.                   *)
SignAppend(a) ==
    LET tbs == att[a].tbs
        env == Envelope(tbs, epochKey) IN
    /\ att[a].pc = "key"
    /\ IF ~EpochFits(tbs)
       THEN /\ att' = [att EXCEPT ![a] = Turn(a, "unsigned", att[a].env)]
            /\ UNCHANGED IssuerSide
       ELSE IF Replayed(tbs)
            THEN Signed(a, ReplayOf(tbs)) /\ UNCHANGED IssuerSide
            ELSE Signed(a, env) /\ AppendIssuance(env)
    /\ UNCHANGED <<LicenseSide, ArchiveSide, KeySide, AlertSide, written, answered>>

(* reclaim: an idem row goes a day after it was made.                       *)
IdemExpires ==
    /\ expired < Expiries
    /\ \E e \in signed : signed' = signed \ {e}
    /\ expired' = expired + 1
    /\ UNCHANGED <<LicenseSide, chain, unsent, ArchiveSide, KeySide, AlertSide, written, att, answered>>

(* flush_outbox: a row is sent and then marked; when the object dies in     *)
(* between, the row is sent again.                                          *)
FlushOne(marked) ==
    /\ \E i \in unsent :
         /\ \A j \in unsent : i <= j
         /\ events' = events \union {<<i, chain[i]>>}
         /\ unsent' = IF marked THEN unsent \ {i} ELSE unsent
    /\ UNCHANGED <<LicenseSide, chain, signed, expired, archive, auditIndex, KeySide,
                   AlertSide, written, att, answered>>

-----------------------------------------------------------------------------
(* The audit archive, fed by the queue in any order and more than once. *)

AtSeq(f, i) == IF i \in DOMAIN f THEN f[i] ELSE NoEnvelope
Put(f, i, env) == [j \in DOMAIN f \union {i} |-> IF j = i THEN env ELSE f[j]]

(* archive_r2: a write-once object; equal bytes are accepted.               *)
ArchiveR2(m) ==
    /\ AtSeq(archive, m[1]) = NoEnvelope
    /\ archive' = Put(archive, m[1], m[2])
    /\ UNCHANGED <<LicenseSide, IssuerSide, events, auditIndex, KeySide, AlertSide,
                   written, att, answered>>

(* index_d1, once the object is there with these bytes, then the ack; when  *)
(* the ack is lost the message comes again.                                 *)
Archived(m) == AtSeq(archive, m[1]) = m[2]
IndexD1(m, acked) ==
    /\ Archived(m)
    /\ AtSeq(auditIndex, m[1]) \in {NoEnvelope, m[2]}
    /\ auditIndex' = Put(auditIndex, m[1], m[2])
    /\ events' = IF acked THEN events \ {m} ELSE events
    /\ UNCHANGED <<LicenseSide, IssuerSide, archive, KeySide, AlertSide, written, att, answered>>

-----------------------------------------------------------------------------
(* Write-once objects, rotation, validation. *)

(* archive_activation_response: the object of the request's nonce, when it  *)
(* exists, is the answer.                                                   *)
RelayAnswer(a) == IF written[att[a].key] = NoEnvelope THEN att[a].env ELSE written[att[a].key]
RelayWrite(a) ==
    LET k == att[a].key IN
    /\ att[a].pc = "write" /\ k \in RelayKeys
    /\ answered' = answered \union {<<k, days[k], RelayAnswer(a)>>}
    /\ written' = [written EXCEPT ![k] = IF @ = NoEnvelope THEN att[a].env ELSE @]
    /\ att' = [att EXCEPT ![a] = Over("done")]
    /\ UNCHANGED <<LicenseSide, IssuerSide, ArchiveSide, KeySide, AlertSide>>

(* publish_batch: the immutable batch key takes the first bytes; other      *)
(* bytes fail the publication.                                              *)
PublishBatch(a) ==
    LET k == att[a].key IN
    /\ att[a].pc = "write" /\ k \in BatchKeys
    /\ written' = [written EXCEPT ![k] = IF @ = NoEnvelope THEN att[a].env ELSE @]
    /\ att' = [att EXCEPT ![a] = Over(IF written[k] \in {NoEnvelope, att[a].env}
                                      THEN "done" ELSE "conflict")]
    /\ UNCHANGED <<LicenseSide, IssuerSide, ArchiveSide, KeySide, AlertSide, answered>>

(* The operator registers the next epoch certificate and replaces the key,  *)
(* in either order, one rotation at a time.                                 *)
RotateRow ==
    /\ epochRow <= epochKey /\ epochRow <= Rotations
    /\ epochRow' = epochRow + 1
    /\ UNCHANGED <<LicenseSide, IssuerSide, ArchiveSide, epochKey, AlertSide, written, att, answered>>
RotateKey ==
    /\ epochKey <= epochRow /\ epochKey <= Rotations
    /\ epochKey' = epochKey + 1
    /\ UNCHANGED <<LicenseSide, IssuerSide, ArchiveSide, epochRow, AlertSide, written, att, answered>>

(* validate: the LicenseDO scores the check-in and hands back the previous  *)
(* score, the handler alerts on the rising edge and has a ticket signed,    *)
(* its KEKs wrapped under the seat's secret, or a kill order for a          *)
(* compromised release.  Under a policy of fast signatures the Worker signs *)
(* itself and the IssuerDO never hears of it (sign_online_artifact).        *)
Alerts(previous, score) == score /\ ~previous
Validate(a, score, kind, fast) ==
    /\ att[a].pc = "idle" /\ \A b \in Attempt : b < a => att[b].pc # "idle"
    /\ seat.status = "active"
    /\ suspicion' = score
    /\ rises' = rises + IF score /\ ~suspicion THEN 1 ELSE 0
    /\ alerts' = alerts + IF kind = "ticket" /\ Alerts(suspicion, score) THEN 1 ELSE 0
    /\ att' = [att EXCEPT ![a] =
                 IF fast THEN Over("done")
                 ELSE Handler("sign", 0, 0, 0,
                              Artifact(kind, 0, a, 0, seat.machine, seat.secret, 0, epochRow),
                              NoEnvelope)]
    /\ UNCHANGED <<LicenseSide, IssuerSide, ArchiveSide, KeySide, written, answered>>

(* The handler dies at an await.                                            *)
Dies(a) ==
    /\ att[a].pc \in {"reserve", "sign", "key", "complete", "write"}
    /\ att' = [att EXCEPT ![a] = Over("dead")]
    /\ UNCHANGED <<LicenseSide, IssuerSide, ArchiveSide, KeySide, AlertSide, written, answered>>

(* The steps of requests with the given keys, and those of the archive.     *)
RequestStep(keys) ==
    \/ \E a \in Attempt :
         \/ \E k \in keys : StartAttempt(a, k)
         \/ Reserve(a) \/ Finish(a) \/ SignLookup(a) \/ SignAppend(a)
         \/ RelayWrite(a) \/ PublishBatch(a) \/ Dies(a)
    \/ SeatEnds
ForgetStep == IdemExpires \/ \E k \in IssueKey : ReserveExpires(k)
RotateStep == RotateRow \/ RotateKey
BatchStep == RequestStep(BatchKeys) \/ ForgetStep \/ RotateStep
ValidateStep ==
    \E a \in Attempt, score \in BOOLEAN, kind \in {"ticket", "kill"}, fast \in BOOLEAN :
        Validate(a, score, kind, fast)
ArchiveStep ==
    \/ \E marked \in BOOLEAN : FlushOne(marked)
    \/ \E m \in events : ArchiveR2(m) \/ \E acked \in BOOLEAN : IndexD1(m, acked)

IssuanceNext == RequestStep(IssueKey) \/ RotateStep \/ ForgetStep \/ ValidateStep \/ ArchiveStep

IssuanceSpec == IssuanceInit /\ [][IssuanceNext]_issuanceVars

-----------------------------------------------------------------------------
(* Properties. *)

(* Every answer to one Idempotency-Key has the same bytes, however many     *)
(* handlers worked on it, died or overlapped: online as long as the         *)
(* LicenseDO keeps the key's row, since issue_activation answers what       *)
(* /complete stored; over the relay for ever, since the object of the       *)
(* request's nonce outlives the row.                                        *)
SameAnswer ==
    \A x, y \in answered :
        x[1] = y[1] /\ (x[1] \in RelayKeys \/ x[2] = y[2]) => x[3] = y[3]

(* The credential a key was issued carries the machine id and the secret    *)
(* its reservation stores, and an active seat wraps under the secret of a   *)
(* credential that was really issued for it: what validate wraps later can  *)
(* be opened with what some completed activation of the device sealed,      *)
(* although a row may be reclaimed and made anew under a handler that has   *)
(* replayed it (completion_matches).                                        *)
CredentialMatchesSeat ==
    /\ \A k \in IssueKey : resv[k].env # NoEnvelope =>
         /\ resv[k].env.tbs.machine = resv[k].machine
         /\ resv[k].env.tbs.secret = resv[k].secret
    /\ seat.status = "active" =>
         \E tbs \in issued : tbs.machine = seat.machine /\ tbs.secret = seat.secret

(* Every signature is made with the key of the epoch its artifact names,    *)
(* although the handler read the epoch from D1 before the key was loaded    *)
(* and a rotation may lie between (validate_tbs).                           *)
SignedByItsEpoch ==
    \A i \in DOMAIN chain :
        chain[i].tbs.kind \in {"credential", "response", "ticket"} =>
            chain[i].tbs.epoch = chain[i].by

(* The issuance chain records one entry per artifact: two requests that     *)
(* both waited for the signing key append once, until the idem row has      *)
(* expired.                                                                 *)
OneEntryPerArtifact ==
    expired = 0 => \A i, j \in DOMAIN chain : chain[i].tbs = chain[j].tbs => i = j

(* No entry of the issuance chain is lost on its way to the archive: it is  *)
(* in the outbox, in the queue or indexed (flush_outbox, consume).          *)
AuditNotLost ==
    \A i \in DOMAIN chain :
        i \in unsent \/ (\E m \in events : m[1] = i) \/ AtSeq(auditIndex, i) = chain[i]

(* What the index lists is in the archive with the bytes of the chain,      *)
(* under at-least-once delivery in any order (archive_r2, index_d1).        *)
IndexedIsArchived ==
    \A i \in DOMAIN auditIndex : auditIndex[i] = chain[i] /\ AtSeq(archive, i) = chain[i]

(* The relay may repeat a request whose answer was lost: a request whose    *)
(* credential is stored is answered again.  (A rotation of the epoch key    *)
(* between the two makes the IssuerDO refuse the wrapped credential.)       *)
RelayMayRetry ==
    \A a \in Attempt : att[a].pc = "unsigned" => att[a].tbs.kind # "response"

(* A recovered revocation finds its own bytes under the immutable batch     *)
(* key.  Only when the signer's idem row has expired and the key has been   *)
(* rotated since does the second signature differ and publication stop.     *)
ConflictNeedsExpiry ==
    (\E a \in Attempt : att[a].pc = "conflict") => expired > 0 /\ epochKey > 1

(* One suspicion alert per rise of the score to the threshold, whatever     *)
(* check-ins overlap (maybe_enqueue_suspicion_alert).                       *)
AlertPerRise == alerts <= rises

(* Attempts at one activation that overlap, die and are repeated across a  *)
(* rotation get one answer while the key's row is kept, and over the relay *)
(* for ever; however rows expire, an answered credential is that of the    *)
(* seat, signed by the key of the epoch it names; and a repeated           *)
(* publication finds its own bytes unless the signer has forgotten them    *)
(* (activate, sign, complete, reclaim, publish_batch).                     *)
AnswersAgree == SameAnswer /\ CredentialMatchesSeat /\ SignedByItsEpoch /\ ConflictNeedsExpiry

(* Every artifact the IssuerDO signs has one entry of the issuance chain,  *)
(* which is waiting, under way or archived, and indexed only once it is    *)
(* archived; a rise of the score has one alert at most (sign,              *)
(* flush_outbox, archive, maybe_enqueue_suspicion_alert).                  *)
IssuanceAudited == AuditNotLost /\ OneEntryPerArtifact /\ IndexedIsArchived /\ AlertPerRise

-----------------------------------------------------------------------------
(* What the two rest on. *)

Tbs == [kind: {"none", "credential", "response", "batch", "ticket", "kill"}, key: Nat, n: Nat,
        of: Nat, machine: Nat, secret: Nat, after: Nat, epoch: Nat]
Envelopes == [tbs: Tbs, by: Nat]
Handlers == [pc: {"idle", "reserve", "sign", "key", "complete", "write", "done", "refused",
                  "unsigned", "conflict", "dead"},
             key: Nat, epoch: Nat, machine: Nat, tbs: Tbs, env: Envelopes]

(* Every row, object and handler keeps its type.                            *)
IssuanceTypeOK ==
    /\ seat \in [status: {"none", "pending", "active", "ended"}, machine: Nat, secret: Nat]
    /\ resv \in [IssueKey -> [machine: Nat, secret: Nat, after: Nat, env: Envelopes]]
    /\ days \in [IssueKey -> Nat] /\ issued \subseteq Tbs
    /\ chain \in Seq(Envelopes) /\ signed \subseteq Envelopes
    /\ written \in [IssueKey -> Envelopes]
    /\ epochRow \in Nat /\ epochKey \in Nat \ {0} /\ expired \in Nat
    /\ att \in [Attempt -> Handlers]

(* What waits, travels or is archived is the chain's entry, and until a row *)
(* expires the signer remembers every entry.                                *)
AuditInv ==
    /\ unsent \subseteq DOMAIN chain
    /\ \A m \in events : m[1] \in DOMAIN chain /\ m = <<m[1], chain[m[1]]>>
    /\ \A i \in DOMAIN archive : i \in DOMAIN chain /\ archive[i] = chain[i]
    /\ \A i \in DOMAIN auditIndex : i \in DOMAIN chain
    /\ expired = 0 => \A i \in DOMAIN chain : chain[i] \in signed
    /\ alerts \in Nat /\ rises \in Nat

(* A machine id is drawn by the handler it is named after, once.            *)
Drawn(hs, m) == m \in Attempt /\ hs[m].pc \notin {"idle", "reserve"}
HoldsSeat(s, m) == s.status \in {"pending", "active"} /\ s.machine = m

(* A handler that carries a credential got it from its key's reservation,   *)
(* which since then has been reclaimed, has kept its secret or has lost its *)
(* seat for good.                                                           *)
CarriesCredential(h, hs, rs, s, d) ==
    /\ h.key \in IssueKey \ BatchKeys
    /\ h.tbs.kind = "credential" /\ h.tbs.machine = h.machine
    /\ Drawn(hs, h.machine)
    /\ h.tbs.after <= d[h.key]
    /\ h.tbs.after = d[h.key] =>
         IF rs[h.key].machine = h.machine THEN h.tbs.secret = rs[h.key].secret
                                          ELSE ~HoldsSeat(s, h.machine)

CarriesResponse(h) == h.key \in RelayKeys /\ h.tbs.kind = "response"
CarriesBatch(h) == h.key \in BatchKeys /\ h.tbs = BatchOf(h.key)

(* An envelope the signer made: with a key up to the present one, and       *)
(* remembered as long as nothing has expired.                               *)
Made(env, known, epoch, gone) == env.by \in 1..epoch /\ (gone = 0 => env \in known)

(* What a handler has to be, beside the handlers hs, the reservations rs,   *)
(* the seat s, the days d, the signer's rows known, its epoch, and the      *)
(* number gone of the rows it dropped.                                      *)
HandlerInv(h, hs, rs, s, d, known, epoch, gone) ==
    /\ h.pc = "reserve" => h.key \in IssueKey \ BatchKeys
    /\ h.pc \in {"sign", "key"} =>
         \/ CarriesCredential(h, hs, rs, s, d) \/ CarriesResponse(h) \/ CarriesBatch(h)
         \/ h.tbs.kind \in {"ticket", "kill"}
    /\ h.pc = "complete" => CarriesCredential(h, hs, rs, s, d) /\ h.env.tbs = h.tbs
    /\ h.pc = "write" =>
         /\ h.env.tbs = h.tbs /\ Made(h.env, known, epoch, gone)
         /\ CarriesResponse(h) \/ CarriesBatch(h)

HandlersInv ==
    \A a \in Attempt : HandlerInv(att[a], att, resv, seat, days, signed, epochKey, expired)

(* The seat and the reservations name drawn machines, and an envelope is    *)
(* stored for a machine.                                                    *)
SeatInv ==
    /\ seat.machine # 0 => Drawn(att, seat.machine)
    /\ seat.status \in {"pending", "active"} => seat.machine # 0
    /\ \A k \in IssueKey :
         /\ resv[k].machine # 0 => Drawn(att, resv[k].machine) /\ resv[k].after = days[k]
         /\ resv[k].env # NoEnvelope => resv[k].machine # 0

(* An answer over the relay is what the request's object stores, for good;  *)
(* one online what the key's row stores until it is reclaimed.              *)
AnsweredInv ==
    \A x \in answered :
        /\ x[1] \in IssueKey /\ x[2] \in Nat /\ x[2] <= days[x[1]]
        /\ x[1] \in RelayKeys => written[x[1]] # NoEnvelope /\ x[3] = written[x[1]]
        /\ x[1] \notin RelayKeys /\ x[2] = days[x[1]] =>
             resv[x[1]].env # NoEnvelope /\ x[3] = resv[x[1]].env

(* A batch object holds the batch as the signer made it, and the signer     *)
(* remembers one envelope of an artifact.                                   *)
SignerInv ==
    /\ \A k \in BatchKeys : written[k] # NoEnvelope =>
         written[k].tbs = BatchOf(k) /\ Made(written[k], signed, epochKey, expired)
    /\ \A e \in signed : e.by \in 1..epochKey
    /\ \A e, f \in signed : e.tbs = f.tbs => e = f

(* The inductive invariant of AnswersAgree.                                 *)
AnswerInv ==
    /\ IssuanceTypeOK /\ HandlersInv /\ SeatInv /\ AnsweredInv /\ SignerInv /\ SameAnswer
    /\ CredentialMatchesSeat /\ SignedByItsEpoch /\ ConflictNeedsExpiry
=============================================================================
