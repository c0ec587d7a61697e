----------------------------- MODULE EpochAdmin -----------------------------
(***************************************************************************)
(* Epoch administration (admin_resources/epochs.rs): upload of a root      *)
(* signed epoch certificate, revocation of an epoch after the confirmation *)
(* of two distinct actors inside a window, and the side effects of both:   *)
(* the signed revocation batch and the keyset clients fetch from KV.       *)
(*                                                                         *)
(* A handler reads D1 in several awaits and commits one atomic batch that  *)
(* inserts the next entity version (and, for a revocation, the next        *)
(* sequence number) and fails as a whole when another batch took it.  The  *)
(* side effect of a committed operation is run by the handler and, when    *)
(* the handler dies, by the cron; both at once is possible.                *)
(***************************************************************************)
EXTENDS Naturals, FiniteSets, Sequences

CONSTANTS EpochHandler, Actor,
          EpochIds,      \* epoch ids, as numbers from 1
          Uploaded,      \* the epochs registered at the start
          ApprovalWindow, EpochTime,   \* approval window, bound on the clock
          MaxSeq         \* bound on the revocation sequence

ASSUME EpochAssumption ==
    /\ EpochIds \subseteq Nat \ {0} /\ Uploaded \subseteq EpochIds /\ Uploaded # {}
    /\ ApprovalWindow \in Nat \ {0} /\ EpochTime \in Nat /\ MaxSeq \in Nat

VARIABLES
    epochNow,     \* the clock
    epochTable,   \* epochs: [EpochIds -> {"absent", "active", "revoked"}]
    approval,     \* epoch_revocation_approvals by epoch
    version,      \* highest admin_entity_versions of the epoch and its approval
    revLog,       \* revocations: [epoch (0 for a license), signed: the signer of the
                  \* envelope the IssuerDO remembers, batch: the signer of the
                  \* envelope in KV (0 for none), stage: pending or published]
    effects,      \* side effects pending: <<kind, epoch, sequence number>>
    keyset,       \* KV keys:current
    secretEpoch,  \* epoch of the key in the Secrets Store
    confirmed,    \* history: epoch -> set of [actor, at]
    eh            \* the handlers

epochVars == <<epochNow, epochTable, approval, version, revLog, effects, keyset,
               secretEpoch, confirmed, eh>>

Approval(first, second, expires) == [first |-> first, second |-> second, expires |-> expires]
NoApproval == Approval("none", "none", 0)
NoEpochJob == [pc |-> "idle", epoch |-> 0, actor |-> "none", at |-> 0, renews |-> FALSE,
               ver |-> 0, seq |-> 0, signer |-> 0, certs |-> {}]
Versions(epoch, approvals) == [epoch |-> epoch, approval |-> approvals]
Revocation(epoch, signed, batch, stage) ==
    [epoch |-> epoch, signed |-> signed, batch |-> batch, stage |-> stage]
NewRevocation(e) == Revocation(e, 0, 0, "pending")
Published(i) == revLog[i].stage = "published"
ActiveEpochs == {e \in EpochIds : epochTable[e] = "active"}

EpochInit ==
    /\ epochNow = 0
    /\ epochTable = [e \in EpochIds |-> IF e \in Uploaded THEN "active" ELSE "absent"]
    /\ approval = [e \in EpochIds |-> NoApproval]
    /\ version = [e \in EpochIds |-> Versions(IF e \in Uploaded THEN 1 ELSE 0, 0)]
    /\ revLog = << >> /\ effects = {}
    /\ keyset = [certs |-> Uploaded, rev |-> 0]
    /\ secretEpoch \in Uploaded
    /\ confirmed = [e \in EpochIds |-> {}]
    /\ eh = [h \in EpochHandler |-> NoEpochJob]

(* A later state: all epochs are registered, e is revoked and not yet        *)
(* published, every other one has its first confirmation.                   *)
EpochInitRevoked(e) ==
    /\ epochNow = 0
    /\ epochTable = [f \in EpochIds |-> IF f = e THEN "revoked" ELSE "active"]
    /\ approval = [f \in EpochIds |-> Approval("a", IF f = e THEN "b" ELSE "none",
                                                ApprovalWindow)]
    /\ version = [f \in EpochIds |-> Versions(IF f = e THEN 2 ELSE 1, 1)]
    /\ revLog = <<NewRevocation(e)>> /\ effects = {<<"revocation", e, 1>>}
    /\ keyset = [certs |-> EpochIds, rev |-> 0]
    /\ secretEpoch = e
    /\ confirmed = [f \in EpochIds |->
                       {[actor |-> a, at |-> 0] : a \in IF f = e THEN {"a", "b"} ELSE {"a"}}]
    /\ eh = [h \in EpochHandler |-> NoEpochJob]

To(h, job) == eh' = [eh EXCEPT ![h] = job]
Leave(h) == To(h, NoEpochJob)

-----------------------------------------------------------------------------
(* upload: the existence check, then the batch, then the keyset. *)

UploadCheck(h, e) ==
    /\ eh[h].pc = "idle" /\ epochTable[e] = "absent"
    /\ To(h, [NoEpochJob EXCEPT !.pc = "upload", !.epoch = e])
    /\ UNCHANGED <<epochNow, epochTable, approval, version, revLog, effects, keyset,
                   secretEpoch, confirmed>>

UploadCommit(h) ==
    LET e == eh[h].epoch IN
    /\ eh[h].pc = "upload"
    /\ IF epochTable[e] # "absent"
       THEN Leave(h) /\ UNCHANGED <<epochTable, version, effects>>
       ELSE /\ epochTable' = [epochTable EXCEPT ![e] = "active"]
            /\ version' = [version EXCEPT ![e] = Versions(1, @.approval)]
            /\ effects' = effects \union {<<"keyset", e, 0>>}
            /\ To(h, [eh[h] EXCEPT !.pc = "certs"])
    /\ UNCHANGED <<epochNow, approval, revLog, keyset, secretEpoch, confirmed>>

-----------------------------------------------------------------------------
(* revoke. *)

(* The reads up to the approval: the epoch is there and not revoked, a      *)
(* replacement is ready.                                                    *)
Replaceable(e) == ActiveEpochs \ {e} # {}
RevokeCheck(h, e, actor) ==
    /\ eh[h].pc = "idle"
    /\ epochTable[e] = "active" /\ Replaceable(e)
    /\ To(h, [NoEpochJob EXCEPT !.pc = "approval", !.epoch = e, !.actor = actor])
    /\ UNCHANGED <<epochNow, epochTable, approval, version, revLog, effects, keyset,
                   secretEpoch, confirmed>>

(* The approval decides whether this is the first or the second             *)
(* confirmation; an open one of the same actor is refused.                  *)
SameActorNever(h) == FALSE
SameActor(h) == approval[eh[h].epoch].first = eh[h].actor
RevokeApproval(h) ==
    LET e == eh[h].epoch
        open == approval[e].first # "none" /\ approval[e].expires > epochNow IN
    /\ eh[h].pc = "approval"
    /\ IF approval[e].second # "none" \/ (open /\ SameActor(h))
       THEN Leave(h)
       ELSE To(h, [eh[h] EXCEPT !.at = epochNow, !.renews = approval[e].first # "none",
                     !.pc = IF open THEN "head" ELSE "first"])
    /\ UNCHANGED <<epochNow, epochTable, approval, version, revLog, effects, keyset,
                   secretEpoch, confirmed>>

(* persist_first_approval reads the version of the approval and commits: an *)
(* insert, which fails when a row is there, or the renewal of an expired    *)
(* approval, which may change no row although the version is taken.         *)
FirstVersion(h) ==
    /\ eh[h].pc = "first"
    /\ To(h, [eh[h] EXCEPT !.pc = "insert", !.ver = version[eh[h].epoch].approval])
    /\ UNCHANGED <<epochNow, epochTable, approval, version, revLog, effects, keyset,
                   secretEpoch, confirmed>>
Confirm(e, actor, at) ==
    confirmed' = [confirmed EXCEPT ![e] = @ \union {[actor |-> actor, at |-> at]}]
FirstApproval(h) ==
    LET j == eh[h] IN
    LET e == j.epoch
        stored == approval[e].first # "none"
        open == approval[e].second = "none" /\ approval[e].expires <= j.at IN
    /\ j.pc = "insert"
    /\ IF version[e].approval = j.ver /\ (stored => j.renews)
       THEN /\ version' = [version EXCEPT ![e] = Versions(@.epoch, @.approval + 1)]
            /\ IF stored /\ ~open THEN UNCHANGED <<approval, confirmed>>
               ELSE /\ approval' = [approval EXCEPT ![e] =
                         Approval(j.actor, "none", j.at + ApprovalWindow)]
                    /\ Confirm(e, j.actor, j.at)
       ELSE UNCHANGED <<version, approval, confirmed>>
    /\ Leave(h)
    /\ UNCHANGED <<epochNow, epochTable, revLog, effects, keyset, secretEpoch>>

(* revocation_head: nothing may be pending; the next sequence number, and    *)
(* the version of the epoch.                                                *)
PendingAny == \E i \in DOMAIN revLog : ~Published(i)
PendingNow == PendingAny
SecondHead(h) ==
    /\ eh[h].pc = "head"
    /\ IF PendingNow THEN Leave(h)
       ELSE To(h, [eh[h] EXCEPT !.pc = "second", !.seq = Len(revLog) + 1,
                     !.ver = version[eh[h].epoch].epoch])
    /\ UNCHANGED <<epochNow, epochTable, approval, version, revLog, effects, keyset,
                   secretEpoch, confirmed>>

(* persist_second_approval: the batch fails when the sequence number or the *)
(* entity version is taken; its updates apply where their guards hold.      *)
SecondApproval(h) ==
    LET j == eh[h] IN
    LET e == j.epoch
        closes == /\ approval[e].second = "none" /\ approval[e].first # j.actor
                  /\ approval[e].expires > j.at IN
    /\ j.pc = "second" /\ j.seq <= MaxSeq
    /\ IF version[e].epoch = j.ver /\ Len(revLog) + 1 = j.seq
       THEN /\ version' = [version EXCEPT ![e] = Versions(@.epoch + 1, @.approval)]
            /\ approval' = IF closes THEN [approval EXCEPT ![e] =
                                             Approval(@.first, j.actor, @.expires)]
                            ELSE approval
            /\ epochTable' = [epochTable EXCEPT ![e] = "revoked"]
            /\ revLog' = Append(revLog, NewRevocation(e))
            /\ effects' = effects \union {<<"revocation", e, j.seq>>}
            /\ Confirm(e, j.actor, j.at)
            /\ To(h, [NoEpochJob EXCEPT !.pc = "publish", !.epoch = e, !.seq = j.seq])
       ELSE /\ Leave(h)
            /\ UNCHANGED <<version, approval, epochTable, revLog, effects, confirmed>>
    /\ UNCHANGED <<epochNow, keyset, secretEpoch>>

-----------------------------------------------------------------------------
(* The side effects, run by the handler or by the cron. *)

CronEffect(h, x) ==
    /\ eh[h].pc = "idle" /\ x \in effects
    /\ To(h, [NoEpochJob EXCEPT !.epoch = x[2],
                !.pc = IF x[1] = "keyset" THEN "certs" ELSE "publish", !.seq = x[3]])
    /\ UNCHANGED <<epochNow, epochTable, approval, version, revLog, effects, keyset,
                   secretEpoch, confirmed>>

(* publish_epoch_revocation: the IssuerDO signs the batch with the key of   *)
(* the Secrets Store, or returns the envelope it remembers; a revoked epoch *)
(* may not sign its own revocation, and the signer must be an unrevoked     *)
(* registered epoch.                                                        *)
SignerReady(e, s) == s # e /\ epochTable[s] = "active"
Refused(h) == Leave(h) /\ UNCHANGED effects
SignRevocation(h) ==
    LET i == eh[h].seq
        s == IF revLog[i].signed # 0 THEN revLog[i].signed ELSE secretEpoch IN
    /\ eh[h].pc = "publish"
    /\ IF Published(i)
       THEN To(h, [eh[h] EXCEPT !.pc = "certs"]) /\ UNCHANGED <<revLog, effects>>
       ELSE /\ revLog' = [revLog EXCEPT ![i] = Revocation(@.epoch, s, @.batch, @.stage)]
            /\ IF SignerReady(eh[h].epoch, s)
               THEN To(h, [eh[h] EXCEPT !.pc = "batch", !.signer = s]) /\ UNCHANGED effects
               ELSE Refused(h)
    /\ UNCHANGED <<epochNow, epochTable, approval, version, keyset, secretEpoch, confirmed>>

(* publish_batch writes the immutable key or finds it; other bytes under it *)
(* are an error.                                                            *)
PublishRevocation(h) ==
    LET i == eh[h].seq IN
    /\ eh[h].pc = "batch"
    /\ IF revLog[i].batch \in {0, eh[h].signer}
       THEN /\ revLog' = [revLog EXCEPT ![i] =
                           Revocation(@.epoch, @.signed, eh[h].signer, @.stage)]
            /\ To(h, [eh[h] EXCEPT !.pc = "mark"])
       ELSE Leave(h) /\ UNCHANGED revLog
    /\ UNCHANGED <<epochNow, epochTable, approval, version, effects, keyset, secretEpoch, confirmed>>
MarkPublished(h) ==
    /\ eh[h].pc = "mark"
    /\ revLog' = [revLog EXCEPT ![eh[h].seq] =
                   Revocation(@.epoch, @.signed, @.batch, "published")]
    /\ To(h, [eh[h] EXCEPT !.pc = "certs"])
    /\ UNCHANGED <<epochNow, epochTable, approval, version, effects, keyset, secretEpoch, confirmed>>
SignatureForgotten(i) ==
    /\ revLog[i].signed # 0 /\ ~Published(i)
    /\ revLog' = [revLog EXCEPT ![i] = Revocation(@.epoch, 0, @.batch, @.stage)]
    /\ UNCHANGED <<epochNow, epochTable, approval, version, effects, keyset, secretEpoch, confirmed, eh>>

(* rebuild_keyset: the certificates, then the published sequence, then the  *)
(* KV write; afterwards the operation is complete.                          *)
KeysetCerts(h) ==
    /\ eh[h].pc = "certs"
    /\ To(h, [eh[h] EXCEPT !.pc = "rev", !.certs = ActiveEpochs])
    /\ UNCHANGED <<epochNow, epochTable, approval, version, revLog, effects, keyset,
                   secretEpoch, confirmed>>
PublishedUpTo == Cardinality({i \in DOMAIN revLog : Published(i)})
KeysetEpoch(h) ==
    /\ eh[h].pc = "rev"
    /\ To(h, [eh[h] EXCEPT !.pc = "put", !.ver = PublishedUpTo])
    /\ UNCHANGED <<epochNow, epochTable, approval, version, revLog, effects, keyset,
                   secretEpoch, confirmed>>
KeysetPut(h) ==
    /\ eh[h].pc = "put"
    /\ keyset' = [certs |-> eh[h].certs, rev |-> eh[h].ver]
    /\ effects' = effects \ {<<IF eh[h].seq = 0 THEN "keyset" ELSE "revocation",
                               eh[h].epoch, eh[h].seq>>}
    /\ Leave(h)
    /\ UNCHANGED <<epochNow, epochTable, approval, version, revLog, secretEpoch, confirmed>>

-----------------------------------------------------------------------------
(* A license revocation takes the next number and is published; the         *)
(* operator puts another epoch's key into the Secrets Store; a handler dies.*)
LicenseRevoked ==
    /\ ~PendingAny /\ Len(revLog) < MaxSeq
    /\ revLog' = Append(revLog, NewRevocation(0))
    /\ UNCHANGED <<epochNow, epochTable, approval, version, effects, keyset, secretEpoch, confirmed, eh>>
LicensePublished ==
    /\ \E i \in DOMAIN revLog :
         /\ revLog[i].epoch = 0 /\ ~Published(i)
         /\ revLog' = [revLog EXCEPT ![i] =
                        Revocation(@.epoch, @.signed, secretEpoch, "published")]
    /\ UNCHANGED <<epochNow, epochTable, approval, version, effects, keyset, secretEpoch, confirmed, eh>>
RotateSecret(e) ==
    /\ epochTable[e] # "absent" /\ e # secretEpoch
    /\ secretEpoch' = e
    /\ UNCHANGED <<epochNow, epochTable, approval, version, revLog, effects, keyset, confirmed, eh>>
EpochHandlerDies(h) ==
    /\ eh[h].pc # "idle" /\ Leave(h)
    /\ UNCHANGED <<epochNow, epochTable, approval, version, revLog, effects, keyset,
                   secretEpoch, confirmed>>
EpochTick ==
    /\ epochNow < EpochTime /\ epochNow' = epochNow + 1
    /\ UNCHANGED <<epochTable, approval, version, revLog, effects, keyset, secretEpoch, confirmed, eh>>

ApprovalStep(h) ==
    \/ \E e \in EpochIds, a \in Actor : RevokeCheck(h, e, a)
    \/ RevokeApproval(h) \/ FirstVersion(h) \/ FirstApproval(h)
    \/ SecondHead(h) \/ SecondApproval(h)
EffectStep(h) ==
    \/ \E e \in EpochIds : UploadCheck(h, e)
    \/ \E x \in effects : CronEffect(h, x)
    \/ UploadCommit(h) \/ SignRevocation(h) \/ PublishRevocation(h) \/ MarkPublished(h)
    \/ KeysetCerts(h) \/ KeysetEpoch(h) \/ KeysetPut(h)
KeyStep ==
    \/ \E e \in EpochIds : RotateSecret(e)
    \/ \E i \in DOMAIN revLog : SignatureForgotten(i)
EpochNext ==
    \/ \E h \in EpochHandler : ApprovalStep(h) \/ EffectStep(h) \/ EpochHandlerDies(h)
    \/ LicenseRevoked \/ LicensePublished \/ EpochTick \/ KeyStep

EpochSpec == EpochInit /\ [][EpochNext]_epochVars

-----------------------------------------------------------------------------
(* Properties. *)

(* An epoch is revoked only after confirmations of two distinct actors that *)
(* lie no further apart than the approval window, however handlers of       *)
(* first, second and renewed approvals overlap (revoke).                    *)
TwoActors ==
    \A e \in EpochIds : epochTable[e] = "revoked" =>
        \E x, y \in confirmed[e] :
            x.actor # y.actor /\ x.at <= y.at /\ y.at <= x.at + ApprovalWindow

(* The sequence stays strict: at most one revocation of any kind is         *)
(* unpublished at a time, although the head is read before the batch        *)
(* commits (persist_second_approval), and a revoked epoch has its row.      *)
OnePendingRevocation ==
    /\ \A i, j \in DOMAIN revLog : ~Published(i) /\ ~Published(j) => i = j
    /\ \A e \in EpochIds : epochTable[e] = "revoked" => \E i \in DOMAIN revLog : revLog[i].epoch = e

(* A revocation is never stranded: until its row is published, the          *)
(* operation keeps its side effect for the cron, whatever handler dies or   *)
(* is refused by the signer check.                                          *)
EffectNotLost ==
    \A i \in DOMAIN revLog : (revLog[i].epoch # 0 /\ ~Published(i))
                                  => <<"revocation", revLog[i].epoch, i>> \in effects

(* "The server requires two distinct Admin actors within 15 minutes and an  *)
(* active replacement before revocation takes effect": violated, since the  *)
(* replacement is read before the batch and may be revoked in between.      *)
ReplacementReady ==
    [][\A e \in EpochIds : epochTable[e] = "active" /\ epochTable'[e] = "revoked"
          => ActiveEpochs \ {e} # {}]_epochVars

(* An epoch is revoked by two people, one revocation at a time, and one    *)
(* that was approved takes effect though its handler dies                  *)
(* (persist_second_approval, publish_epoch_revocation).                    *)
ApprovalsHold == TwoActors /\ OnePendingRevocation /\ EffectNotLost

-----------------------------------------------------------------------------
(* What makes ApprovalsHold inductive.                                      *)

EpochJobs == [pc : {"idle", "upload", "approval", "first", "insert", "head", "second", "publish",
                    "batch", "mark", "certs", "rev", "put"},
              epoch : Nat, actor : Actor \union {"none"}, at : Nat, renews : BOOLEAN,
              ver : Nat, seq : Nat, signer : Nat, certs : SUBSET EpochIds]

Revocations == [epoch : Nat, signed : Nat, batch : Nat, stage : {"pending", "published"}]

(* A confirmation by another actor that leaves the window open at a time.   *)
ConfirmedBy(conf, actor, at) ==
    \E x \in conf : x.actor # actor /\ x.at <= at /\ at <= x.at + ApprovalWindow

(* What a handler has read still holds of what it will write: its time is   *)
(* past, a second approval has its first one, the rows below a sequence     *)
(* number it read are published, a row it publishes is there, and it        *)
(* completes an operation only once that row is published.                  *)
EpochJobInv(j, log, conf, now) ==
    /\ j.at <= now
    /\ j.pc \in {"upload", "approval", "first", "insert", "head", "second"} => j.epoch \in EpochIds
    /\ j.pc = "upload" => j.seq = 0
    /\ j.pc \in {"head", "second"} => ConfirmedBy(conf[j.epoch], j.actor, j.at)
    /\ j.pc = "second" => /\ j.seq <= Len(log) + 1
                          /\ \A i \in DOMAIN log : i < j.seq => log[i].stage = "published"
    /\ j.pc \in {"publish", "batch", "mark"} => j.seq \in DOMAIN log
    /\ j.pc \in {"certs", "rev", "put"} =>
         j.seq = 0 \/ (j.seq \in DOMAIN log /\ log[j.seq].stage = "published")

(* A stored approval remembers a confirmation and when it lapses. *)
ApprovalInv(app, conf, now) ==
    \A e \in EpochIds : app[e].first # "none" =>
        \E x \in conf[e] : /\ x.actor = app[e].first /\ x.at <= now
                           /\ x.at + ApprovalWindow = app[e].expires

(* An effect names a row, a keyset effect none. *)
EffectInv(pending, log) ==
    \A x \in pending : x[2] \in Nat /\ IF x[1] = "keyset" THEN x[3] = 0 ELSE x[3] \in DOMAIN log

EpochTypes ==
    /\ epochNow \in Nat
    /\ epochTable \in [EpochIds -> {"absent", "active", "revoked"}]
    /\ approval \in [EpochIds -> [first : Actor \union {"none"}, second : Actor \union {"none"},
                                   expires : Nat]]
    /\ version \in [EpochIds -> [epoch : Nat, approval : Nat]]
    /\ secretEpoch \in EpochIds
    /\ confirmed \in [EpochIds -> SUBSET [actor : Actor \union {"none"}, at : Nat]]
    /\ revLog \in Seq(Revocations)
    /\ eh \in [EpochHandler -> EpochJobs]

EpochInv ==
    /\ EpochTypes
    /\ ApprovalInv(approval, confirmed, epochNow)
    /\ \A h \in EpochHandler : EpochJobInv(eh[h], revLog, confirmed, epochNow)
    /\ EffectInv(effects, revLog)
    /\ ApprovalsHold
=============================================================================
