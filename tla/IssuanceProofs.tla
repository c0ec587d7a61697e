--------------------------- MODULE IssuanceProofs ---------------------------
(***************************************************************************)
(* Proofs about Issuance, for any handlers, keys, rotations and expiries.  *)
(***************************************************************************)
EXTENDS Issuance, TLAPS

auditVars == <<chain, signed, unsent, events, archive, auditIndex, expired, alerts, rises>>

\* The steps that touch the chain, its way to the archive, or the alerts.
LEMMA AuditSteps ==
    ASSUME [IssuanceNext]_issuanceVars
    PROVE  \/ UNCHANGED auditVars
           \/ \E a \in Attempt : SignAppend(a)
           \/ IdemExpires
           \/ \E marked \in BOOLEAN : FlushOne(marked)
           \/ \E m \in events : ArchiveR2(m) \/ \E acked \in BOOLEAN : IndexD1(m, acked)
           \/ \E a \in Attempt, score \in BOOLEAN, kind \in {"ticket", "kill"}, fast \in BOOLEAN :
                Validate(a, score, kind, fast)
<1>1. ASSUME NEW a \in Attempt,
             \/ \E k \in IssueKey : StartAttempt(a, k)
             \/ Reserve(a) \/ Finish(a) \/ SignLookup(a)
             \/ RelayWrite(a) \/ PublishBatch(a) \/ Dies(a)
      PROVE  UNCHANGED auditVars
  <2>1. UNCHANGED <<IssuerSide, ArchiveSide, AlertSide>>
    BY <1>1, ZenonT(30) DEF StartAttempt, Reserve, Finish, SignLookup, RelayWrite, PublishBatch,
       Dies
  <2> QED BY <2>1 DEF auditVars, IssuerSide, ArchiveSide, AlertSide
<1>2. CASE SeatEnds \/ RotateRow \/ RotateKey \/ \E k \in IssueKey : ReserveExpires(k)
  BY <1>2 DEF SeatEnds, ReserveExpires, RotateRow, RotateKey, auditVars, IssuerSide, ArchiveSide, AlertSide
<1>3. CASE UNCHANGED issuanceVars
  BY <1>3 DEF issuanceVars, auditVars
<1> QED BY <1>1, <1>2, <1>3 DEF IssuanceNext, RequestStep, ForgetStep, RotateStep, ValidateStep,
        ArchiveStep

\* At the start nothing is signed, sent or archived.
LEMMA AuditInit == IssuanceInit => AuditInv /\ IssuanceAudited
BY DEF IssuanceInit, AuditInv, IssuanceAudited, AuditNotLost, OneEntryPerArtifact,
   IndexedIsArchived, AlertPerRise

\* append_issuance, when no remembered envelope has the artifact.
LEMMA AppendAudited ==
    ASSUME IssuanceTypeOK, AuditInv, IssuanceAudited, NEW env \in Envelopes,
           ~Replayed(env.tbs), AppendIssuance(env),
           UNCHANGED <<events, archive, auditIndex, alerts, rises>>
    PROVE  AuditInv' /\ IssuanceAudited'
<1> DEFINE n == Len(chain)
<1>1. /\ n \in Nat /\ DOMAIN chain = 1..n /\ chain' \in Seq(Envelopes)
      /\ DOMAIN chain' = 1..(n + 1) /\ chain'[n + 1] = env
      /\ \A i \in 1..n : chain'[i] = chain[i] /\ i \in 1..(n + 1)
  BY DEF IssuanceTypeOK, AppendIssuance
<1>2. /\ signed' = signed \cup {env} /\ unsent' = unsent \cup {n + 1} /\ expired' = expired
  BY DEF AppendIssuance
<1> HIDE DEF n
<1>3. AuditInv'
  BY <1>1, <1>2 DEF AuditInv
<1>4. AuditNotLost'
  BY <1>1, <1>2 DEF AuditInv, IssuanceAudited, AuditNotLost, AtSeq
<1>5. OneEntryPerArtifact'
  <2> SUFFICES ASSUME expired = 0, NEW i \in 1..(n + 1), NEW j \in 1..(n + 1),
                      chain'[i].tbs = chain'[j].tbs
               PROVE  i = j
    BY <1>1, <1>2 DEF OneEntryPerArtifact
  <2>1. \A k \in 1..n : chain'[k].tbs # env.tbs
    BY <1>1 DEF AuditInv, Replayed
  <2>2. CASE i \in 1..n /\ j \in 1..n
    BY <1>1, <2>2 DEF IssuanceAudited, OneEntryPerArtifact
  <2>3. CASE i = n + 1 \/ j = n + 1
    BY <1>1, <2>1, <2>3
  <2> QED BY <1>1, <2>2, <2>3
<1>6. IndexedIsArchived'
  BY <1>1 DEF AuditInv, IssuanceAudited, IndexedIsArchived, AtSeq
<1>7. AlertPerRise'
  BY DEF IssuanceAudited, AlertPerRise
<1> QED BY <1>3, <1>4, <1>5, <1>6, <1>7 DEF IssuanceAudited

\* Every step keeps the chain audited: a step touches the outbox, the queue, the
\* archive or the alerts, one of them at a time.
LEMMA AuditNext ==
    ASSUME IssuanceTypeOK, AuditInv, IssuanceAudited, [IssuanceNext]_issuanceVars
    PROVE  AuditInv' /\ IssuanceAudited'
<1> DEFINE Goal == AuditInv' /\ IssuanceAudited'
<1>1. CASE UNCHANGED auditVars
  BY <1>1 DEF auditVars, AuditInv, IssuanceAudited, AuditNotLost, OneEntryPerArtifact,
     IndexedIsArchived, AlertPerRise, AtSeq
<1>2. ASSUME NEW a \in Attempt, SignAppend(a) PROVE Goal
  <2>1. CASE UNCHANGED IssuerSide
    BY <1>1, <1>2, <2>1 DEF SignAppend, IssuerSide, ArchiveSide, AlertSide, auditVars
  <2>2. CASE ~Replayed(att[a].tbs) /\ AppendIssuance(Envelope(att[a].tbs, epochKey))
    <3>1. att[a].tbs \in Tbs /\ epochKey \in Nat
      BY DEF IssuanceTypeOK, Handlers
    <3>2. Envelope(att[a].tbs, epochKey) \in Envelopes
          /\ Envelope(att[a].tbs, epochKey).tbs = att[a].tbs
      <4> HIDE DEF Tbs
      <4> QED BY <3>1 DEF Envelope, Envelopes
    <3>3. UNCHANGED <<events, archive, auditIndex, alerts, rises>>
      BY <1>2 DEF SignAppend, ArchiveSide, AlertSide
    <3> QED BY <2>2, <3>2, <3>3, AppendAudited
  <2> QED BY <1>2, <2>1, <2>2 DEF SignAppend
<1>3. CASE IdemExpires
  <2>1. expired' # 0 /\ UNCHANGED <<chain, unsent, events, archive, auditIndex, alerts, rises>>
    BY <1>3 DEF IdemExpires, IssuanceTypeOK, ArchiveSide, AlertSide
  <2> QED BY <2>1 DEF AuditInv, IssuanceAudited, AuditNotLost, OneEntryPerArtifact,
          IndexedIsArchived, AlertPerRise, AtSeq
<1>4. ASSUME NEW marked \in BOOLEAN, FlushOne(marked) PROVE Goal
  <2>1. PICK i \in unsent : /\ events' = events \cup {<<i, chain[i]>>}
                           /\ unsent' \in {unsent, unsent \ {i}}
    BY <1>4 DEF FlushOne
  <2>2. UNCHANGED <<chain, signed, expired, archive, auditIndex, alerts, rises>>
    BY <1>4 DEF FlushOne, AlertSide
  <2>3. AuditInv'
    BY <2>1, <2>2 DEF AuditInv
  <2>4. AuditNotLost'
    <3>1. <<i, chain[i]>> \in events' /\ <<i, chain[i]>>[1] = i
      BY <2>1
    <3> QED BY <2>1, <2>2, <3>1, Zenon DEF IssuanceAudited, AuditNotLost, AtSeq
  <2> QED BY <2>2, <2>3, <2>4 DEF IssuanceAudited, OneEntryPerArtifact, IndexedIsArchived,
          AlertPerRise, AtSeq
<1>5. ASSUME NEW m \in events, ArchiveR2(m) PROVE Goal
  <2>1. /\ DOMAIN archive' = DOMAIN archive \cup {m[1]}
        /\ \A i \in DOMAIN archive' : archive'[i] = IF i = m[1] THEN m[2] ELSE archive[i]
    BY <1>5 DEF ArchiveR2, Put
  <2>2. UNCHANGED <<chain, signed, unsent, expired, events, auditIndex, alerts, rises>>
    BY <1>5 DEF ArchiveR2, IssuerSide, AlertSide
  <2>3. m[1] \in DOMAIN chain /\ m[2] = chain[m[1]]
    BY DEF AuditInv
  <2>4. AuditInv'
    BY <2>1, <2>2, <2>3 DEF AuditInv
  <2>5. IndexedIsArchived'
    BY <2>1, <2>2, <2>3 DEF IssuanceAudited, IndexedIsArchived, AtSeq
  <2> QED BY <2>2, <2>4, <2>5 DEF IssuanceAudited, AuditNotLost, OneEntryPerArtifact,
          AlertPerRise, AtSeq
<1>6. ASSUME NEW m \in events, NEW acked \in BOOLEAN, IndexD1(m, acked) PROVE Goal
  <2>1. /\ DOMAIN auditIndex' = DOMAIN auditIndex \cup {m[1]}
        /\ \A i \in DOMAIN auditIndex' :
             auditIndex'[i] = IF i = m[1] THEN m[2] ELSE auditIndex[i]
        /\ events' \in {events, events \ {m}}
        /\ AtSeq(archive, m[1]) = m[2]
    BY <1>6 DEF IndexD1, Put, Archived
  <2>2. UNCHANGED <<chain, signed, unsent, expired, archive, alerts, rises>>
    BY <1>6 DEF IndexD1, IssuerSide, AlertSide
  <2>3. m[1] \in DOMAIN chain /\ m[2] = chain[m[1]]
    BY DEF AuditInv
  <2>4. AuditInv'
    BY <2>1, <2>2, <2>3 DEF AuditInv
  <2>5. IndexedIsArchived'
    BY <2>1, <2>2, <2>3 DEF IssuanceAudited, IndexedIsArchived, AtSeq
  <2>6. AuditNotLost'
    <3> SUFFICES ASSUME NEW i \in DOMAIN chain
                 PROVE  \/ i \in unsent \/ \E e \in events' : e[1] = i
                        \/ AtSeq(auditIndex', i) = chain[i]
      BY <2>2 DEF AuditNotLost, AtSeq
    <3>1. CASE i = m[1]
      BY <2>1, <2>3, <3>1 DEF AtSeq
    <3>2. CASE i # m[1]
      <4>1. AtSeq(auditIndex', i) = AtSeq(auditIndex, i)
        BY <2>1, <3>2 DEF AtSeq
      <4>2. \A e \in events : e[1] = i => e \in events'
        BY <2>1, <3>2
      <4> QED BY <4>1, <4>2 DEF IssuanceAudited, AuditNotLost
    <3> QED BY <3>1, <3>2
  <2> QED BY <2>2, <2>4, <2>5, <2>6 DEF IssuanceAudited, OneEntryPerArtifact, AlertPerRise
<1>7. ASSUME NEW a \in Attempt, NEW score \in BOOLEAN, NEW kind \in {"ticket", "kill"},
             NEW fast \in BOOLEAN, Validate(a, score, kind, fast)
      PROVE  Goal
  <2>1. UNCHANGED <<chain, signed, unsent, expired, events, archive, auditIndex>>
    BY <1>7 DEF Validate, IssuerSide, ArchiveSide
  <2>2. \/ alerts' = alerts + 1 /\ rises' = rises + 1
        \/ alerts' = alerts + 0 /\ rises' = rises + 1
        \/ alerts' = alerts + 0 /\ rises' = rises + 0
    BY <1>7 DEF Validate, Alerts
  <2>3. alerts' \in Nat /\ rises' \in Nat /\ alerts' <= rises'
    BY <2>2 DEF AuditInv, IssuanceAudited, AlertPerRise
  <2> QED BY <2>1, <2>3 DEF AuditInv, IssuanceAudited, AuditNotLost, OneEntryPerArtifact,
          IndexedIsArchived, AlertPerRise, AtSeq
<1> HIDE DEF Goal
<1> QED BY <1>1, <1>2, <1>3, <1>4, <1>5, <1>6, <1>7, AuditSteps DEF Goal

(***************************************************************************)
(* AnswersAgree                                                            *)
(***************************************************************************)

\* The placeholders have the types of what they stand for.
LEMMA NoneTypes ==
    /\ Nothing \in Tbs /\ NoEnvelope \in Envelopes
    /\ NoEnvelope.tbs.kind = "none"
<1>1. Nothing \in Tbs /\ Nothing.kind = "none"
  BY DEF Nothing, Artifact, Tbs
<1> HIDE DEF Nothing, Tbs
<1> QED BY <1>1 DEF NoEnvelope, Envelope, Envelopes

\* An artifact of natural fields is one the signer may see.
LEMMA ArtifactType ==
    ASSUME NEW kind \in {"none", "credential", "response", "batch", "ticket", "kill"},
           NEW key \in Nat, NEW n \in Nat, NEW of \in Nat, NEW machine \in Nat,
           NEW secret \in Nat, NEW after \in Nat, NEW epoch \in Nat
    PROVE  Artifact(kind, key, n, of, machine, secret, after, epoch) \in Tbs
BY DEF Artifact, Tbs

\* What a handler signs for a reservation: the machine, the secret and the terms
\* of its row.
LEMMA CredentialType ==
    ASSUME NEW a \in Nat, NEW r, att[a].key \in Nat, att[a].epoch \in Nat,
           r.machine \in Nat, r.secret \in Nat, r.after \in Nat
    PROVE  /\ Credential(a, r) \in Handlers /\ Credential(a, r).pc = "sign"
           /\ Credential(a, r).key = att[a].key /\ Credential(a, r).machine = r.machine
           /\ Credential(a, r).tbs.kind = "credential"
           /\ Credential(a, r).tbs.machine = r.machine
           /\ Credential(a, r).tbs.secret = r.secret
           /\ Credential(a, r).tbs.after = r.after
<1> DEFINE tbs == Artifact("credential", att[a].key, a, 0, r.machine, r.secret, r.after,
                          att[a].epoch)
<1>1. tbs \in Tbs
  BY Zenon DEF Artifact, Tbs
<1>2. /\ tbs.kind = "credential" /\ tbs.machine = r.machine /\ tbs.secret = r.secret
      /\ tbs.after = r.after
  BY Zenon DEF Artifact
<1>3. Credential(a, r) = Handler("sign", att[a].key, att[a].epoch, r.machine, tbs, NoEnvelope)
  BY Zenon DEF Credential, SealedSecret
<1> HIDE DEF tbs
<1>4. NoEnvelope \in Envelopes
  BY NoneTypes
<1> DEFINE g == Handler("sign", att[a].key, att[a].epoch, r.machine, tbs, NoEnvelope)
<1>5. g \in Handlers
  BY <1>1, <1>4, Zenon DEF Handler, Handlers
<1>6. /\ g.pc = "sign" /\ g.key = att[a].key /\ g.machine = r.machine /\ g.tbs = tbs
  BY Zenon DEF Handler
<1> HIDE DEF g
<1>7. Credential(a, r) = g
  BY <1>3, Zenon DEF g
<1> QED BY <1>2, <1>5, <1>6, <1>7, Zenon

\* An envelope carries the artifact and the epoch it was made of.
LEMMA EnvelopeType ==
    ASSUME NEW tbs \in Tbs, NEW by \in Nat
    PROVE  /\ Envelope(tbs, by) \in Envelopes
           /\ Envelope(tbs, by).tbs = tbs /\ Envelope(tbs, by).by = by
BY DEF Envelope, Envelopes

\* A handler that is over is a handler.
LEMMA OverType ==
    ASSUME NEW pc \in {"idle", "done", "refused", "conflict", "dead"}
    PROVE  Over(pc) \in Handlers /\ Over(pc).pc = pc
BY NoneTypes DEF Over, Handler, Handlers

\* A handler that turns keeps its key, its reservation and its artifact.
LEMMA TurnType ==
    ASSUME IssuanceTypeOK, NEW a \in Attempt,
           NEW pc \in {"key", "complete", "write", "unsigned"}, NEW env \in Envelopes
    PROVE  LET h == Turn(a, pc, env)
           IN  /\ h \in Handlers
               /\ h.pc = pc /\ h.key = att[a].key /\ h.machine = att[a].machine
               /\ h.tbs = att[a].tbs /\ h.env = env
<1>1. /\ att[a].key \in Nat /\ att[a].epoch \in Nat /\ att[a].machine \in Nat
      /\ att[a].tbs \in Tbs
  BY DEF IssuanceTypeOK, Handlers
<1> QED BY <1>1 DEF Turn, Handler, Handlers

\* No step makes a drawn machine id undrawn.
LEMMA DrawnMove ==
    ASSUME att \in [Attempt -> Handlers], NEW a \in Attempt, NEW h,
           att' = [att EXCEPT ![a] = h],
           att[a].pc = "idle" \/ h.pc \notin {"idle", "reserve"}
    PROVE  \A m : Drawn(att, m) => Drawn(att', m)
BY DEF Drawn

\* While reservations keep their machines and secrets and no machine gains the
\* seat, a credential under way stays what its reservation says.
LEMMA CredentialKept ==
    ASSUME \A m : Drawn(att, m) => Drawn(att', m),
           \A k \in IssueKey : /\ resv'[k].machine = resv[k].machine
                               /\ resv'[k].secret = resv[k].secret,
           \A m : HoldsSeat(seat', m) => HoldsSeat(seat, m), days' = days
    PROVE  \A h : CarriesCredential(h, att, resv, seat, days) => CarriesCredential(h, att', resv', seat', days')
BY DEF CarriesCredential

\* What the signer made stays made while it forgets nothing unnoticed.
LEMMA MadeKept ==
    ASSUME epochKey \in Nat, epochKey' \in Nat, epochKey <= epochKey',
           expired' = 0 => expired = 0 /\ signed \subseteq signed'
    PROVE  \A env : Made(env, signed, epochKey, expired) => Made(env, signed', epochKey', expired')
BY DEF Made

\* All handlers but a stay what they have to be, and a becomes it.
LEMMA HandlersMove ==
    ASSUME att \in [Attempt -> Handlers], HandlersInv, NEW a \in Attempt, NEW h,
           att' = [att EXCEPT ![a] = h],
           \A x : CarriesCredential(x, att, resv, seat, days) => CarriesCredential(x, att', resv', seat', days'),
           \A env : Made(env, signed, epochKey, expired) => Made(env, signed', epochKey', expired'),
           HandlerInv(h, att', resv', seat', days', signed', epochKey', expired')
    PROVE  HandlersInv'
<1>1. ASSUME NEW x \in Attempt
      PROVE  HandlerInv(att'[x], att', resv', seat', days', signed', epochKey', expired')
  <2>1. CASE x = a
    BY <2>1
  <2>2. CASE x # a
    <3>1. HandlerInv(att[x], att, resv, seat, days, signed, epochKey, expired) /\ att'[x] = att[x]
      BY <2>2 DEF HandlersInv
    <3> QED BY <3>1, Zenon DEF HandlerInv
  <2> QED BY <2>1, <2>2
<1> QED BY <1>1, Zenon DEF HandlersInv

\* A step of handler a that leaves the license, the signer and the stored answers.
LEMMA HandlerStep ==
    ASSUME AnswerInv, NEW a \in Attempt, NEW h \in Handlers, att' = [att EXCEPT ![a] = h],
           att[a].pc = "idle" \/ h.pc \notin {"idle", "reserve"},
           h.pc # "conflict",
           HandlerInv(h, att', resv, seat, days, signed, epochKey, expired),
           UNCHANGED <<seat, resv, days, issued, chain, signed, expired, epochRow, epochKey, written, answered>>
    PROVE  AnswerInv'
<1> USE DEF AnswerInv
<1>1. att \in [Attempt -> Handlers] /\ att' \in [Attempt -> Handlers]
      /\ epochKey \in Nat /\ epochKey <= epochKey
  BY DEF IssuanceTypeOK
<1>2. \A m : Drawn(att, m) => Drawn(att', m)
  BY <1>1, DrawnMove, Zenon
<1>3. HandlersInv'
  BY <1>1, <1>2, CredentialKept, MadeKept, HandlersMove, Zenon
<1>4. IssuanceTypeOK'
  BY <1>1 DEF IssuanceTypeOK
<1>5. SeatInv'
  BY <1>2, Zenon DEF SeatInv
<1>6. AnsweredInv' /\ SameAnswer' /\ SignerInv' /\ CredentialMatchesSeat' /\ SignedByItsEpoch'
  BY Zenon DEF AnsweredInv, SameAnswer, SignerInv, CredentialMatchesSeat, SignedByItsEpoch
<1>7. ConflictNeedsExpiry'
  BY <1>1 DEF ConflictNeedsExpiry
<1> QED BY <1>3, <1>4, <1>5, <1>6, <1>7

\* Where the handler continues with an envelope of its artifact it is what it has
\* to be there.
LEMMA ContinuesInv ==
    ASSUME IssuanceTypeOK, NEW a \in Attempt, att[a].pc \in {"sign", "key"},
           NEW env \in Envelopes, env.tbs = att[a].tbs,
           NEW hs, NEW rs, NEW s, NEW d, NEW known, NEW epoch, NEW gone,
           Made(env, known, epoch, gone),
           HandlerInv(att[a], hs, rs, s, d, known, epoch, gone)
    PROVE  /\ Continues(a, env) \in Handlers
           /\ Continues(a, env).pc \in {"complete", "write", "done"}
           /\ HandlerInv(Continues(a, env), hs, rs, s, d, known, epoch, gone)
<1>1. \A k : BatchOf(k).kind = "batch"
  BY DEF BatchOf, Artifact
<1>2. CASE att[a].tbs.kind = "credential"
  <2> DEFINE h == Turn(a, "complete", env)
  <2>1. /\ h \in Handlers /\ h.pc = "complete" /\ h.key = att[a].key
        /\ h.machine = att[a].machine /\ h.tbs = att[a].tbs /\ h.env = env
    BY TurnType
  <2>2. Continues(a, env) = h
    BY <1>2 DEF Continues
  <2>3. CarriesCredential(att[a], hs, rs, s, d)
    BY <1>1, <1>2 DEF HandlerInv, CarriesResponse, CarriesBatch
  <2> HIDE DEF h
  <2>4. CarriesCredential(h, hs, rs, s, d)
    BY ONLY <2>1, <2>3 DEF CarriesCredential
  <2> QED BY <2>1, <2>2, <2>4, Zenon DEF HandlerInv
<1>3. CASE att[a].tbs.kind \in {"response", "batch"}
  <2> DEFINE h == Turn(a, "write", env)
  <2>1. /\ h \in Handlers /\ h.pc = "write" /\ h.key = att[a].key
        /\ h.machine = att[a].machine /\ h.tbs = att[a].tbs /\ h.env = env
    BY TurnType
  <2>2. Continues(a, env) = h
    BY <1>3 DEF Continues
  <2>3. CarriesResponse(att[a]) \/ CarriesBatch(att[a])
    BY <1>3, Zenon DEF HandlerInv, CarriesCredential
  <2> HIDE DEF h
  <2>4. CarriesResponse(h) \/ CarriesBatch(h)
    BY <2>1, <2>3 DEF CarriesResponse, CarriesBatch
  <2> QED BY <2>1, <2>2, <2>4, Zenon DEF HandlerInv
<1>4. CASE att[a].tbs.kind \notin {"credential", "response", "batch"}
  <2>1. Continues(a, env) = Over("done")
    BY <1>4 DEF Continues
  <2> QED BY <2>1, OverType, Zenon DEF HandlerInv
<1> QED BY <1>2, <1>3, <1>4

\* A handler that is over is what it has to be.
LEMMA OverInv ==
    ASSUME NEW pc \in {"done", "refused", "conflict", "dead"},
           NEW hs, NEW rs, NEW s, NEW d, NEW known, NEW epoch, NEW gone
    PROVE  HandlerInv(Over(pc), hs, rs, s, d, known, epoch, gone)
BY OverType, Zenon DEF HandlerInv

quietVars == <<seat, resv, days, issued, chain, signed, expired, epochRow, epochKey, written, answered>>

\* A request starts: as a batch at its signature, otherwise at its reservation.
LEMMA StartKeeps ==
    ASSUME AnswerInv, NEW a \in Attempt, NEW k \in IssueKey, StartAttempt(a, k)
    PROVE  AnswerInv'
<1>1. k \in Nat /\ epochRow \in Nat
  BY IssuanceAssumption DEF AnswerInv, IssuanceTypeOK
<1>2. UNCHANGED quietVars /\ att[a].pc = "idle"
  BY DEF StartAttempt, quietVars, LicenseSide, IssuerSide, KeySide
<1>3. CASE k \in BatchKeys
  <2> DEFINE h == Handler("sign", k, 0, 0, BatchOf(k), NoEnvelope)
  <2>1. BatchOf(k) \in Tbs
    BY <1>1, ArtifactType DEF BatchOf
  <2>2. h \in Handlers /\ h.pc = "sign" /\ h.key = k /\ h.tbs = BatchOf(k)
    BY <1>1, <2>1, NoneTypes DEF Handler, Handlers
  <2>3. att' = [att EXCEPT ![a] = h]
    BY <1>3 DEF StartAttempt
  <2> HIDE DEF h
  <2>4. HandlerInv(h, att', resv, seat, days, signed, epochKey, expired)
    BY <1>3, <2>2 DEF HandlerInv, CarriesBatch
  <2> QED BY <1>2, <2>2, <2>3, <2>4, HandlerStep, Zenon DEF quietVars
<1>4. CASE k \notin BatchKeys
  <2> DEFINE h == Handler("reserve", k, epochRow, 0, Nothing, NoEnvelope)
  <2>1. h \in Handlers /\ h.pc = "reserve" /\ h.key = k
    BY <1>1, NoneTypes DEF Handler, Handlers
  <2>2. att' = [att EXCEPT ![a] = h]
    BY <1>4 DEF StartAttempt
  <2> HIDE DEF h
  <2>3. HandlerInv(h, att', resv, seat, days, signed, epochKey, expired)
    BY <1>4, <2>1 DEF HandlerInv
  <2> QED BY <1>2, <2>1, <2>2, <2>3, HandlerStep, Zenon DEF quietVars
<1> QED BY <1>3, <1>4

\* A check-in starts at the signature of its ticket or kill order, or has signed it
\* itself.
LEMMA ValidateKeeps ==
    ASSUME AnswerInv, NEW a \in Attempt, NEW score \in BOOLEAN, NEW kind \in {"ticket", "kill"},
           NEW fast \in BOOLEAN, Validate(a, score, kind, fast)
    PROVE  AnswerInv'
<1> DEFINE tbs == Artifact(kind, 0, a, 0, seat.machine, seat.secret, 0, epochRow)
           h == Handler("sign", 0, 0, 0, tbs, NoEnvelope)
<1>1. /\ a \in Nat /\ seat.machine \in Nat /\ seat.secret \in Nat /\ epochRow \in Nat
  BY IssuanceAssumption DEF AnswerInv, IssuanceTypeOK
<1>2. tbs \in Tbs /\ tbs.kind = kind
  BY <1>1 DEF Artifact, Tbs
<1> HIDE DEF tbs
<1>3. h \in Handlers /\ h.pc = "sign" /\ h.tbs = tbs
  BY <1>2, NoneTypes DEF Handler, Handlers
<1>4. /\ att' = [att EXCEPT ![a] = IF fast THEN Over("done") ELSE h]
      /\ att[a].pc = "idle"
  BY Zenon DEF Validate, tbs
<1> HIDE DEF h
<1>5. UNCHANGED quietVars
  BY DEF Validate, quietVars, LicenseSide, IssuerSide, KeySide
<1>6. CASE ~fast
  <2>1. HandlerInv(h, att', resv, seat, days, signed, epochKey, expired)
    BY <1>2, <1>3 DEF HandlerInv
  <2> QED BY <1>3, <1>4, <1>5, <1>6, <2>1, HandlerStep, Zenon DEF quietVars
<1>7. CASE fast
  <2>1. Over("done") \in Handlers /\ Over("done").pc = "done"
    BY OverType
  <2>2. HandlerInv(Over("done"), att', resv, seat, days, signed, epochKey, expired)
    BY OverInv
  <2> QED BY <1>4, <1>5, <1>7, <2>1, <2>2, HandlerStep, Zenon DEF quietVars
<1> QED BY <1>6, <1>7

\* A handler that dies leaves everything else as it was.
LEMMA DiesKeeps ==
    ASSUME AnswerInv, NEW a \in Attempt, Dies(a)
    PROVE  AnswerInv'
<1>1. UNCHANGED quietVars /\ att' = [att EXCEPT ![a] = Over("dead")]
  BY DEF Dies, quietVars, LicenseSide, IssuerSide, KeySide
<1>2. Over("dead") \in Handlers /\ Over("dead").pc = "dead"
  BY OverType
<1>3. HandlerInv(Over("dead"), att', resv, seat, days, signed, epochKey, expired)
  BY OverInv
<1> QED BY <1>1, <1>2, <1>3, HandlerStep, Zenon DEF quietVars

\* The envelope the signer replays is one of the artifact, made by it.
LEMMA ReplayMade ==
    ASSUME AnswerInv, NEW tbs, Replayed(tbs)
    PROVE  /\ ReplayOf(tbs) \in Envelopes /\ ReplayOf(tbs).tbs = tbs
           /\ Made(ReplayOf(tbs), signed, epochKey, expired)
<1>1. ReplayOf(tbs) \in signed /\ ReplayOf(tbs).tbs = tbs
  BY DEF Replayed, ReplayOf
<1> QED BY <1>1 DEF AnswerInv, IssuanceTypeOK, SignerInv, Made

\* A handler turns to another step of signing.
LEMMA TurnKeeps ==
    ASSUME AnswerInv, NEW a \in Attempt, att[a].pc \in {"sign", "key"},
           NEW pc \in {"key", "unsigned"},
           att' = [att EXCEPT ![a] = Turn(a, pc, att[a].env)], UNCHANGED quietVars
    PROVE  AnswerInv'
<1> DEFINE h == Turn(a, pc, att[a].env)
<1>1. att[a].env \in Envelopes /\ IssuanceTypeOK
  BY DEF AnswerInv, IssuanceTypeOK, Handlers
<1>2. /\ h \in Handlers /\ h.pc = pc /\ h.key = att[a].key
      /\ h.machine = att[a].machine /\ h.tbs = att[a].tbs
  BY <1>1, TurnType
<1> HIDE DEF h
<1>3. att' = [att EXCEPT ![a] = h] /\ att \in [Attempt -> Handlers]
  BY DEF h, AnswerInv, IssuanceTypeOK
<1>4. HandlerInv(att[a], att, resv, seat, days, signed, epochKey, expired)
  BY DEF AnswerInv, HandlersInv
<1>5. \A m : Drawn(att, m) => Drawn(att', m)
  BY <1>2, <1>3, DrawnMove, Zenon
<1>6. HandlerInv(h, att', resv, seat, days, signed, epochKey, expired)
  BY <1>2, <1>4, <1>5, Zenon DEF HandlerInv, CarriesCredential, CarriesResponse, CarriesBatch
<1> QED BY <1>2, <1>3, <1>6, HandlerStep, Zenon DEF quietVars

\* A replayed signature: the handler goes on with the remembered envelope.
LEMMA SignedKeeps ==
    ASSUME AnswerInv, NEW a \in Attempt, att[a].pc \in {"sign", "key"},
           Replayed(att[a].tbs), Signed(a, ReplayOf(att[a].tbs)), UNCHANGED quietVars
    PROVE  AnswerInv'
<1> DEFINE env == ReplayOf(att[a].tbs)
           h == Continues(a, env)
<1>1. /\ env \in Envelopes /\ env.tbs = att[a].tbs /\ Made(env, signed, epochKey, expired)
      /\ IssuanceTypeOK
  BY ReplayMade, Zenon DEF AnswerInv
<1>2. HandlerInv(att[a], att, resv, seat, days, signed, epochKey, expired)
  BY Zenon DEF AnswerInv, HandlersInv
<1>3. att' = [att EXCEPT ![a] = h] /\ att \in [Attempt -> Handlers]
  BY DEF Signed, AnswerInv, IssuanceTypeOK
<1> HIDE DEF env
<1>4. /\ h \in Handlers /\ h.pc \in {"complete", "write", "done"}
      /\ HandlerInv(h, att, resv, seat, days, signed, epochKey, expired)
  BY <1>1, <1>2, ContinuesInv, Zenon
<1> HIDE DEF h
<1>5. \A m : Drawn(att, m) => Drawn(att', m)
  BY <1>3, <1>4, DrawnMove, Zenon
<1>6. HandlerInv(h, att', resv, seat, days, signed, epochKey, expired)
  BY <1>4, <1>5, Zenon DEF HandlerInv, CarriesCredential
<1> QED BY <1>3, <1>4, <1>6, HandlerStep, Zenon DEF quietVars

\* sign before the await: a replay, or the wait for the key.
LEMMA LookupKeeps ==
    ASSUME AnswerInv, NEW a \in Attempt, SignLookup(a)
    PROVE  AnswerInv'
<1>1. UNCHANGED quietVars /\ att[a].pc = "sign"
  BY DEF SignLookup, quietVars, LicenseSide, IssuerSide, KeySide
<1> QED BY <1>1, TurnKeeps, SignedKeeps DEF SignLookup

\* sign after the await: a refusal, a replay, or a new entry of the chain whose
\* artifact names the epoch of the key at hand.
LEMMA SignKeeps ==
    ASSUME AnswerInv, NEW a \in Attempt, SignAppend(a)
    PROVE  AnswerInv'
<1> DEFINE tbs == att[a].tbs
           env == Envelope(tbs, epochKey)
<1>1. /\ att[a].pc = "key"
      /\ UNCHANGED <<seat, resv, days, issued, epochRow, epochKey, written, answered>>
  BY DEF SignAppend, LicenseSide, KeySide
<1>2. CASE UNCHANGED IssuerSide /\ ~(EpochFits(tbs) /\ ~Replayed(tbs))
  <2>1. UNCHANGED quietVars
    BY <1>1, <1>2 DEF quietVars, IssuerSide
  <2> QED BY <1>1, <1>2, <2>1, TurnKeeps, SignedKeeps DEF SignAppend
<1>3. CASE EpochFits(tbs) /\ ~Replayed(tbs)
  <2>1. Signed(a, env) /\ AppendIssuance(env)
    BY <1>3 DEF SignAppend
  <2>2. /\ tbs \in Tbs /\ epochKey \in Nat \ {0} /\ att \in [Attempt -> Handlers]
        /\ IssuanceTypeOK /\ expired \in Nat /\ chain' = Append(chain, env)
        /\ signed' = signed \cup {env} /\ expired' = expired
    BY <2>1, Zenon DEF AnswerInv, IssuanceTypeOK, Handlers, AppendIssuance
  <2>3. env \in Envelopes /\ env.tbs = tbs /\ env.by = epochKey
    BY <2>2, EnvelopeType, Zenon
  <2> DEFINE h == Continues(a, env)
  <2>4. att' = [att EXCEPT ![a] = h]
    BY <2>1 DEF Signed
  <2> HIDE DEF env
  <2>5. Made(env, signed', epochKey', expired')
    BY <1>1, <2>2, <2>3 DEF Made
  <2>6. \A e : Made(e, signed, epochKey, expired) => Made(e, signed', epochKey', expired')
    <3>1. epochKey \in Nat /\ epochKey' \in Nat /\ epochKey <= epochKey'
      BY <1>1, <2>2
    <3>2. expired' = 0 => expired = 0 /\ signed \subseteq signed'
      BY <2>2
    <3> QED BY <3>1, <3>2, MadeKept
  <2>7. HandlerInv(att[a], att, resv, seat, days, signed', epochKey', expired')
    BY <2>6, Zenon DEF AnswerInv, HandlersInv, HandlerInv
  <2>8. /\ h \in Handlers /\ h.pc \in {"complete", "write", "done"}
        /\ HandlerInv(h, att, resv, seat, days, signed', epochKey', expired')
    BY <1>1, <2>2, <2>3, <2>5, <2>7, ContinuesInv, Zenon
  <2> HIDE DEF h
  <2>9. \A m : Drawn(att, m) => Drawn(att', m)
    BY <2>2, <2>4, <2>8, DrawnMove, Zenon
  <2>10. HandlerInv(h, att', resv', seat', days', signed', epochKey', expired')
    BY <1>1, <2>8, <2>9, Zenon DEF HandlerInv, CarriesCredential
  <2>11. \A x : CarriesCredential(x, att, resv, seat, days) => CarriesCredential(x, att', resv', seat', days')
    BY <1>1, <2>9, CredentialKept, Zenon
  <2>12. HandlersInv'
    BY <2>2, <2>4, <2>6, <2>10, <2>11, HandlersMove, Zenon DEF AnswerInv
  <2>13. IssuanceTypeOK'
    <3>1. chain' \in Seq(Envelopes)
      BY <2>2, <2>3 DEF IssuanceTypeOK
    <3>2. signed' \subseteq Envelopes /\ att' \in [Attempt -> Handlers]
      BY <2>2, <2>3, <2>4, <2>8, Zenon DEF IssuanceTypeOK
    <3> QED BY <1>1, <2>2, <3>1, <3>2 DEF IssuanceTypeOK
  <2>14. SeatInv' /\ AnsweredInv' /\ SameAnswer' /\ CredentialMatchesSeat'
    BY <1>1, <2>9, Zenon DEF AnswerInv, SeatInv, AnsweredInv, SameAnswer, CredentialMatchesSeat
  <2>15. SignerInv'
    <3>1. \A k \in BatchKeys : written'[k] # NoEnvelope =>
            written'[k].tbs = BatchOf(k) /\ Made(written'[k], signed', epochKey', expired')
      BY <1>1, <2>6, Zenon DEF AnswerInv, SignerInv
    <3>2. \A e \in signed' : e.by \in 1..epochKey'
      BY <1>1, <2>2, <2>3 DEF AnswerInv, SignerInv
    <3>3. \A e, f \in signed' : e.tbs = f.tbs => e = f
      BY <1>3, <2>2, <2>3, Zenon DEF AnswerInv, SignerInv, Replayed
    <3> QED BY <3>1, <3>2, <3>3 DEF SignerInv
  <2>16. ConflictNeedsExpiry'
    BY <1>1, <2>2, <2>4, <2>8 DEF AnswerInv, ConflictNeedsExpiry
  <2>17. SignedByItsEpoch'
    <3>1. env.tbs.kind \in {"credential", "response", "ticket"} => env.tbs.epoch = env.by
      BY <1>3, <2>3, Zenon DEF EpochFits
    <3>2. /\ Len(chain) \in Nat /\ DOMAIN chain' = 1..(Len(chain) + 1)
          /\ DOMAIN chain = 1..Len(chain) /\ chain'[Len(chain) + 1] = env
          /\ \A i \in 1..Len(chain) : chain'[i] = chain[i]
      BY ONLY <2>2, <2>3 DEF IssuanceTypeOK
    <3>3. \A i \in DOMAIN chain' : i \in DOMAIN chain \/ i = Len(chain) + 1
      BY <3>2
    <3> QED BY <3>1, <3>2, <3>3, Zenon DEF AnswerInv, SignedByItsEpoch
  <2> QED BY <2>12, <2>13, <2>14, <2>15, <2>16, <2>17 DEF AnswerInv
<1> QED BY <1>2, <1>3 DEF SignAppend

\* One more answer, of what the key's object or row holds from now on.
LEMMA AnsweredMove ==
    ASSUME AnswerInv, NEW k \in IssueKey, NEW e, e # NoEnvelope, days' = days,
           \A j \in IssueKey : resv[j].env # NoEnvelope => resv'[j].env = resv[j].env,
           \A j \in IssueKey : written[j] # NoEnvelope => written'[j] = written[j],
           \/ answered' = answered
           \/ /\ answered' = answered \cup {<<k, days[k], e>>}
              /\ IF k \in RelayKeys THEN written'[k] = e ELSE resv'[k].env = e
    PROVE  AnsweredInv' /\ SameAnswer'
<1> DEFINE t == <<k, days[k], e>>
           Kept(x) == /\ x[1] \in IssueKey /\ x[2] \in Nat /\ x[2] <= days[x[1]]
                      /\ x[1] \in RelayKeys => written'[x[1]] # NoEnvelope /\ x[3] = written'[x[1]]
                      /\ x[1] \notin RelayKeys /\ x[2] = days[x[1]] =>
                           resv'[x[1]].env # NoEnvelope /\ x[3] = resv'[x[1]].env
<1>1. t[1] = k /\ t[2] = days[k] /\ t[3] = e /\ days[k] \in Nat /\ days[k] <= days[k]
  BY DEF AnswerInv, IssuanceTypeOK
<1>2. \/ answered' = answered
      \/ answered' = answered \cup {t} /\ IF k \in RelayKeys THEN written'[k] = e ELSE resv'[k].env = e
  BY Zenon
<1> HIDE DEF t
<1>3. \A x \in answered : Kept(x)
  BY Zenon DEF AnswerInv, AnsweredInv
<1>4. \A x \in answered' : Kept(x)
  BY <1>1, <1>2, <1>3, Zenon
<1>5. AnsweredInv'
  BY <1>4, Zenon DEF AnsweredInv
<1>6. SameAnswer'
  <2> SUFFICES ASSUME NEW x \in answered', NEW y \in answered', x[1] = y[1],
                      x[1] \in RelayKeys \/ x[2] = y[2]
               PROVE  x[3] = y[3]
    BY Zenon DEF SameAnswer
  <2>1. CASE x \in answered /\ y \in answered
    BY <2>1, Zenon DEF AnswerInv, SameAnswer
  <2>2. CASE x = t \/ y = t
    <3>1. x[1] = k /\ y[1] = k /\ (k \in RelayKeys \/ (x[2] = days[k] /\ y[2] = days[k]))
      BY <1>1, <2>2, Zenon
    <3> QED BY <1>4, <3>1, Zenon
  <2> QED BY <1>2, <2>1, <2>2, Zenon
<1> QED BY <1>5, <1>6

\* A key that is answered with a stored envelope, over the relay with a response
\* around it that is signed next.
LEMMA AnswerKeeps ==
    ASSUME AnswerInv, NEW a \in Attempt, NEW env \in Envelopes, env # NoEnvelope,
           att[a].key \in IssueKey \ BatchKeys, Answer(a, env),
           resv'[att[a].key].env = env,
           \A k \in IssueKey : resv[k].env # NoEnvelope => resv'[k] = resv[k],
           \A k \in IssueKey : /\ resv'[k].machine = resv[k].machine
                               /\ resv'[k].secret = resv[k].secret,
           \A m : HoldsSeat(seat', m) => HoldsSeat(seat, m),
           UNCHANGED <<days, chain, signed, expired, epochRow, epochKey, written>>
    PROVE  /\ HandlersInv' /\ AnsweredInv' /\ SameAnswer' /\ SignerInv' /\ SignedByItsEpoch'
           /\ ConflictNeedsExpiry' /\ att' \in [Attempt -> Handlers]
           /\ \A m : Drawn(att, m) => Drawn(att', m)
<1> DEFINE k0 == att[a].key
<1>1. /\ att \in [Attempt -> Handlers] /\ epochKey \in Nat /\ a \in Nat
      /\ k0 \in Nat /\ att[a].epoch \in Nat /\ att[a].machine \in Nat
  BY IssuanceAssumption, Zenon DEF AnswerInv, IssuanceTypeOK, Handlers
<1>2. PICK h \in Handlers :
        /\ att' = [att EXCEPT ![a] = h] /\ h.pc \in {"sign", "done"}
        /\ HandlerInv(h, att', resv', seat', days', signed', epochKey', expired')
  <2>1. CASE k0 \in RelayKeys
    <3> DEFINE tbs == Response(a, env.tbs)
               h == Handler("sign", k0, att[a].epoch, att[a].machine, tbs, env)
    <3>1. env.tbs \in Tbs
      BY Zenon DEF Envelopes
    <3>2. tbs \in Tbs /\ tbs.kind = "response"
      BY <1>1, <3>1, Zenon DEF Response, Artifact, Tbs
    <3> HIDE DEF tbs
    <3>3. h \in Handlers /\ h.pc = "sign" /\ h.key = k0 /\ h.tbs = tbs
      BY <1>1, <3>2, Zenon DEF Handler, Handlers
    <3>4. att' = [att EXCEPT ![a] = h]
      BY <2>1, Zenon DEF Answer, tbs
    <3> HIDE DEF h
    <3>5. HandlerInv(h, att', resv', seat', days', signed', epochKey', expired')
      BY <2>1, <3>2, <3>3, Zenon DEF HandlerInv, CarriesResponse
    <3> QED BY <3>3, <3>4, <3>5, Zenon
  <2>2. CASE k0 \notin RelayKeys
    <3>1. att' = [att EXCEPT ![a] = Over("done")]
      BY <2>2, Zenon DEF Answer
    <3>2. Over("done") \in Handlers /\ Over("done").pc = "done"
      BY OverType, Zenon
    <3>3. HandlerInv(Over("done"), att', resv', seat', days', signed', epochKey', expired')
      BY OverInv, Zenon
    <3> QED BY <3>1, <3>2, <3>3, Zenon
  <2> QED BY <2>1, <2>2, Zenon
<1>3. \A m : Drawn(att, m) => Drawn(att', m)
  BY <1>1, <1>2, DrawnMove, Zenon
<1>4. HandlersInv'
  <2>1. \A x : CarriesCredential(x, att, resv, seat, days) => CarriesCredential(x, att', resv', seat', days')
    BY <1>3, CredentialKept, Zenon
  <2>2. \A e : Made(e, signed, epochKey, expired) => Made(e, signed', epochKey', expired')
    BY Zenon
  <2> QED BY <1>1, <1>2, <2>1, <2>2, HandlersMove, Zenon DEF AnswerInv
<1>5. AnsweredInv' /\ SameAnswer'
  <2>1. \/ answered' = answered
        \/ k0 \notin RelayKeys /\ answered' = answered \cup {<<k0, days[k0], env>>}
    BY Zenon DEF Answer
  <2> HIDE DEF k0
  <2>2. k0 \in IssueKey /\ resv'[k0].env = env
    BY Zenon DEF k0
  <2> QED BY <2>1, <2>2, AnsweredMove, Zenon
<1>6. SignerInv' /\ SignedByItsEpoch'
  BY Zenon DEF AnswerInv, SignerInv, SignedByItsEpoch
<1>7. ConflictNeedsExpiry'
  BY <1>1, <1>2, Zenon DEF AnswerInv, ConflictNeedsExpiry
<1> QED BY <1>1, <1>2, <1>3, <1>4, <1>5, <1>6, <1>7, Zenon

\* /reserve of a key that has no live row: the reservation is written anew, and
\* whoever still carries the key's earlier credential has lost the seat for good.
LEMMA ReserveAnew ==
    ASSUME AnswerInv, NEW a \in Attempt, att[a].pc = "reserve",
           ~Replays(att[a].key), seat.status # "pending",
           NEW r, r = Reservation(IF SeatLive THEN seat.machine ELSE a, a, days[att[a].key],
                                  NoEnvelope),
           resv' = [resv EXCEPT ![att[a].key] = r],
           seat' = IF SeatLive THEN seat ELSE Seat("pending", a, a),
           att' = [att EXCEPT ![a] = Credential(a, r)],
           UNCHANGED <<days, issued, chain, signed, expired, epochRow, epochKey, written, answered>>
    PROVE  AnswerInv'
<1> DEFINE k == att[a].key
           h == Credential(a, r)
<1>1. /\ att \in [Attempt -> Handlers] /\ a \in Nat \ {0} /\ k \in Nat /\ att[a].epoch \in Nat
      /\ seat.machine \in Nat /\ resv \in [IssueKey -> [machine: Nat, secret: Nat, after: Nat, env: Envelopes]]
      /\ seat \in [status: {"none", "pending", "active", "ended"}, machine: Nat, secret: Nat]
  BY IssuanceAssumption, Zenon DEF AnswerInv, IssuanceTypeOK, Handlers
<1>2. k \in IssueKey \ BatchKeys
  BY Zenon DEF AnswerInv, HandlersInv, HandlerInv
<1>3. /\ r.machine = (IF SeatLive THEN seat.machine ELSE a) /\ r.secret = a /\ r.env = NoEnvelope
      /\ r.after = days[k] /\ r.after \in Nat
      /\ r.machine \in Nat \ {0} /\ r \in [machine: Nat, secret: Nat, after: Nat, env: Envelopes]
  <2>1. days[k] \in Nat
    BY <1>2, Zenon DEF AnswerInv, IssuanceTypeOK
  <2> QED BY <1>1, <2>1, NoneTypes, Zenon DEF Reservation, SeatLive, AnswerInv, SeatInv
<1>4. /\ h \in Handlers /\ h.pc = "sign" /\ h.key = k /\ h.machine = r.machine
      /\ h.tbs.kind = "credential" /\ h.tbs.machine = r.machine /\ h.tbs.secret = r.secret
      /\ h.tbs.after = days[k]
  <2>1. /\ a \in Nat /\ k \in Nat /\ att[a].epoch \in Nat /\ r.machine \in Nat /\ r.secret \in Nat
        /\ r.after \in Nat /\ r.after = days[k]
    BY <1>1, <1>3, Zenon
  <2> QED BY ONLY <2>1, CredentialType
<1> HIDE DEF h
<1>5. att' = [att EXCEPT ![a] = h]
  BY Zenon DEF h
<1>6. /\ \A m : Drawn(att, m) => Drawn(att', m) /\ m # a /\ m # 0
      /\ Drawn(att', a) /\ Drawn(att', r.machine)
  <2>1. \A m : Drawn(att, m) => Drawn(att', m)
    BY <1>1, <1>4, <1>5, DrawnMove, Zenon
  <2>2. \A m : Drawn(att, m) => m # a /\ m # 0
    BY IssuanceAssumption DEF Drawn
  <2>3. Drawn(att', a)
    BY <1>1, <1>4, <1>5, Zenon DEF Drawn
  <2>4. SeatLive => Drawn(att, seat.machine)
    BY Zenon DEF AnswerInv, SeatInv, SeatLive
  <2> QED BY <1>3, <2>1, <2>2, <2>3, <2>4, Zenon
<1>7. /\ resv'[k] = r /\ \A j \in IssueKey : j # k => resv'[j] = resv[j]
      /\ resv[k].env = NoEnvelope
      /\ resv[k].machine # 0 => ~HoldsSeat(seat, resv[k].machine)
  BY <1>1, <1>2, Zenon DEF Replays, AnswerInv, SeatInv, SeatLive, HoldsSeat
<1>8. /\ \A m : m # a /\ HoldsSeat(seat', m) => HoldsSeat(seat, m)
      /\ \A m : HoldsSeat(seat, m) /\ m # a => m = r.machine
  BY <1>3, Zenon DEF HoldsSeat, Seat, SeatLive
<1>9. ASSUME NEW x, CarriesCredential(x, att, resv, seat, days)
      PROVE  CarriesCredential(x, att', resv', seat', days')
  <2>1. /\ Drawn(att', x.machine) /\ x.machine # a /\ x.machine # 0
    BY <1>6, <1>9, Zenon DEF CarriesCredential
  <2>2. CASE x.key # k
    BY <1>7, <1>8, <1>9, <2>1, <2>2, Zenon DEF CarriesCredential
  <2>3. CASE x.key = k /\ x.tbs.after # days[k]
    BY <1>9, <2>1, <2>3, Zenon DEF CarriesCredential
  <2>4. CASE x.key = k /\ x.tbs.after = days[k]
    <3>1. ~HoldsSeat(seat, x.machine) /\ ~HoldsSeat(seat', x.machine)
      BY <1>7, <1>8, <1>9, <2>1, <2>4, Zenon DEF CarriesCredential
    <3>2. r.machine # x.machine
      BY ONLY <1>3, <2>1, <3>1 DEF SeatLive, HoldsSeat
    <3>3. resv'[x.key].machine # x.machine /\ days' = days
      BY <1>7, <2>4, <3>2, Zenon
    <3> QED BY ONLY <1>9, <2>1, <3>1, <3>3, Zenon DEF CarriesCredential
  <2> QED BY <2>2, <2>3, <2>4, Zenon
<1>10. HandlerInv(h, att', resv', seat', days', signed', epochKey', expired')
  <2>1. days' = days /\ days[k] <= days[k]
    BY <1>3
  <2> QED BY ONLY <1>2, <1>4, <1>6, <1>7, <2>1, Zenon DEF HandlerInv, CarriesCredential
<1>11. HandlersInv'
  <2>1. \A e : Made(e, signed, epochKey, expired) => Made(e, signed', epochKey', expired')
    BY Zenon
  <2> QED BY <1>1, <1>5, <1>9, <1>10, <2>1, HandlersMove, Zenon DEF AnswerInv
<1>12. IssuanceTypeOK'
  <2>1. att' \in [Attempt -> Handlers]
    BY <1>1, <1>4, <1>5, Zenon
  <2>2. resv' \in [IssueKey -> [machine: Nat, secret: Nat, after: Nat, env: Envelopes]]
    BY <1>1, <1>3, Zenon
  <2>3. seat' \in [status: {"none", "pending", "active", "ended"}, machine: Nat, secret: Nat]
    BY <1>1, Zenon DEF Seat
  <2> QED BY <2>1, <2>2, <2>3, Zenon DEF AnswerInv, IssuanceTypeOK
<1>13. SeatInv'
  <2>1. seat'.machine # 0 => Drawn(att', seat'.machine)
    BY <1>6, Zenon DEF Seat, AnswerInv, SeatInv
  <2>2. seat'.status \in {"pending", "active"} => seat'.machine # 0
    BY <1>1, Zenon DEF Seat, AnswerInv, SeatInv
  <2>3. ASSUME NEW j \in IssueKey
        PROVE  /\ resv'[j].machine # 0 => Drawn(att', resv'[j].machine) /\ resv'[j].after = days'[j]
               /\ resv'[j].env # NoEnvelope => resv'[j].machine # 0
    BY <1>3, <1>6, <1>7, Zenon DEF AnswerInv, SeatInv
  <2> QED BY <2>1, <2>2, <2>3, Zenon DEF SeatInv
<1>14. AnsweredInv' /\ SameAnswer'
  <2>1. \A j \in IssueKey : resv[j].env # NoEnvelope => resv'[j] = resv[j]
    BY <1>7, Zenon
  <2> QED BY <2>1, Zenon DEF AnswerInv, AnsweredInv, SameAnswer
<1>15. CredentialMatchesSeat'
  <2>1. \A j \in IssueKey : resv[j].env # NoEnvelope => resv'[j] = resv[j]
    BY <1>7, Zenon
  <2>2. \A j \in IssueKey : resv'[j].env # NoEnvelope => resv'[j] = resv[j]
    BY <1>3, <1>7, Zenon
  <2>3. seat'.status = "active" => seat' = seat
    BY Zenon DEF Seat
  <2>4. CredentialMatchesSeat /\ issued' = issued
    BY Zenon DEF AnswerInv
  <2> QED BY ONLY <2>1, <2>2, <2>3, <2>4, Zenon DEF CredentialMatchesSeat
<1>16. SignerInv' /\ SignedByItsEpoch'
  BY Zenon DEF AnswerInv, SignerInv, SignedByItsEpoch
<1>17. ConflictNeedsExpiry'
  BY <1>1, <1>4, <1>5, Zenon DEF AnswerInv, ConflictNeedsExpiry
<1> QED BY <1>11, <1>12, <1>13, <1>14, <1>15, <1>16, <1>17, Zenon DEF AnswerInv

\* /reserve.
LEMMA ReserveKeeps ==
    ASSUME AnswerInv, NEW a \in Attempt, Reserve(a)
    PROVE  AnswerInv'
<1> DEFINE k == att[a].key
           r == Reservation(IF SeatLive THEN seat.machine ELSE a, a, days[k], NoEnvelope)
<1>1. att[a].pc = "reserve" /\ UNCHANGED <<chain, signed, expired, epochRow, epochKey, written>>
  BY Zenon DEF Reserve, IssuerSide, KeySide
<1>2. /\ k \in IssueKey \ BatchKeys /\ att \in [Attempt -> Handlers] /\ a \in Nat /\ k \in Nat
      /\ att[a].epoch \in Nat /\ resv[k].env \in Envelopes /\ resv[k].machine \in Nat
      /\ resv[k].secret \in Nat /\ resv[k].after \in Nat /\ days[k] \in Nat
  <2>1. k \in IssueKey \ BatchKeys
    BY <1>1, Zenon DEF AnswerInv, HandlersInv, HandlerInv
  <2> QED BY <2>1, IssuanceAssumption, Zenon DEF AnswerInv, IssuanceTypeOK, Handlers
<1>3. CASE Replays(k) /\ resv[k].env # NoEnvelope
  <2>1. Answer(a, resv[k].env) /\ UNCHANGED <<seat, resv, days, issued>>
    BY <1>3, Zenon DEF Reserve, LicenseSide
  <2>2. /\ HandlersInv' /\ AnsweredInv' /\ SameAnswer' /\ SignerInv' /\ SignedByItsEpoch'
        /\ ConflictNeedsExpiry' /\ att' \in [Attempt -> Handlers]
        /\ \A m : Drawn(att, m) => Drawn(att', m)
    <3> HIDE DEF k
    <3>1. \A j \in IssueKey : resv[j].env # NoEnvelope => resv'[j] = resv[j]
      BY <2>1
    <3>2. \A j \in IssueKey : resv'[j].machine = resv[j].machine /\ resv'[j].secret = resv[j].secret
      BY <2>1
    <3>3. \A m : HoldsSeat(seat', m) => HoldsSeat(seat, m)
      BY <2>1
    <3> QED BY <1>1, <1>2, <1>3, <2>1, <3>1, <3>2, <3>3, AnswerKeeps, Zenon DEF k
  <2>3. IssuanceTypeOK'
    BY <1>1, <2>1, <2>2, Zenon DEF AnswerInv, IssuanceTypeOK
  <2>4. SeatInv' /\ CredentialMatchesSeat'
    BY <2>1, <2>2, Zenon DEF AnswerInv, SeatInv, CredentialMatchesSeat
  <2> QED BY <2>2, <2>3, <2>4 DEF AnswerInv
<1>4. CASE Replays(k) /\ resv[k].env = NoEnvelope
  <2> DEFINE h == Credential(a, resv[k])
             tbs == Artifact("credential", k, a, 0, resv[k].machine, resv[k].secret,
                            resv[k].after, att[a].epoch)
  <2>1. att' = [att EXCEPT ![a] = h] /\ UNCHANGED quietVars
    BY <1>1, <1>4, Zenon DEF Reserve, LicenseSide, quietVars
  <2>2. /\ tbs \in Tbs /\ tbs.kind = "credential" /\ tbs.machine = resv[k].machine
        /\ tbs.secret = resv[k].secret /\ tbs.after = resv[k].after
    BY <1>2, Zenon DEF Artifact, Tbs
  <2> HIDE DEF tbs
  <2>3. h = Handler("sign", k, att[a].epoch, resv[k].machine, tbs, NoEnvelope)
    BY Zenon DEF Credential, SealedSecret, tbs
  <2>4. /\ h \in Handlers /\ h.pc = "sign" /\ h.key = k /\ h.machine = resv[k].machine
        /\ h.tbs = tbs
    BY ONLY <1>2, <2>2, <2>3, NoneTypes DEF Handler, Handlers
  <2> HIDE DEF h
  <2>5. Drawn(att, resv[k].machine) /\ resv[k].after = days[k]
    BY <1>2, <1>4, Zenon DEF Replays, AnswerInv, SeatInv
  <2>6. Drawn(att', resv[k].machine)
    BY <1>2, <2>1, <2>4, <2>5, DrawnMove, Zenon
  <2>7. HandlerInv(h, att', resv, seat, days, signed, epochKey, expired)
    <3>1. days[k] <= days[k]
      BY <1>2
    <3> QED BY <1>2, <2>2, <2>4, <2>5, <2>6, <3>1, Zenon DEF HandlerInv, CarriesCredential
  <2> QED BY <2>1, <2>4, <2>7, HandlerStep, Zenon DEF quietVars
<1>5. CASE ~Replays(k) /\ seat.status = "pending"
  <2>1. att' = [att EXCEPT ![a] = Over("refused")] /\ UNCHANGED quietVars
    BY <1>1, <1>5, Zenon DEF Reserve, LicenseSide, quietVars
  <2>2. Over("refused") \in Handlers /\ Over("refused").pc = "refused"
    BY OverType
  <2>3. HandlerInv(Over("refused"), att', resv, seat, days, signed, epochKey, expired)
    BY OverInv
  <2> QED BY <2>1, <2>2, <2>3, HandlerStep, Zenon DEF quietVars
<1>6. CASE ~Replays(k) /\ seat.status # "pending"
  <2>1. /\ resv' = [resv EXCEPT ![k] = r]
        /\ seat' = IF SeatLive THEN seat ELSE Seat("pending", a, a)
        /\ att' = [att EXCEPT ![a] = Credential(a, r)]
        /\ UNCHANGED <<days, issued, answered>>
    BY <1>6, Zenon DEF Reserve
  <2> QED BY <1>1, <1>6, <2>1, ReserveAnew, Zenon
<1> QED BY <1>3, <1>4, <1>5, <1>6, Zenon

\* /complete: the first completion stores a credential whose machine and secret
\* are the reservation's, and the seat it makes active is the one it held.
LEMMA FinishKeeps ==
    ASSUME AnswerInv, NEW a \in Attempt, Finish(a)
    PROVE  AnswerInv'
<1> DEFINE k == att[a].key
           env == Completion(a)
           r == Reservation(resv[k].machine, resv[k].secret, resv[k].after, env)
           ok == /\ resv[k].machine = att[a].machine
                 /\ \/ resv[k].env # NoEnvelope
                    \/ CompletionMatches(a) /\ SeatLive /\ seat.machine = att[a].machine
<1>1. att[a].pc = "complete" /\ UNCHANGED <<chain, signed, expired, epochRow, epochKey, written>>
  BY Zenon DEF Finish, IssuerSide, KeySide
<1>2. CASE ~ok
  <2>1. att' = [att EXCEPT ![a] = Over("refused")] /\ UNCHANGED quietVars
    BY <1>1, <1>2, Zenon DEF Finish, LicenseSide, quietVars
  <2>2. Over("refused") \in Handlers /\ Over("refused").pc = "refused"
    BY OverType
  <2>3. HandlerInv(Over("refused"), att', resv, seat, days, signed, epochKey, expired)
    BY OverInv
  <2> QED BY <2>1, <2>2, <2>3, HandlerStep, Zenon DEF quietVars
<1>3. CASE ok
  <2>1. /\ Answer(a, env) /\ resv' = [resv EXCEPT ![k] = r]
        /\ seat' = IF resv[k].env # NoEnvelope THEN seat
                   ELSE Seat("active", att[a].machine, resv[k].secret)
        /\ issued' = issued \cup {env.tbs} /\ days' = days
    BY <1>3, Zenon DEF Finish, CompletionAnswer
  <2>2. CarriesCredential(att[a], att, resv, seat, days) /\ att[a].env.tbs = att[a].tbs
    BY <1>1, Zenon DEF AnswerInv, HandlersInv, HandlerInv
  <2>3. /\ k \in IssueKey \ BatchKeys /\ att[a].tbs.kind = "credential"
        /\ att[a].tbs.machine = att[a].machine
        /\ Drawn(att, att[a].machine) /\ att[a].machine \in Attempt
    BY <1>3, <2>2, Zenon DEF CarriesCredential, Drawn
  <2>4. /\ att \in [Attempt -> Handlers] /\ att[a].env \in Envelopes /\ att[a].machine \in Nat \ {0}
        /\ resv \in [IssueKey -> [machine: Nat, secret: Nat, after: Nat, env: Envelopes]]
        /\ resv[k] \in [machine: Nat, secret: Nat, after: Nat, env: Envelopes]
        /\ seat \in [status: {"none", "pending", "active", "ended"}, machine: Nat, secret: Nat]
    BY <2>3, IssuanceAssumption, Zenon DEF AnswerInv, IssuanceTypeOK, Handlers
  <2>5. env \in Envelopes /\ env # NoEnvelope
    BY <2>2, <2>3, <2>4, NoneTypes, Zenon DEF Completion
  <2>6. /\ resv[k].env # NoEnvelope => env = resv[k].env
        /\ resv[k].env = NoEnvelope => env = att[a].env
    BY Zenon DEF Completion
  <2> HIDE DEF env
  <2>7. /\ r.machine = resv[k].machine /\ r.secret = resv[k].secret /\ r.env = env
        /\ r.after = resv[k].after
        /\ r \in [machine: Nat, secret: Nat, after: Nat, env: Envelopes]
        /\ resv[k].env # NoEnvelope => r = resv[k]
    BY <2>4, <2>5, <2>6, Zenon DEF Reservation
  <2> HIDE DEF r
  <2>8. resv'[k] = r /\ \A j \in IssueKey : j # k => resv'[j] = resv[j]
    BY <2>1, <2>3, <2>4, Zenon
  <2>9. \A m : HoldsSeat(seat', m) => HoldsSeat(seat, m)
    BY <1>3, <2>1, Zenon DEF HoldsSeat, Seat, SeatLive
  <2>20. resv[k].env = NoEnvelope => att[a].tbs.secret = resv[k].secret
    <3>1. resv[k].machine # 0 => resv[k].after = days[k]
      BY <2>3, Zenon DEF AnswerInv, SeatInv
    <3>2. resv[k].machine # 0
      BY <1>3, <2>4
    <3> QED BY <1>3, <2>2, <3>1, <3>2, Zenon DEF CompletionMatches, CarriesCredential
  <2>10. \A j \in IssueKey : resv[j].env # NoEnvelope => resv'[j] = resv[j]
    BY <2>7, <2>8, Zenon
  <2>11. \A j \in IssueKey : resv'[j].machine = resv[j].machine /\ resv'[j].secret = resv[j].secret
    BY <2>7, <2>8, Zenon
  <2>12. /\ HandlersInv' /\ AnsweredInv' /\ SameAnswer' /\ SignerInv' /\ SignedByItsEpoch'
         /\ ConflictNeedsExpiry' /\ att' \in [Attempt -> Handlers]
         /\ \A m : Drawn(att, m) => Drawn(att', m)
    BY <1>1, <2>1, <2>3, <2>5, <2>7, <2>8, <2>9, <2>10, <2>11, AnswerKeeps, Zenon
  <2>13. IssuanceTypeOK'
    <3>1. resv' \in [IssueKey -> [machine: Nat, secret: Nat, after: Nat, env: Envelopes]]
      BY <2>1, <2>4, <2>7, Zenon
    <3>2. seat' \in [status: {"none", "pending", "active", "ended"}, machine: Nat, secret: Nat]
      BY <2>1, <2>4, Zenon DEF Seat
    <3>3. issued' \subseteq Tbs
      BY <2>1, <2>5, Zenon DEF AnswerInv, IssuanceTypeOK, Envelopes
    <3> QED BY <1>1, <2>1, <2>12, <3>1, <3>2, <3>3, Zenon DEF AnswerInv, IssuanceTypeOK
  <2>14. SeatInv'
    <3>1. seat'.machine # 0 => Drawn(att', seat'.machine)
      BY <2>1, <2>3, <2>12, Zenon DEF Seat, AnswerInv, SeatInv
    <3>2. seat'.status \in {"pending", "active"} => seat'.machine # 0
      BY <2>1, <2>4, Zenon DEF Seat, AnswerInv, SeatInv
    <3>3. ASSUME NEW j \in IssueKey
          PROVE  /\ resv'[j].machine # 0 =>
                      Drawn(att', resv'[j].machine) /\ resv'[j].after = days'[j]
                 /\ resv'[j].env # NoEnvelope => resv'[j].machine # 0
      <4>1. /\ resv[j].machine # 0 => Drawn(att', resv[j].machine) /\ resv[j].after = days'[j]
            /\ resv[j].env # NoEnvelope => resv[j].machine # 0
        BY <2>1, <2>12, Zenon DEF AnswerInv, SeatInv
      <4>2. r.machine # 0 /\ r.after = resv[k].after
        BY <1>3, <2>4, <2>7
      <4>3. CASE j = k
        BY <2>7, <2>8, <4>1, <4>2, <4>3, Zenon
      <4>4. CASE j # k
        BY <2>8, <4>1, <4>4, Zenon
      <4> QED BY <4>3, <4>4
    <3> QED BY <3>1, <3>2, <3>3, Zenon DEF SeatInv
  <2>15. CredentialMatchesSeat'
    <3>1. env.tbs.machine = r.machine /\ env.tbs.secret = r.secret
      BY <1>3, <2>2, <2>3, <2>6, <2>7, <2>20, Zenon DEF AnswerInv, CredentialMatchesSeat
    <3>2. ASSUME NEW j \in IssueKey, resv'[j].env # NoEnvelope
          PROVE  /\ resv'[j].env.tbs.machine = resv'[j].machine
                 /\ resv'[j].env.tbs.secret = resv'[j].secret
      BY <2>7, <2>8, <3>1, <3>2, Zenon DEF AnswerInv, CredentialMatchesSeat
    <3>3. ASSUME seat'.status = "active"
          PROVE  \E tbs \in issued' : tbs.machine = seat'.machine /\ tbs.secret = seat'.secret
      <4>1. CASE resv[k].env # NoEnvelope
        BY <2>1, <3>3, <4>1, Zenon DEF AnswerInv, CredentialMatchesSeat
      <4>2. CASE resv[k].env = NoEnvelope
        <5>1. seat'.machine = att[a].machine /\ seat'.secret = resv[k].secret
          BY <2>1, <4>2, Zenon DEF Seat
        <5>2. env.tbs \in issued'
          BY <2>1, Zenon
        <5>3. env.tbs.machine = seat'.machine /\ env.tbs.secret = seat'.secret
          BY ONLY <1>3, <2>7, <3>1, <5>1
        <5> QED BY <5>2, <5>3, Zenon
      <4> QED BY <4>1, <4>2, Zenon
    <3> QED BY <3>2, <3>3, Zenon DEF CredentialMatchesSeat
  <2> QED BY <2>12, <2>13, <2>14, <2>15 DEF AnswerInv
<1> QED BY <1>2, <1>3, Zenon

\* The steps beside the handlers: the seat may end, the signer may forget and the
\* epoch may advance, and every handler stays what it has to be.
LEMMA BesideKeeps ==
    ASSUME AnswerInv, UNCHANGED <<att, resv, days, chain, written, answered>>,
           \A m : HoldsSeat(seat', m) => HoldsSeat(seat, m),
           epochKey' \in Nat, epochKey <= epochKey',
           expired' = 0 => expired = 0 /\ signed' = signed,
           signed' \subseteq signed
    PROVE  HandlersInv' /\ AnsweredInv' /\ SameAnswer' /\ SignerInv' /\ SignedByItsEpoch'
<1>1. epochKey \in Nat
  BY DEF AnswerInv, IssuanceTypeOK
<1>2. \A e : Made(e, signed, epochKey, expired) => Made(e, signed', epochKey', expired')
  BY <1>1, MadeKept
<1>3. \A h : CarriesCredential(h, att, resv, seat, days) => CarriesCredential(h, att', resv', seat', days')
  BY CredentialKept, Zenon
<1>4. HandlersInv'
  <2>1. ASSUME NEW x \in Attempt
        PROVE  HandlerInv(att'[x], att', resv', seat', days', signed', epochKey', expired')
    <3>1. HandlerInv(att[x], att, resv, seat, days, signed, epochKey, expired)
      BY Zenon DEF AnswerInv, HandlersInv
    <3> QED BY <1>2, <1>3, <3>1, Zenon DEF HandlerInv
  <2> QED BY <2>1 DEF HandlersInv
<1>5. AnsweredInv' /\ SameAnswer' /\ SignedByItsEpoch'
  BY Zenon DEF AnswerInv, AnsweredInv, SameAnswer, SignedByItsEpoch
<1>6. SignerInv'
  <2>1. \A e \in signed' : e.by \in 1..epochKey'
    BY <1>1 DEF AnswerInv, SignerInv
  <2> QED BY <1>2, <2>1, Zenon DEF AnswerInv, SignerInv
<1> QED BY <1>4, <1>5, <1>6

\* The seat's end, the expiry of an idem row, the two halves of a rotation.
LEMMA BesideSteps ==
    ASSUME AnswerInv, SeatEnds \/ IdemExpires \/ RotateRow \/ RotateKey
    PROVE  AnswerInv'
<1>1. /\ epochKey \in Nat \ {0} /\ epochRow \in Nat /\ expired \in Nat /\ signed \subseteq Envelopes
      /\ seat \in [status: {"none", "pending", "active", "ended"}, machine: Nat, secret: Nat]
  BY DEF AnswerInv, IssuanceTypeOK
<1>2. UNCHANGED <<att, resv, days, issued, chain, written, answered>>
  BY Zenon DEF SeatEnds, IdemExpires, RotateRow, RotateKey, LicenseSide, IssuerSide, KeySide
<1>3. /\ seat' \in {seat, Seat("ended", seat.machine, seat.secret)}
      /\ epochKey' \in {epochKey, epochKey + 1} /\ epochRow' \in {epochRow, epochRow + 1}
      /\ (expired' = expired /\ signed' = signed)
           \/ (expired' = expired + 1 /\ signed' \subseteq signed)
  BY Zenon DEF SeatEnds, IdemExpires, RotateRow, RotateKey, LicenseSide, IssuerSide, KeySide
<1>4. /\ \A m : HoldsSeat(seat', m) => HoldsSeat(seat, m)
      /\ seat'.machine = seat.machine
      /\ seat'.status \in {"pending", "active"} => seat' = seat
      /\ seat' \in [status: {"none", "pending", "active", "ended"}, machine: Nat, secret: Nat]
  BY <1>1, <1>3 DEF HoldsSeat, Seat
<1>5. /\ epochKey' \in Nat \ {0} /\ epochKey <= epochKey' /\ epochRow' \in Nat
      /\ expired' \in Nat /\ expired <= expired'
      /\ expired' = 0 => expired = 0 /\ signed' = signed
      /\ signed' \subseteq signed
  BY <1>1, <1>3
<1>6. HandlersInv' /\ AnsweredInv' /\ SameAnswer' /\ SignerInv' /\ SignedByItsEpoch'
  BY <1>2, <1>4, <1>5, BesideKeeps, Zenon
<1>7. IssuanceTypeOK'
  BY <1>2, <1>4, <1>5, Zenon DEF AnswerInv, IssuanceTypeOK
<1>8. SeatInv' /\ CredentialMatchesSeat'
  BY <1>2, <1>4, Zenon DEF AnswerInv, SeatInv, CredentialMatchesSeat
<1>9. ConflictNeedsExpiry'
  BY <1>1, <1>2, <1>5 DEF AnswerInv, ConflictNeedsExpiry
<1> QED BY <1>6, <1>7, <1>8, <1>9 DEF AnswerInv

\* A reservation's row is reclaimed: what was answered from it and what handlers
\* carry from it is of an earlier day from now on.
LEMMA ExpiresKeeps ==
    ASSUME AnswerInv, NEW k \in IssueKey, ReserveExpires(k)
    PROVE  AnswerInv'
<1>1. /\ resv' = [resv EXCEPT ![k] = NoReservation] /\ days' = [days EXCEPT ![k] = days[k] + 1]
      /\ UNCHANGED <<seat, issued, chain, signed, expired, epochRow, epochKey, written, att, answered>>
  BY DEF ReserveExpires, IssuerSide, KeySide
<1>2. /\ resv \in [IssueKey -> [machine: Nat, secret: Nat, after: Nat, env: Envelopes]]
      /\ days \in [IssueKey -> Nat]
  BY DEF AnswerInv, IssuanceTypeOK
<1>3. /\ NoReservation \in [machine: Nat, secret: Nat, after: Nat, env: Envelopes]
      /\ NoReservation.env = NoEnvelope /\ NoReservation.machine = 0
  BY NoneTypes DEF NoReservation, Reservation
<1>4. /\ resv'[k].env = NoEnvelope /\ resv'[k].machine = 0 /\ days'[k] = days[k] + 1
      /\ \A j \in IssueKey : j # k => resv'[j] = resv[j] /\ days'[j] = days[j]
  BY <1>1, <1>2, <1>3
<1>5. ASSUME NEW n \in Nat, n <= days[k] PROVE n <= days'[k] /\ n # days'[k]
  BY <1>2, <1>4, <1>5
<1> HIDE DEF NoReservation
<1>6. IssuanceTypeOK'
  <2>1. resv' \in [IssueKey -> [machine: Nat, secret: Nat, after: Nat, env: Envelopes]]
    BY <1>1, <1>2, <1>3, Zenon
  <2>2. days' \in [IssueKey -> Nat]
    BY <1>1, <1>2
  <2> QED BY <1>1, <2>1, <2>2, Zenon DEF AnswerInv, IssuanceTypeOK
<1>7. HandlersInv'
  <2>1. ASSUME NEW a \in Attempt, CarriesCredential(att[a], att, resv, seat, days)
        PROVE  CarriesCredential(att[a], att', resv', seat', days')
    <3>1. att[a].tbs.after \in Nat
      BY Zenon DEF AnswerInv, IssuanceTypeOK, Handlers, Tbs
    <3>2. CASE att[a].key = k
      BY <1>1, <1>5, <2>1, <3>1, <3>2, Zenon DEF CarriesCredential
    <3>3. CASE att[a].key # k
      BY <1>1, <1>4, <2>1, <3>3, Zenon DEF CarriesCredential
    <3> QED BY <3>2, <3>3
  <2>2. ASSUME NEW a \in Attempt
        PROVE  HandlerInv(att'[a], att', resv', seat', days', signed', epochKey', expired')
    <3>1. HandlerInv(att[a], att, resv, seat, days, signed, epochKey, expired)
      BY Zenon DEF AnswerInv, HandlersInv
    <3> QED BY <1>1, <2>1, <3>1, Zenon DEF HandlerInv
  <2> QED BY <2>2, Zenon DEF HandlersInv
<1>8. SeatInv'
  <2>1. SeatInv
    BY DEF AnswerInv
  <2>2. ASSUME NEW j \in IssueKey
        PROVE  /\ resv'[j].machine # 0 => Drawn(att', resv'[j].machine) /\ resv'[j].after = days'[j]
               /\ resv'[j].env # NoEnvelope => resv'[j].machine # 0
    <3>1. CASE j = k
      BY ONLY <1>4, <3>1
    <3>2. CASE j # k
      BY ONLY <1>1, <1>4, <2>1, <2>2, <3>2, Zenon DEF SeatInv
    <3> QED BY ONLY <3>1, <3>2
  <2> QED BY ONLY <1>1, <2>1, <2>2, Zenon DEF SeatInv
<1>9. AnsweredInv'
  <2>1. ASSUME NEW x \in answered
        PROVE  /\ x[1] \in IssueKey /\ x[2] \in Nat /\ x[2] <= days'[x[1]]
               /\ x[1] \in RelayKeys => written[x[1]] # NoEnvelope /\ x[3] = written[x[1]]
               /\ x[1] \notin RelayKeys /\ x[2] = days'[x[1]] =>
                    resv'[x[1]].env # NoEnvelope /\ x[3] = resv'[x[1]].env
    <3>1. CASE x[1] = k
      BY <1>5, <3>1, Zenon DEF AnswerInv, AnsweredInv
    <3>2. CASE x[1] # k
      BY <1>4, <3>2, Zenon DEF AnswerInv, AnsweredInv
    <3> QED BY <3>1, <3>2
  <2> QED BY <1>1, <2>1, Zenon DEF AnsweredInv
<1>10. CredentialMatchesSeat'
  BY <1>1, <1>4, Zenon DEF AnswerInv, CredentialMatchesSeat
<1>11. SignerInv' /\ SameAnswer' /\ SignedByItsEpoch' /\ ConflictNeedsExpiry'
  BY <1>1, Zenon DEF AnswerInv, SignerInv, SameAnswer, SignedByItsEpoch, ConflictNeedsExpiry
<1> QED BY <1>6, <1>7, <1>8, <1>9, <1>10, <1>11 DEF AnswerInv

\* A write-once object takes the handler's envelope, or keeps the one it has.
LEMMA WriteKeeps ==
    ASSUME AnswerInv, NEW a \in Attempt, RelayWrite(a) \/ PublishBatch(a)
    PROVE  AnswerInv'
<1> DEFINE k == att[a].key
           env == RelayAnswer(a)
<1>1. /\ att[a].pc = "write"
      /\ UNCHANGED <<seat, resv, days, issued, chain, signed, expired, epochRow, epochKey>>
  BY Zenon DEF RelayWrite, PublishBatch, LicenseSide, IssuerSide, KeySide
<1>2. /\ att[a].env.tbs = att[a].tbs /\ Made(att[a].env, signed, epochKey, expired)
      /\ CarriesResponse(att[a]) \/ CarriesBatch(att[a])
  BY <1>1, Zenon DEF AnswerInv, HandlersInv, HandlerInv
<1>3. /\ k \in IssueKey /\ k \in RelayKeys \cup BatchKeys /\ ~(k \in RelayKeys /\ k \in BatchKeys)
      /\ k \in BatchKeys => att[a].tbs = BatchOf(k)
      /\ att[a].env.tbs.kind \in {"response", "batch"}
  <2>1. BatchOf(k).kind = "batch"
    BY Zenon DEF BatchOf, Artifact
  <2> QED BY <1>2, <2>1, IssuanceAssumption, Zenon DEF CarriesResponse, CarriesBatch
<1>4. /\ att \in [Attempt -> Handlers] /\ att[a].env \in Envelopes
      /\ written \in [IssueKey -> Envelopes]
  BY Zenon DEF AnswerInv, IssuanceTypeOK, Handlers
<1>5. /\ env \in Envelopes /\ env # NoEnvelope
      /\ env = (IF written[k] = NoEnvelope THEN att[a].env ELSE written[k])
  BY <1>3, <1>4, NoneTypes, Zenon DEF RelayAnswer
<1>6. written' = [written EXCEPT ![k] = env]
  BY <1>5, Zenon DEF RelayWrite, PublishBatch
<1>7. /\ k \in RelayKeys => answered' = answered \cup {<<k, days[k], env>>}
      /\ k \notin RelayKeys => answered' = answered
  BY <1>3, Zenon DEF RelayWrite, PublishBatch
<1> HIDE DEF env
<1>8. PICK pc \in {"done", "conflict"} :
        /\ att' = [att EXCEPT ![a] = Over(pc)]
        /\ pc = "conflict" => k \in BatchKeys /\ written[k] \notin {NoEnvelope, att[a].env}
  <2>1. CASE RelayWrite(a)
    BY <2>1, Zenon DEF RelayWrite
  <2>2. CASE PublishBatch(a)
    <3>1. CASE written[k] \in {NoEnvelope, att[a].env}
      BY <2>2, <3>1, Zenon DEF PublishBatch
    <3>2. CASE written[k] \notin {NoEnvelope, att[a].env}
      BY <2>2, <3>2, Zenon DEF PublishBatch
    <3> QED BY <3>1, <3>2, Zenon
  <2> QED BY <2>1, <2>2, Zenon
<1>9. Over(pc) \in Handlers /\ Over(pc).pc = pc /\ att' \in [Attempt -> Handlers]
  BY <1>4, <1>8, OverType
<1>10. \A m : Drawn(att, m) => Drawn(att', m)
  BY <1>4, <1>8, <1>9, DrawnMove, Zenon
<1>11. /\ written' \in [IssueKey -> Envelopes] /\ written'[k] = env
       /\ \A j \in IssueKey : j # k => written'[j] = written[j]
       /\ \A j \in IssueKey : written[j] # NoEnvelope => written'[j] = written[j]
  BY ONLY <1>3, <1>4, <1>5, <1>6
<1>12. HandlersInv'
  <2>1. \A x : CarriesCredential(x, att, resv, seat, days) => CarriesCredential(x, att', resv', seat', days')
    BY ONLY <1>1, <1>10, CredentialKept
  <2>2. \A e : Made(e, signed, epochKey, expired) => Made(e, signed', epochKey', expired')
    BY <1>1
  <2>3. HandlerInv(Over(pc), att', resv', seat', days', signed', epochKey', expired')
    BY OverInv
  <2> QED BY <1>4, <1>8, <2>1, <2>2, <2>3, HandlersMove, Zenon DEF AnswerInv
<1>13. IssuanceTypeOK'
  BY <1>1, <1>9, <1>11, Zenon DEF AnswerInv, IssuanceTypeOK
<1>14. SeatInv' /\ CredentialMatchesSeat' /\ SignedByItsEpoch'
  BY <1>1, <1>10, Zenon DEF AnswerInv, SeatInv, CredentialMatchesSeat, SignedByItsEpoch
<1>15. AnsweredInv' /\ SameAnswer'
  <2>1. \/ answered' = answered
        \/ k \in RelayKeys /\ answered' = answered \cup {<<k, days[k], env>>}
    BY <1>7, Zenon
  <2> HIDE DEF k
  <2>2. \A j \in IssueKey : resv[j].env # NoEnvelope => resv'[j].env = resv[j].env
    BY <1>1
  <2> QED BY <1>1, <1>3, <1>5, <1>11, <2>1, <2>2, AnsweredMove, Zenon
<1>16. SignerInv'
  <2>1. ASSUME NEW j \in BatchKeys, written'[j] # NoEnvelope
        PROVE  written'[j].tbs = BatchOf(j) /\ Made(written'[j], signed', epochKey', expired')
    <3>1. j \in IssueKey
      BY IssuanceAssumption
    <3> QED BY <1>1, <1>2, <1>3, <1>5, <1>11, <2>1, <3>1, Zenon DEF AnswerInv, SignerInv
  <2> QED BY <1>1, <2>1, Zenon DEF AnswerInv, SignerInv
<1>17. ConflictNeedsExpiry'
  <2>1. CASE pc = "done"
    BY <1>1, <1>4, <1>8, <1>9, <2>1 DEF AnswerInv, ConflictNeedsExpiry
  <2>2. CASE pc = "conflict"
    <3> DEFINE e == written[k]
               f == att[a].env
    <3>1. /\ k \in BatchKeys /\ e # NoEnvelope /\ e # f
          /\ e \in Envelopes /\ f \in Envelopes
      BY ONLY <1>3, <1>4, <1>8, <2>2
    <3>2. /\ e.tbs = f.tbs /\ Made(e, signed, epochKey, expired)
          /\ Made(f, signed, epochKey, expired)
      BY <1>2, <1>3, <3>1, Zenon DEF AnswerInv, SignerInv
    <3> HIDE DEF e, f
    <3>3. e.by # f.by
      BY <3>1, <3>2 DEF Envelopes
    <3>4. expired # 0
      BY <3>1, <3>2, Zenon DEF Made, AnswerInv, SignerInv
    <3>5. epochKey # 1
      BY <3>2, <3>3 DEF Made
    <3>6. expired' > 0 /\ epochKey' > 1
      BY <1>1, <3>4, <3>5 DEF AnswerInv, IssuanceTypeOK
    <3> QED BY <3>6 DEF ConflictNeedsExpiry
  <2> QED BY <2>1, <2>2
<1> QED BY <1>12, <1>13, <1>14, <1>15, <1>16, <1>17 DEF AnswerInv

\* The first state.
LEMMA AnswerInit == IssuanceInit => AnswerInv
<1> SUFFICES ASSUME IssuanceInit PROVE AnswerInv
  OBVIOUS
<1>1. NoAttempt \in Handlers /\ NoAttempt.pc = "idle"
  BY OverType DEF NoAttempt
<1>2. /\ NoReservation \in [machine: Nat, secret: Nat, after: Nat, env: Envelopes]
      /\ NoReservation.env = NoEnvelope /\ NoReservation.machine = 0
  BY NoneTypes DEF NoReservation, Reservation
<1>3. /\ NoSeat \in [status: {"none", "pending", "active", "ended"}, machine: Nat, secret: Nat]
      /\ NoSeat.status = "none" /\ NoSeat.machine = 0
  BY DEF NoSeat, Seat
<1> HIDE DEF NoAttempt, NoReservation, NoSeat, NoEnvelope
<1>4. IssuanceTypeOK
  BY <1>1, <1>2, <1>3, NoneTypes DEF IssuanceInit, IssuanceTypeOK
<1>5. HandlersInv
  BY <1>1, Zenon DEF IssuanceInit, HandlersInv, HandlerInv
<1>6. SeatInv /\ CredentialMatchesSeat
  BY <1>2, <1>3 DEF IssuanceInit, SeatInv, CredentialMatchesSeat
<1>7. AnsweredInv /\ SameAnswer /\ SignedByItsEpoch
  BY DEF IssuanceInit, AnsweredInv, SameAnswer, SignedByItsEpoch
<1>8. SignerInv
  BY IssuanceAssumption DEF IssuanceInit, SignerInv
<1>9. ConflictNeedsExpiry
  BY <1>1 DEF IssuanceInit, ConflictNeedsExpiry
<1> QED BY <1>4, <1>5, <1>6, <1>7, <1>8, <1>9 DEF AnswerInv

\* Every step keeps what the answers rest on.
LEMMA AnswerNext ==
    ASSUME AnswerInv, [IssuanceNext]_issuanceVars
    PROVE  AnswerInv'
<1>1. ASSUME UNCHANGED <<quietVars, att>> PROVE AnswerInv'
  BY <1>1, Zenon DEF quietVars, AnswerInv, IssuanceTypeOK, HandlersInv, SeatInv, AnsweredInv, SignerInv,
     SameAnswer, CredentialMatchesSeat, SignedByItsEpoch, ConflictNeedsExpiry
<1>2. ASSUME NEW a \in Attempt,
             \/ \E k \in IssueKey : StartAttempt(a, k)
             \/ Reserve(a) \/ Finish(a) \/ SignLookup(a) \/ SignAppend(a)
             \/ RelayWrite(a) \/ PublishBatch(a) \/ Dies(a)
      PROVE  AnswerInv'
  BY <1>2, StartKeeps, ReserveKeeps, FinishKeeps, LookupKeeps, SignKeeps, WriteKeeps, DiesKeeps
<1>3. CASE ValidateStep
  BY <1>3, ValidateKeeps DEF ValidateStep
<1>4. CASE ArchiveStep
  <2>1. UNCHANGED <<quietVars, att>>
    <3>1. ASSUME NEW marked \in BOOLEAN, FlushOne(marked) PROVE UNCHANGED <<quietVars, att>>
      BY <3>1 DEF FlushOne, quietVars, LicenseSide, KeySide
    <3>2. ASSUME NEW m \in events, ArchiveR2(m) PROVE UNCHANGED <<quietVars, att>>
      BY <3>2 DEF ArchiveR2, quietVars, LicenseSide, IssuerSide, KeySide
    <3>3. ASSUME NEW m \in events, NEW acked \in BOOLEAN, IndexD1(m, acked)
          PROVE  UNCHANGED <<quietVars, att>>
      BY <3>3 DEF IndexD1, quietVars, LicenseSide, IssuerSide, KeySide
    <3> QED BY <1>4, <3>1, <3>2, <3>3 DEF ArchiveStep
  <2> QED BY <1>1, <2>1
<1>5. CASE UNCHANGED issuanceVars
  BY <1>1, <1>5 DEF issuanceVars, quietVars
<1>6. ASSUME NEW k \in IssueKey, ReserveExpires(k) PROVE AnswerInv'
  BY <1>6, ExpiresKeeps
<1> QED BY <1>2, <1>3, <1>4, <1>5, <1>6, BesideSteps DEF IssuanceNext, RequestStep, ForgetStep,
        RotateStep

\* AnswersAgree, whatever the handlers, keys, rotations and expiries are: all
\* answers to one Idempotency-Key have the same bytes, online until the LicenseDO
\* reclaims the key's row and over the relay for ever; although rows expire under
\* handlers that replayed them, a stored credential has its reservation's machine
\* and secret and an active seat those of a credential that was issued; every
\* signature is by the key of the epoch it names; and a batch's second publication
\* finds other bytes only after an expiry and a rotation (issue_activation,
\* /reserve, /complete, reclaim, sign, archive_activation_response, publish_batch).
THEOREM AnswersSafe == IssuanceSpec => []AnswersAgree
<1>1. AnswerInv => AnswersAgree
  BY DEF AnswerInv, AnswersAgree
<1>2. AnswerInv /\ [IssuanceNext]_issuanceVars => AnswerInv'
  BY AnswerNext
<1> QED BY <1>1, <1>2, AnswerInit, PTL DEF IssuanceSpec

\* IssuanceAudited, likewise: no entry of the issuance chain is lost between the
\* outbox and the index, none is made twice before an idem row expires, the index
\* lists only what the archive holds, and no rise of the score alerts twice
\* (append_issuance, flush_outbox, archive_r2, index_d1, validate).
THEOREM AuditSafe == IssuanceSpec => []IssuanceAudited
<1> DEFINE Inv == AnswerInv /\ AuditInv /\ IssuanceAudited
<1>1. IssuanceInit => Inv
  BY AnswerInit, AuditInit
<1>2. Inv /\ [IssuanceNext]_issuanceVars => Inv'
  <2> SUFFICES ASSUME Inv, [IssuanceNext]_issuanceVars PROVE Inv'
    OBVIOUS
  <2>1. AnswerInv'
    BY AnswerNext
  <2>2. IssuanceTypeOK
    BY DEF AnswerInv
  <2> QED BY <2>1, <2>2, AuditNext
<1>3. Inv => IssuanceAudited
  OBVIOUS
<1> QED BY <1>1, <1>2, <1>3, PTL DEF IssuanceSpec
=============================================================================
