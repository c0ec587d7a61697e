------------------------------- MODULE Client --------------------------------
(***************************************************************************)
(* The desktop client (copylocker-client, copylocker-core): the license    *)
(* state machine, its clock guard, activation, validation, deactivation,   *)
(* revocation sync, key derivation, the background scheduler and the       *)
(* encrypted store, against an honest server.                              *)
(*                                                                         *)
(* A call of the host and the scheduler's call interleave at every await;  *)
(* a section under the runtime lock is one step.  The process may exit at  *)
(* any step and start again from the store.                                *)
(*                                                                         *)
(* The server is one of the two the repository has.  The Worker stores the *)
(* batch of revocation n under cursor n - 1, issues credentials with the   *)
(* epoch its LicenseDO has seen and serves the key set last rebuilt; the   *)
(* server of the client's own tests numbers batches as the client asks for *)
(* them and answers every request with its current state.                  *)
(***************************************************************************)
EXTENDS Integers, Sequences, FiniteSets

CONSTANTS
    Epoch,          \* signing epochs
    NotBefore,      \* the validity window of each epoch's certificate:
    NotAfter,       \*   [NotBefore, NotAfter)
    FirstEpochs,    \* the epochs the server has at the start
    Peers,          \* the servers to consider: "worker", "tests" (client_tests.rs)
    Verdict,        \* the verdicts of a ticket: "ok", and "denied" for the two others
    RefreshLife,    \* refresh_after_secs and grace_seconds of the policy
    GraceLife,
    LicenseEnd,     \* expires_at of the license, 0: unlimited
    Skew,           \* SKEW_TOLERANCE_SECS
    Threshold,      \* rollback_threshold
    Lags,           \* how far the device's clock may be behind the server's
    Ops,            \* the calls the host makes: activate, validate, deactivate
    Suspends,       \* whether the license may be suspended
    MaxNow,         \* bound: the time horizon; it stands for every later time
    MaxLog,         \* bound: revocations
    MaxSeat,        \* bound: activations of this device
    MaxRestart      \* bound: restarts of the process

ASSUME ClientAssumption ==
    /\ FirstEpochs \subseteq Epoch
    /\ Peers \subseteq {"worker", "tests"}
    /\ {RefreshLife, GraceLife} \subseteq Nat \ {0}
    /\ {LicenseEnd, Skew, Threshold, MaxNow, MaxLog, MaxSeat, MaxRestart} \subseteq Nat
    /\ Lags \subseteq Nat /\ 0 \in Lags
    /\ Suspends \in BOOLEAN

VARIABLES
    now,        \* the server's clock
    lag,        \* how far the device's clock is behind it
    online,     \* whether the device reaches the server
    peer,       \* which server it is
    log,        \* published revocations: what each one revokes and who signed its batch
    epochs,     \* the epochs imported and not revoked
    revoking,   \* the epoch whose revocation D1 holds and KV does not, "none"
    rebuild,    \* a key set rebuild is owed
    keyset,     \* KV keys:current: its certificates and revocation_epoch
    license,    \* LicenseDO: status, revocation_epoch and expires_at
    seat,       \* LicenseDO: the status of each activation of this device
    core,       \* StateMachine: state, has_credential, clock guard and deadlines
    rt,         \* Runtime: snapshot, credential, chain and max_revocation_epoch
    disk,       \* the store record
    job,        \* what the host's call and the scheduler's call are doing
    flight,     \* validation_in_flight
    sched,      \* SchedulerState, online_hint and validation_requested
    process,    \* whether the client was constructed, and the restarts so far
    key         \* the last Feature Key handed out: clock mark and deadlines then

feed == <<peer, log, epochs, revoking, rebuild, keyset>>
server == <<feed, license, seat>>
client == <<core, rt, disk, job, flight, sched, process, key>>
vars == <<now, lag, online, server, client>>

Task == {"host", "sched"}
Time == 0..(MaxNow + RefreshLife + GraceLife)
Never == -1

Max(a, b) == IF a > b THEN a ELSE b
Min(a, b) == IF a < b THEN a ELSE b

-----------------------------------------------------------------------------
(* Artifacts, and what the client keeps.                                   *)

\* A signed artifact: its kind, machine, signing epoch, revocation epoch,
\* server time and verdict.
Art(kind, m, e, rev, ok) ==
    [kind |-> kind, m |-> m, e |-> e, rev |-> rev, at |-> now, ok |-> ok]
NoArt == [kind |-> "none", m |-> 0, e |-> "none", rev |-> 0, at |-> 0, ok |-> "ok"]

NoDeadlines == [refresh |-> 0, grace |-> 0, hard |-> 0]
NoKeyset == [certs |-> {}, rev |-> 0]
Idle == [op |-> "none", pc |-> "idle", m |-> 0, art |-> NoArt, ks |-> NoKeyset, target |-> 0]
NoDisk == [saved |-> FALSE, cred |-> NoArt, ticket |-> NoArt, certs |-> {},
           revoked |-> {}, max |-> 0, passed |-> {}, seen |-> 0, rolls |-> 0]

\* Deadlines of a credential, and of a credential with a ticket.
Deadlines(art) ==
    LET refresh == art.at + RefreshLife
    IN  [refresh |-> refresh,
         grace |-> IF license.end = 0 THEN refresh + GraceLife
                   ELSE Min(refresh + GraceLife, license.end),
         hard |-> license.end]

\* Variant: the expiry instant itself still counts as valid.
HardExpired(dl, t) == dl.hard # 0 /\ t >= dl.hard
GraceExhaustedLate(dl, t) == t > dl.grace \/ HardExpired(dl, t)

GraceExhausted(dl, t) == t >= dl.grace \/ HardExpired(dl, t)

-----------------------------------------------------------------------------
(* The clock guard and the state machine.                                  *)

Wall == Max(now - lag, 0)
EffectiveNow(c) == Max(c.seen, Wall)

NewCore(seen, rolls) ==
    [state |-> "Unlicensed", has |-> FALSE, seen |-> seen, rolls |-> rolls, dl |-> NoDeadlines]

ObserveServerTime(c, t) == [c EXCEPT !.seen = Max(@, t)]

\* The deadlines a tick looks at, once the clock is believed.
Deadline(c) ==
    CASE c.state = "Active" /\ HardExpired(c.dl, c.seen) -> [c EXCEPT !.state = "Locked"]
      [] c.state = "Active" /\ ~HardExpired(c.dl, c.seen) /\ c.seen >= c.dl.refresh ->
            [c EXCEPT !.state = "NeedsRevalidation"]
      [] c.state \in {"NeedsRevalidation", "Grace"} /\ GraceExhausted(c.dl, c.seen) ->
            [c EXCEPT !.state = "Locked"]
      [] OTHER -> c

Rollback(c) == Wall + Skew < c.seen

\* Event::Tick.  The counter is only compared with the threshold, so it stops
\* one above.
Tick(c) ==
    LET counted == [c EXCEPT !.rolls = Min(@ + 1, Threshold + 1)]
    IN  IF ~Rollback(c) THEN Deadline([c EXCEPT !.seen = Max(@, Wall)])
        ELSE IF counted.rolls > Threshold THEN [counted EXCEPT !.state = "Locked"]
        ELSE IF c.state = "Active" THEN [counted EXCEPT !.state = "NeedsRevalidation"]
        ELSE Deadline(counted)

\* Whether Event::Tick or Event::NetworkAvailable asks for a validation.
TickAsks(c) == c.state = "Active" /\ Tick(c).state = "NeedsRevalidation"
NetworkAsks(c) ==
    \/ c.state = "Active" /\ EffectiveNow(c) >= c.dl.refresh
    \/ c.state \in {"NeedsRevalidation", "Grace", "Locked"}

CredentialLoaded(c) ==
    IF c.state = "Unlicensed" THEN [c EXCEPT !.state = "Active", !.has = TRUE] ELSE c
ActivationVerified(c) ==
    IF c.state \in {"Unlicensed", "Revoked", "Tampered"}
    THEN [c EXCEPT !.state = "Active", !.has = TRUE] ELSE c

Holding == {"Active", "NeedsRevalidation", "Grace", "Locked"}
TicketAnswer(c, ok) ==
    IF c.state \in Holding
    THEN [c EXCEPT !.state = IF ok = "ok" THEN "Active" ELSE "Locked"] ELSE c
NetworkFailed(c) ==
    IF c.state = "NeedsRevalidation"
    THEN [c EXCEPT !.state = IF GraceExhausted(c.dl, EffectiveNow(c)) THEN "Locked" ELSE "Grace"]
    ELSE c
KillOrderVerified(c) ==
    IF c.state \in Holding \cup {"Unlicensed"}
    THEN [c EXCEPT !.state = "Revoked", !.has = FALSE] ELSE c
VerificationFailed(c) ==
    CASE c.state = "Unlicensed" -> [c EXCEPT !.state = "Tampered"]
      [] c.state \in Holding -> [c EXCEPT !.state = "Tampered", !.has = FALSE]
      [] OTHER -> c
UserDeactivate(c) ==
    IF c.state \in Holding THEN [c EXCEPT !.state = "Unlicensed", !.has = FALSE] ELSE c

PermitsKeyDerivation(c) == c.state \in {"Active", "NeedsRevalidation", "Grace"}

-----------------------------------------------------------------------------
(* Trust: epoch certificates, credentials and tickets.                     *)

InWindow(e, t) == NotBefore[e] <= t /\ t < NotAfter[e]

\* The key set verifies against what the client has seen.
KeysetOk(ks, t, max, revoked) ==
    /\ ks.rev >= max
    /\ \A e \in ks.certs : InWindow(e, t) => e \notin revoked
Chain(ks, t) == {e \in ks.certs : InWindow(e, t)}

\* An envelope verifies under the chain.
Verifies(art, r, t) == art.e \in r.chain \ r.revoked /\ InWindow(art.e, t)

\* Variant: a credential issued in this very second is refused.
CredentialOpensStrict(cred, r, t) ==
    /\ Verifies(cred, r, t)
    /\ cred.rev >= r.max
    /\ cred.at < t
    /\ license.end = 0 \/ license.end > t

CredentialOpens(cred, r, t) ==
    /\ Verifies(cred, r, t)
    /\ cred.rev >= r.max
    /\ cred.at <= t
    /\ license.end = 0 \/ license.end > t

TicketOk(ticket, r, t) ==
    /\ Verifies(ticket, r, t)
    /\ ticket.m = r.cred.m
    /\ ticket.rev >= r.max

\* passed is a history: the revocations the cursor passed at an activation whose
\* credential was ahead of its key set.
NewRuntime == [snap |-> TRUE, cred |-> NoArt, ticket |-> NoArt, certs |-> {},
               revoked |-> {}, chain |-> {}, max |-> 0, passed |-> {}]

\* Variants: the wipe keeps the credential; the wipe resets the cursor.
WipedSnapshotOnly(r) == [r EXCEPT !.snap = FALSE]
\* What fail_closed, a revocation and a deactivation leave in memory.
Wiped(r) == [NewRuntime EXCEPT !.snap = FALSE, !.max = r.max, !.passed = r.passed]

Record(c, r) ==
    [saved |-> TRUE, cred |-> r.cred, ticket |-> r.ticket, certs |-> r.certs,
     revoked |-> r.revoked, max |-> r.max, passed |-> r.passed, seen |-> c.seen, rolls |-> c.rolls]

Persist(c, r) == IF r.snap THEN disk' = Record(c, r) ELSE UNCHANGED disk

-----------------------------------------------------------------------------
(* The server as the client sees it.                                       *)

\* load_signing_epoch: the newest of the epochs that may sign now.
SigningOf(es) ==
    LET usable == {e \in es : InWindow(e, now)}
    IN  IF usable = {} THEN "none"
        ELSE CHOOSE e \in usable : \A f \in usable : NotBefore[f] <= NotBefore[e]
Signing == SigningOf(epochs)

AllowsUse == license.status = "active" /\ (license.end = 0 \/ now < license.end)

\* The Worker answers from what KV and the LicenseDO hold, the test server with
\* its current state.
Stores == peer = "worker"
ServedKeyset ==
    IF Stores THEN keyset ELSE [certs |-> epochs, rev |-> Len(log)]
CredentialEpoch == IF Stores THEN license.seen ELSE Len(log)

\* The batch GET /v1/revocations?since=cursor returns, as its index in the log.
ServedBatch(cursor) == IF Stores THEN cursor + 1 ELSE cursor

Advance ==
    /\ now < MaxNow
    /\ now' = now + 1
    /\ sched' = [sched EXCEPT !.tried = FALSE]
    /\ UNCHANGED <<lag, online, server, core, rt, disk, job, flight, process, key>>

SetClock(l) ==
    /\ l # lag
    /\ lag' = l
    /\ UNCHANGED <<now, online, server, client>>

Toggle ==
    /\ online' = ~online
    /\ UNCHANGED <<now, lag, server, client>>

\* The next revocation starts once the one before it is published.
Publishable == Len(log) < MaxLog /\ revoking = "none"

\* Some other license or machine is revoked.
PublishOther ==
    /\ Publishable /\ Signing # "none"
    /\ log' = Append(log, [what |-> "other", by |-> Signing])
    /\ UNCHANGED <<now, lag, online, peer, epochs, revoking, rebuild, keyset,
                   license, seat, client>>

RevokeMine ==
    /\ Publishable /\ Signing # "none"
    /\ license.status # "revoked"
    /\ log' = Append(log, [what |-> "mine", by |-> Signing])
    /\ license' = [license EXCEPT !.status = "revoked", !.seen = Len(log) + 1]
    /\ UNCHANGED <<now, lag, online, peer, epochs, revoking, rebuild, keyset, seat, client>>

\* The second approval: one D1 batch revokes the epoch and reserves its sequence.
RevokeEpoch(e) ==
    /\ Publishable /\ e \in epochs
    /\ SigningOf(epochs \ {e}) # "none"
    /\ epochs' = epochs \ {e} /\ revoking' = e
    /\ UNCHANGED <<now, lag, online, peer, log, rebuild, keyset, license, seat, client>>

\* publish_epoch_revocation: the batch is signed by an epoch that remains, and
\* the key set is rebuilt only after it is published.
PublishEpoch ==
    /\ revoking # "none" /\ Signing # "none"
    /\ log' = Append(log, [what |-> revoking, by |-> Signing])
    /\ revoking' = "none" /\ rebuild' = Stores
    /\ UNCHANGED <<now, lag, online, peer, epochs, keyset, license, seat, client>>

ImportEpoch(e) ==
    /\ e \notin epochs \cup {revoking}
    /\ \A i \in DOMAIN log : log[i].what # e
    /\ epochs' = epochs \cup {e} /\ rebuild' = Stores
    /\ UNCHANGED <<now, lag, online, peer, log, revoking, keyset, license, seat, client>>

\* rebuild_keyset, the last step of an import and of an epoch revocation.
RebuildKeyset ==
    /\ rebuild
    /\ keyset' = [certs |-> epochs, rev |-> Len(log)]
    /\ rebuild' = FALSE
    /\ UNCHANGED <<now, lag, online, peer, log, epochs, revoking, license, seat, client>>

SetSuspended(status) ==
    /\ Suspends /\ license.status \in {"active", "suspended"} \ {status}
    /\ license' = [license EXCEPT !.status = status]
    /\ UNCHANGED <<now, lag, online, feed, seat, client>>

\* The alarm of the LicenseDO meets the end of the license.
Expire ==
    /\ license.end # 0 /\ now >= license.end /\ license.status = "active"
    /\ license' = [license EXCEPT !.status = "expired"]
    /\ seat' = [m \in 1..MaxSeat |-> IF seat[m] = "active" THEN "released" ELSE seat[m]]
    /\ UNCHANGED <<now, lag, online, feed, client>>

\* Another machine of the license validates: the LicenseDO learns the epoch.
OtherValidates ==
    /\ Stores /\ license.seen < Len(log)
    /\ license' = [license EXCEPT !.seen = Len(log)]
    /\ UNCHANGED <<now, lag, online, feed, seat, client>>

Answer(p, art) == job' = [job EXCEPT ![p] = [@ EXCEPT !.pc = "reply", !.art = art]]
Plain(kind) == [NoArt EXCEPT !.kind = kind]

\* POST /v1/activate: the device's active seat again, or a new one.
ServeActivate(p) ==
    /\ job[p].op = "activate" /\ job[p].pc = "post" /\ online
    /\ \/ /\ ~AllowsUse
          /\ Answer(p, Plain("reject"))
          /\ UNCHANGED seat
       \/ /\ AllowsUse /\ Signing = "none"
          /\ Answer(p, Plain("busy"))
          /\ UNCHANGED seat
       \/ /\ AllowsUse /\ Signing # "none"
          /\ \E m \in 1..MaxSeat :
                /\ \/ seat[m] = "active"
                   \/ /\ seat[m] = "none" /\ \A k \in 1..(m - 1) : seat[k] = "released"
                /\ Answer(p, Art("cred", m, Signing, CredentialEpoch, "ok"))
                /\ seat' = [seat EXCEPT ![m] = "active"]
    /\ UNCHANGED <<now, lag, online, feed, license,
                   core, rt, disk, flight, sched, process, key>>

\* POST /v1/validate: a kill order for a revoked license or a released seat,
\* 403 for a license that does not allow use, else a ticket.
ServeValidate(p) ==
    LET rev == Max(license.seen, Len(log))
        dead == license.status = "revoked" \/ seat[job[p].m] = "released"
    IN  /\ job[p].op = "validate" /\ job[p].pc = "post" /\ online
        /\ license' = [license EXCEPT !.seen = rev]
        /\ \/ /\ ~dead /\ ~AllowsUse
              /\ Answer(p, Plain("deny"))
           \/ /\ dead \/ AllowsUse
              /\ Signing = "none"
              /\ Answer(p, Plain("busy"))
           \/ /\ dead /\ Signing # "none"
              /\ Answer(p, Art("kill", job[p].m, Signing, rev, "ok"))
           \/ /\ ~dead /\ AllowsUse /\ Signing # "none"
              /\ \E ok \in Verdict : Answer(p, Art("ticket", job[p].m, Signing, rev, ok))
        /\ UNCHANGED <<now, lag, online, feed, seat,
                       core, rt, disk, flight, sched, process, key>>

ServeDeactivate(p) ==
    /\ job[p].op = "deactivate" /\ job[p].pc = "post" /\ online
    /\ seat' = [seat EXCEPT ![job[p].m] = "released"]
    /\ Answer(p, Plain("ack"))
    /\ UNCHANGED <<now, lag, online, feed, license,
                   core, rt, disk, flight, sched, process, key>>

\* GET /v1/keys
ServeKeys(p) ==
    /\ job[p].pc = "keys" /\ online
    /\ job' = [job EXCEPT ![p] = [@ EXCEPT !.pc = "keyset", !.ks = ServedKeyset]]
    /\ UNCHANGED <<now, lag, online, server, core, rt, disk, flight, sched, process, key>>

-----------------------------------------------------------------------------
(* Starting a call.  A section under the runtime lock is one step.         *)

env == <<now, lag, online, server>>

Goto(p, pc) == job' = [job EXCEPT ![p] = [@ EXCEPT !.pc = pc]]
Finish(p) ==
    /\ job' = [job EXCEPT ![p] = Idle]
    /\ flight' = IF job[p].op = "validate" THEN FALSE ELSE flight
Begin(p, op) == job' = [job EXCEPT ![p] = [Idle EXCEPT !.op = op, !.pc = "post", !.m = rt.cred.m]]

Disabled(s) == [s EXCEPT !.startup = FALSE, !.next = Never]
Due(s) == s.next # Never /\ (Wall >= s.next \/ now = MaxNow)

ActivateStart ==
    /\ "activate" \in Ops /\ process.up /\ job["host"] = Idle
    /\ \E m \in 1..MaxSeat : seat[m] # "released"
    /\ rt.cred = NoArt
    /\ rt' = IF rt.snap THEN rt ELSE [NewRuntime EXCEPT !.max = rt.max, !.passed = rt.passed]
    /\ Begin("host", "activate")
    /\ UNCHANGED <<env, core, disk, flight, sched, process, key>>

ValidateStart ==
    /\ "validate" \in Ops /\ process.up /\ job["host"] = Idle
    /\ ~flight /\ rt.cred # NoArt
    /\ flight' = TRUE
    /\ sched' = [sched EXCEPT !.tried = TRUE]
    /\ Begin("host", "validate")
    /\ UNCHANGED <<env, core, rt, disk, process, key>>

DeactivateStart ==
    /\ "deactivate" \in Ops /\ process.up /\ job["host"] = Idle
    /\ rt.cred # NoArt
    /\ Begin("host", "deactivate")
    /\ UNCHANGED <<env, core, rt, disk, flight, sched, process, key>>

\* feature_key: the clock guard runs, its result is stored, and only then is
\* the key derived.
FeatureKey ==
    LET c == Tick(core)
    IN  /\ process.up
        /\ core' = c
        /\ Persist(c, rt)
        /\ key' = IF rt.cred # NoArt /\ PermitsKeyDerivation(c)
                  THEN [at |-> c.seen, grace |-> c.dl.grace,
                        late |-> c.seen >= c.dl.grace /\ core.state # "Active"] ELSE key
        /\ sched' = IF TickAsks(core) /\ rt.cred # NoArt
                    THEN [sched EXCEPT !.asked = TRUE] ELSE sched
        /\ UNCHANGED <<env, rt, job, flight, process>>

HintOnline ==
    /\ process.up
    /\ sched' = [sched EXCEPT !.hint = TRUE]
    /\ UNCHANGED <<env, core, rt, disk, job, flight, process, key>>

\* run_scheduler_cycle, up to the request of its validation.
Cycle ==
    LET c == IF sched.hint THEN core ELSE Tick(core)
        asks == IF sched.hint THEN NetworkAsks(core) ELSE TickAsks(core)
        try == /\ c.has
               /\ \/ sched.startup \/ sched.asked \/ asks
                  \/ sched.hint /\ ~sched.tried
                  \/ Due(sched)
        s == [sched EXCEPT !.hint = FALSE, !.asked = FALSE]
    IN  /\ process.up /\ job["sched"] = Idle
        /\ core' = c
        /\ Persist(c, rt)
        /\ sched' = IF ~c.has THEN Disabled(s)
                    ELSE IF try THEN [s EXCEPT !.startup = FALSE, !.tried = TRUE] ELSE s
        /\ IF try /\ ~flight /\ rt.cred # NoArt
           THEN flight' = TRUE /\ Begin("sched", "validate")
           ELSE UNCHANGED <<flight, job>>
        /\ UNCHANGED <<env, rt, process, key>>

-----------------------------------------------------------------------------
(* Ends of a call.                                                         *)

\* fail_closed
FailClosed(p) ==
    /\ core' = VerificationFailed(core)
    /\ rt' = Wiped(rt)
    /\ disk' = NoDisk
    /\ sched' = Disabled(sched)
    /\ Finish(p)

\* revoke_locked, on the state and runtime the caller has updated
Revoke(p, c, r) ==
    /\ core' = KillOrderVerified(c)
    /\ rt' = Wiped(r)
    /\ disk' = NoDisk
    /\ sched' = Disabled(sched)
    /\ Finish(p)

\* The call returns an error and changes nothing.
GiveUp(p) == Finish(p) /\ UNCHANGED <<core, rt, disk, sched>>

\* Variant: a failed attempt is not scheduled again.
RetryNever == sched' = Disabled(sched)

Retry == sched' = [sched EXCEPT !.next = Wall + 1]

\* A transient failure: of a validation at any stage, of the others' requests.
Transient(p) ==
    \/ /\ job[p].op = "validate"
       /\ core' = NetworkFailed(core)
       /\ Persist(NetworkFailed(core), rt)
       /\ Retry /\ Finish(p)
       /\ UNCHANGED rt
    \/ /\ job[p].op = "activate" /\ job[p].pc = "sync"
       /\ Retry /\ Finish(p)
       /\ UNCHANGED <<core, rt, disk>>
    \/ /\ job[p].op # "validate" /\ job[p].pc # "sync"
       /\ GiveUp(p)

\* The request or its answer is lost.
Lost(p) ==
    /\ ~online
    /\ \/ job[p].pc \in {"post", "reply", "keys", "keyset"}
       \/ job[p].pc \in {"sync", "confirm"} /\ rt.max < job[p].target
    /\ Transient(p)
    /\ UNCHANGED <<env, process, key>>

-----------------------------------------------------------------------------
(* The steps of a call after its answer.                                   *)

\* The answer to the POST.  A validation whose signer is not in the chain
\* fetches the key set first; an activation always does.
Reply(p) ==
    LET art == job[p].art
    IN  /\ job[p].pc = "reply"
        /\ \/ art.kind = "busy" /\ Transient(p)
           \/ art.kind = "reject" /\ GiveUp(p)
           \/ art.kind = "deny" /\ FailClosed(p)
           \/ /\ art.kind = "ack"
              /\ core' = UserDeactivate(core)
              /\ rt' = Wiped(rt)
              /\ disk' = NoDisk
              /\ sched' = Disabled(sched)
              /\ Finish(p)
           \/ /\ art.kind \in {"cred", "ticket", "kill"}
              /\ Goto(p, IF art.kind # "cred" /\ art.e \in rt.chain THEN "preview" ELSE "keys")
              /\ UNCHANGED <<core, rt, disk, sched, flight>>
        /\ UNCHANGED <<env, process, key>>

\* install_keyset, which does not persist
InstallKeyset(p) ==
    LET ks == job[p].ks
        t == EffectiveNow(core)
    IN  /\ job[p].pc = "keyset"
        /\ \/ ~rt.snap /\ GiveUp(p)
           \/ rt.snap /\ ~KeysetOk(ks, t, rt.max, rt.revoked) /\ FailClosed(p)
           \/ /\ rt.snap /\ KeysetOk(ks, t, rt.max, rt.revoked)
              /\ rt' = [rt EXCEPT !.certs = ks.certs, !.chain = Chain(ks, t),
                               !.passed = @ \ (1..ks.rev)]
              /\ job' = [job EXCEPT ![p] = [@ EXCEPT !.pc = "sync", !.target = ks.rev]]
              /\ UNCHANGED <<core, disk, sched, flight>>
        /\ UNCHANGED <<env, process, key>>

Synced(p) ==
    CASE job[p].pc = "confirm" -> "apply"
      [] job[p].pc = "sync" /\ job[p].op = "activate" -> "finish"
      [] OTHER -> "preview"

\* A batch the client accepts: signed under the chain, by an epoch it does not
\* revoke itself, the next one in the sequence and not beyond the target.
BatchOk(i, r, target) ==
    /\ log[i].by \in r.chain \ r.revoked /\ InWindow(log[i].by, EffectiveNow(core))
    /\ log[i].by # log[i].what
    /\ i = r.max + 1 /\ i <= target
Applied(i, r) == [r EXCEPT !.max = i, !.revoked = @ \cup ({log[i].what} \cap Epoch)]
Hit(i, r) == r.cred # NoArt /\ log[i].what \in {"mine", r.cred.e}

\* One round of sync_revocations.
Sync(p) ==
    LET target == job[p].target
        i == ServedBatch(rt.max + 1)
    IN  /\ job[p].pc \in {"sync", "confirm"}
        /\ \/ target < rt.max /\ FailClosed(p)
           \/ /\ target = rt.max
              /\ Goto(p, Synced(p))
              /\ UNCHANGED <<core, rt, disk, sched, flight>>
           \/ /\ target > rt.max /\ online
              /\ \/ i > Len(log) /\ Transient(p)
                 \/ i <= Len(log) /\ ~BatchOk(i, rt, target) /\ FailClosed(p)
                 \/ i <= Len(log) /\ BatchOk(i, rt, target) /\ Hit(i, rt)
                    /\ Revoke(p, core, Applied(i, rt))
                 \/ /\ i <= Len(log) /\ BatchOk(i, rt, target) /\ ~Hit(i, rt)
                    /\ rt' = Applied(i, rt)
                    /\ Persist(core, Applied(i, rt))
                    /\ UNCHANGED <<core, job, sched, flight>>
        /\ UNCHANGED <<env, process, key>>

Succeeded(t) == [sched EXCEPT !.startup = FALSE, !.next = Max(t, Wall + 1)]

\* The last section of activate_credential.
ActivateFinish(p) ==
    LET art == job[p].art
        r == [rt EXCEPT !.cred = art, !.ticket = NoArt,
                        !.max = Max(Max(@, art.rev), job[p].target),
                        !.passed = @ \cup ((rt.max + 1)..art.rev)]
        c == ActivationVerified([core EXCEPT !.dl = Deadlines(art)])
    IN  /\ job[p].pc = "finish"
        /\ \/ ~rt.snap /\ GiveUp(p)
           \/ rt.snap /\ ~CredentialOpens(art, rt, EffectiveNow(core)) /\ FailClosed(p)
           \/ /\ rt.snap /\ CredentialOpens(art, rt, EffectiveNow(core))
              /\ core' = c
              /\ rt' = r
              /\ Persist(c, r)
              /\ sched' = Succeeded(c.dl.refresh)
              /\ Finish(p)
        /\ UNCHANGED <<env, process, key>>

\* Variant: a ticket is applied without the revocations it announces.
PreviewUnsynced(p) ==
    LET art == job[p].art
        t == EffectiveNow(core)
    IN  /\ job[p].pc = "preview"
        /\ \/ art.kind = "kill" /\ rt.cred = NoArt /\ GiveUp(p)
           \/ /\ art.kind = "ticket" \/ rt.cred # NoArt
              /\ rt.cred = NoArt \/ ~TicketOk(art, rt, t)
              /\ FailClosed(p)
           \/ /\ art.kind = "kill" /\ rt.cred # NoArt /\ TicketOk(art, rt, t)
              /\ Revoke(p, ObserveServerTime(core, art.at), rt)
           \/ /\ art.kind = "ticket" /\ rt.cred # NoArt /\ TicketOk(art, rt, t)
              /\ Goto(p, "apply")
              /\ UNCHANGED <<core, rt, disk, sched, flight>>
        /\ UNCHANGED <<env, process, key>>

\* A kill order is applied; a ticket is previewed before the revocations it
\* announces are fetched.
Preview(p) ==
    LET art == job[p].art
        t == EffectiveNow(core)
    IN  /\ job[p].pc = "preview"
        /\ \/ art.kind = "kill" /\ rt.cred = NoArt /\ GiveUp(p)
           \/ /\ art.kind = "ticket" \/ rt.cred # NoArt
              /\ rt.cred = NoArt \/ ~TicketOk(art, rt, t)
              /\ FailClosed(p)
           \/ /\ art.kind = "kill" /\ rt.cred # NoArt /\ TicketOk(art, rt, t)
              /\ Revoke(p, ObserveServerTime(core, art.at), rt)
           \/ /\ art.kind = "ticket" /\ rt.cred # NoArt /\ TicketOk(art, rt, t)
              /\ job' = [job EXCEPT ![p] = [@ EXCEPT !.pc = "confirm", !.target = art.rev]]
              /\ UNCHANGED <<core, rt, disk, sched, flight>>
        /\ UNCHANGED <<env, process, key>>

\* The ticket is checked again against what the sync has learnt, and applied.
ApplyTicket(p) ==
    LET art == job[p].art
        r == [rt EXCEPT !.ticket = art, !.max = Max(@, art.rev)]
        c == TicketAnswer([ObserveServerTime(core, art.at) EXCEPT !.dl = Deadlines(art)], art.ok)
    IN  /\ job[p].pc = "apply"
        /\ \/ rt.cred = NoArt /\ GiveUp(p)
           \/ rt.cred # NoArt /\ ~TicketOk(art, rt, EffectiveNow(core)) /\ FailClosed(p)
           \/ /\ rt.cred # NoArt /\ TicketOk(art, rt, EffectiveNow(core))
              /\ core' = c
              /\ rt' = r
              /\ Persist(c, r)
              /\ sched' = Succeeded(c.dl.refresh)
              /\ Finish(p)
        /\ UNCHANGED <<env, process, key>>

-----------------------------------------------------------------------------
(* The process exits at any step; construct reads the store.               *)

FreshSched(has) == [startup |-> has, next |-> Never, tried |-> FALSE, hint |-> FALSE, asked |-> FALSE]
NoKey == [at |-> Never, grace |-> 0, late |-> FALSE]

Restored ==
    LET t == Max(disk.seen, Wall)
    IN  [snap |-> TRUE, cred |-> disk.cred, ticket |-> disk.ticket, certs |-> disk.certs,
         revoked |-> disk.revoked, max |-> disk.max, passed |-> disk.passed,
         chain |-> IF disk.cred = NoArt THEN {}
                   ELSE Chain([certs |-> disk.certs, rev |-> disk.max], t)]

\* construct accepts the store.
Constructs ==
    LET t == Max(disk.seen, Wall)
    IN  disk.cred # NoArt =>
            /\ KeysetOk([certs |-> disk.certs, rev |-> disk.max], t, disk.max, disk.revoked)
            /\ CredentialOpens(disk.cred, Restored, t)
            /\ disk.ticket # NoArt => TicketOk(disk.ticket, Restored, t)

\* The state machine construct builds: the ticket's time and deadlines, then
\* CredentialLoaded, Tick and the stored verdict.
RestoredCore ==
    LET c == NewCore(disk.seen, disk.rolls)
        last == IF disk.ticket = NoArt THEN disk.cred ELSE disk.ticket
        timed == [c EXCEPT !.dl = Deadlines(last),
                           !.seen = IF disk.ticket = NoArt THEN @ ELSE Max(@, disk.ticket.at)]
        ticked == Tick(CredentialLoaded(timed))
    IN  IF disk.cred = NoArt THEN c
        ELSE IF disk.ticket.ok = "ok" THEN ticked ELSE TicketAnswer(ticked, "denied")

Restart ==
    /\ process.starts < MaxRestart
    /\ job' = [p \in Task |-> Idle]
    /\ flight' = FALSE
    /\ process' = [up |-> ~disk.saved \/ Constructs, starts |-> process.starts + 1]
    /\ core' = IF ~disk.saved \/ ~Constructs THEN NewCore(Wall, 0) ELSE RestoredCore
    /\ rt' = IF ~disk.saved \/ ~Constructs THEN NewRuntime ELSE Restored
    /\ sched' = FreshSched(disk.cred # NoArt)
    /\ key' = IF disk.cred = NoArt THEN NoKey ELSE key
    /\ UNCHANGED <<env, disk>>

-----------------------------------------------------------------------------

InitAt(time, first, end) ==
    /\ now = time /\ lag = 0 /\ online = TRUE
    /\ peer \in Peers /\ log = <<>> /\ epochs = first
    /\ revoking = "none" /\ rebuild = FALSE
    /\ keyset = [certs |-> first, rev |-> 0]
    /\ license = [status |-> "active", seen |-> 0, end |-> end]
    /\ seat = [m \in 1..MaxSeat |-> "none"]
    /\ core = NewCore(Wall, 0) /\ rt = NewRuntime /\ disk = NoDisk
    /\ job = [p \in Task |-> Idle] /\ flight = FALSE
    /\ sched = FreshSched(FALSE)
    /\ process = [up |-> TRUE, starts |-> 0]
    /\ key = NoKey

Init == InitAt(1, FirstEpochs, LicenseEnd)

Server ==
    \/ PublishOther \/ RevokeMine \/ OtherValidates \/ Expire
    \/ PublishEpoch \/ RebuildKeyset
    \/ \E e \in Epoch : RevokeEpoch(e) \/ ImportEpoch(e)
    \/ \E status \in {"active", "suspended"} : SetSuspended(status)

Host == ActivateStart \/ ValidateStart \/ DeactivateStart \/ FeatureKey \/ HintOnline

\* A call waits for the server, loses its request, or runs its next section.
Step(p) ==
    \/ ServeActivate(p) \/ ServeValidate(p) \/ ServeDeactivate(p) \/ ServeKeys(p)
    \/ Lost(p) \/ Reply(p) \/ InstallKeyset(p) \/ Sync(p)
    \/ ActivateFinish(p) \/ Preview(p) \/ ApplyTicket(p)

Next ==
    \/ Advance \/ Toggle \/ \E l \in Lags : SetClock(l)
    \/ Server
    \/ Host
    \/ Cycle
    \/ \E p \in Task : Step(p)
    \/ Restart

\* The runtime polls the scheduler task, every request is answered or times
\* out, and time passes; nothing else is owed.
Fairness ==
    /\ WF_vars(Advance)
    /\ WF_vars(Cycle)
    /\ \A p \in Task : WF_vars(Step(p))

Spec == Init /\ [][Next]_vars
FairSpec == Spec /\ Fairness

-----------------------------------------------------------------------------
(* Properties.                                                             *)

State == {"Unlicensed", "Active", "NeedsRevalidation", "Grace", "Locked", "Revoked", "Tampered"}
ArtRecord ==
    [kind : {"none", "cred", "ticket", "kill", "busy", "reject", "deny", "ack"}, m : 0..MaxSeat,
     e : Epoch \cup {"none"}, rev : 0..MaxLog, at : 0..MaxNow, ok : {"ok", "denied"}]

\* Type invariant: the shape of the server's, the runtime's and the store's state.
TypeOK ==
    /\ now \in 1..MaxNow /\ lag \in Lags /\ online \in BOOLEAN
    /\ log \in Seq([what : Epoch \cup {"mine", "other"}, by : Epoch]) /\ Len(log) <= MaxLog
    /\ peer \in Peers /\ epochs \subseteq Epoch
    /\ revoking \in Epoch \cup {"none"} /\ rebuild \in BOOLEAN
    /\ keyset \in [certs : SUBSET Epoch, rev : 0..MaxLog]
    /\ license \in [status : {"active", "suspended", "expired", "revoked"}, seen : 0..MaxLog,
                   end : {0, LicenseEnd}]
    /\ seat \in [1..MaxSeat -> {"none", "active", "released"}]
    /\ core \in [state : State, has : BOOLEAN, seen : 0..MaxNow, rolls : 0..(Threshold + 1),
                 dl : [refresh : Time, grace : Time, hard : {0, LicenseEnd}]]
    /\ rt.cred \in ArtRecord /\ rt.ticket \in ArtRecord
    /\ rt.chain \cup rt.revoked \cup rt.certs \subseteq Epoch /\ rt.max \in 0..MaxLog
    /\ rt.passed \cup disk.passed \subseteq 1..MaxLog
    /\ disk.cred \in ArtRecord /\ disk.ticket \in ArtRecord /\ disk.max \in 0..MaxLog
    /\ \A p \in Task : job[p].art \in ArtRecord /\ job[p].target \in 0..MaxLog
    /\ flight \in BOOLEAN
    /\ sched.next \in Time \cup {Never}

\* A client that says it is Unlicensed, Revoked or Tampered holds no credential,
\* in memory or in the store: every path into these states wipes both, whatever
\* other call is in flight (fail_closed_locked, revoke_locked,
\* user_deactivate_locked).
NoOrphanSecrets ==
    process.up /\ core.state \in {"Unlicensed", "Revoked", "Tampered"} =>
        rt.cred = NoArt /\ disk.cred = NoArt

\* The client trusts an epoch whose revocation it counts as seen only where an
\* activation took the cursor past it: the Worker publishes a revocation before it
\* rebuilds the key set, and activate_credential takes the credential's epoch for
\* its cursor.  Tickets, batches, key sets, wipes, deactivations and restarts never
\* move the cursor past an epoch revocation the chain ignores, and the next key
\* set ends the exception.
TrustFollowsCursor ==
    \A i \in 1..rt.max : log[i].what \in rt.chain \ rt.revoked => i \in rt.passed

\* A Feature Key is handed out only after the clock mark it was judged by is in
\* the store: a crash and a clock set back cannot make the client judge the same
\* credential by an earlier time (feature_key persists before it derives).
KeyMarkPersisted == disk.cred # NoArt => disk.seen >= key.at

\* No Feature Key at or after the license's hard expiry.
NoKeyAfterExpiry == license.end # 0 => key.at < license.end

\* Past the grace deadline at most the call that finds the client still Active
\* succeeds: it moves to NeedsRevalidation, and from there, from Grace and after a
\* restart the deadline locks before a key is derived (process, permits_key_derivation).
GraceEndsKeys == ~key.late

\* What a Feature Key is handed out on: the license has not ended, the grace
\* deadline has not passed but for the call that ends Active, and the mark both
\* were judged by is in the store before the key leaves (feature_key).
KeysInTime == NoKeyAfterExpiry /\ GraceEndsKeys /\ KeyMarkPersisted

\* The client never declares its state tampered with: the server is honest and
\* the store is not touched.
NoFalseTamper == core.state # "Tampered"

\* A restart finds the license the store holds.
RestartKeepsLicense ==
    [][process' # process /\ disk.cred # NoArt =>
          process'.up /\ core'.state \in Holding]_vars

\* A device that stays online is not locked out for good: while it holds a
\* credential it becomes Active again and again (scheduler, ticket, Locked state).
Recovers == <>[]online => []<>(core.has => core.state = "Active")

\* No key is handed out after the grace deadline (feature_key's documentation).
NoKeyAfterGrace == key.at # Never => key.at < key.grace

\* Revoked and Tampered end only with a fresh activation or a new process.
TerminalUntilActivation ==
    [][core.state \in {"Revoked", "Tampered"} /\ core'.state # core.state =>
          process' # process \/ (core'.state = "Active" /\ core'.has)]_vars

\* The clock guard locks a licensed client only while the server cannot be reached.
LockedOnlyOffline ==
    [][core.has /\ core.state # "Locked" /\ core'.state = "Locked" /\ core'.rolls > core.rolls => ~online]_vars
=============================================================================
