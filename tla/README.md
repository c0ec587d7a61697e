# CopyLocker: a TLA+ verification project

CopyLocker licenses software: a Cloudflare Worker issues signed credentials and
tickets, a client enforces them on the device. This directory holds TLA+ models
of the parts whose correctness depends on the order in which things happen, TLC
configurations that check them on small instances, and TLAPS proofs of the most
important properties for every instance. `PROJECT.json` maps each definition to
the source lines it stands for, and lists runs, mutants, hazards and findings.

To repeat a run: `tlc -config License.cfg MCLicense`. To repeat a proof:
`tlapm LicenseDOProofs.tla`.

## 1. The system

| Part | State | Operations | Interacts with |
| --- | --- | --- | --- |
| License Durable Object (`durable/license.rs`), one per license | seats, activations, idempotency and nonce rows, outbox, alarm | init, reserve, complete, commit, validate, heartbeat, deactivate, revoke, admin-update, admin-forget, alarm | router, Admin API, events queue |
| Issuer Durable Object (`durable/issuer.rs`), one per shard | issuance hash chain, idempotency rows, outbox | sign, alarm | router, revocation publisher, events queue |
| Account Durable Object (`durable/account.rs`) | sessions, login attempts | login gate and record, issue, resolve, refresh, revoke, alarm | sign-in routes |
| Admin audit Durable Object (`durable/admin_audit.rs`) | the vendor's audit hash chain | append | Admin journal, revocations |
| Admin journal (`admin_operations.rs`, `admin_resources.rs`) | D1 tables `admin_operations`, `admin_audit_events` | mutate, replay, side effect, finalize, cron recovery | every Admin resource |
| Revocation sequence (`admin.rs`, `admin_resources/epochs.rs`) | D1 table `revocations`, KV `rev:batch:*` and `rev:epoch` | reserve, audit, apply, publish, checkpoint, cron recovery | License and Issuer objects, clients |
| Router (`router.rs`) | none of its own | activate, validate, deactivate, keys, revocations | License and Issuer objects |
| Queue consumer and projections (`consumer.rs`, `projection.rs`) | D1 `licenses`, `machines` | apply, retry | outboxes, Admin reads |
| License, machine, product, release administration, DSR | D1 rows | create, update, change tier, erase | journal, License object |
| Billing (`webhook.rs`, `subscription.rs`) | D1 `subscriptions`, `billing_events` | receive, process, reconcile | D1 `licenses`, revocations |
| Desktop client (`copylocker-client`, `copylocker-core`, `copylocker-store`) | state machine, clock guard, runtime, store record, scheduler | activate, validate, deactivate, feature_key, sync, restart | router |
| Browser session (`copylocker-wasm`, `packages/web`) | the same per tab | the same | router |
| Product registry (`admin_resources.rs`, `releases.rs`, `asset_keks.rs`, `integrity.rs`) | D1 catalog and snapshots, policies, releases, keys | one batch per handler | journal, router |
| Epoch administration (`epochs.rs`) | D1 epochs and approvals, KV key set | upload, first and second approval | revocation sequence |
| Audit archive (`audit.rs`, `audit_admin.rs`) | R2 objects, D1 `audit_index` | archive, index, list, verify | queue, Admin chain |
| Analytics (`analytics.rs`, `analytics_api.rs`, `packages/telemetry`) | R2 detail records, D1 rollups, the hook's counters | gate, archive, roll up, query, purge | validate, queue |
| Server core (`copylocker-server-core`) | none: rules and plans | validate, resolve, decide, match, score, simulate | all of the Worker |
| Secure store (`copylocker-store`) | two sealed replicas and a root secret | load, save, wipe | desktop client |
| Host bindings (FFI, Electron, React, Vue, Svelte, Node, Tauri) | handle tables, IPC channels, components | create, call, release | desktop client, browser session |
| Wire formats, suites, build tools, console, SDK, CLI | | | |

What is hard here:

* **Awaits.** A Durable Object handler runs its SQL as one atomic section, but
  other requests run wherever it awaits the queue or a secret. The Worker's
  handlers and its minute cron await D1, KV, the queue and Durable Objects
  between all their steps, and a request may end at any of them.
* **At-least-once delivery.** Outboxes, the queue and the cron repeat what they
  cannot prove was done.
* **One alarm** per object stands for seven kinds of deadline.
* **The client** reads state, waits for the network, and goes on in another
  state; its process may end at any step; its clock is not trustworthy.
* **Numbering.** The revocation sequence, credentials, key sets and the client's
  cursor count the same thing in four places.

The properties that make each part correct are stated below, with the module
that checks them; the hazards behind them are listed in `PROJECT.json`.

## 2. Modules and runs

| Module | Models | Run | Theorems in |
| --- | --- | --- | --- |
| `LicenseDO` | the License Durable Object | `license`, `background` | `LicenseDOProofs`, `LicenseDeliveryProofs` |
| `AdminJournal`, `AuditTrail` | the Admin journal; the append-only log it implements | `background`, `journal_cron` | `HostAndJournalProofs` |
| `RevocationLog` | the revocation sequence and its feed | `core`, `audit`, `revoke_drift` | `RevocationLogProofs`, `RecoveryProofs` |
| `AuditArchive`, `Listing`, `Calendar` | audit records on their way to R2, paged lists, dates | `audit` | |
| `Client` | the desktop client against an honest server | `client_quiet`, `client_trust`, `client_cursor` | |
| `HostBinding` | C handles, Electron IPC, framework components | `client_quiet` | `HostAndJournalProofs` |
| `LicenseRecord`, `Billing`, `ProductRegistry` | what D1 holds of a license, a subscription, a product | `server` | |
| `Issuance` | activation, relay, batches and check-ins across router, License object, Issuer object and audit archive | `services` | `IssuanceProofs` |
| `EpochAdmin` | upload and two-person revocation of epochs, with their side effects | `services` | `EpochAdminProofs` |
| `AccountSessions` | sign-in, token pairs and the account's Durable Object | `services` | `AccountProofs` |
| `Authorization` | what an activation or validation grants | `services` | |
| `Rules`, `Decisions`, `CoreLicense`, `Simulator` | the server core | `core` | |
| `BrowserSession`, `Telemetry`, `Analytics`, `SecureStore` | the browser, usage telemetry, the desktop store | `web` | |
| `MC*` | model values, constant definitions, the choice of focus | | |

A run may ask several components at once. Its MC module then extends them all and
has a variable `focus`, chosen at the start: one component, or one group of its
operations, moves, and the rest stand still. This keeps one set of constants and
one report per run without multiplying state spaces that do not interact.
Components that do interact are composed inside one module: `Issuance` has router,
License object, Issuer object, queue and archive; `LicenseRecord` has Admin
handlers, License object, queue and D1; `AuditArchive` has chain, mirror, queue,
R2 and index; `Analytics` extends `Telemetry`.

Operators whose comment begins with "Variant", and those that stand before the
definition they deviate from under a similar name, are deliberate deviations. No
specification uses them: they replace that definition to show that a property
notices.

A property may be the conjunction of several named parts about one component, each
defined and commented on its own; below, `Whole` (`Part`, ...). Its mutant breaks one
of the parts. What is proved for every instance is left out of the runs, except
where a run is the small instance of a theorem that `PROJECT.json` names.

### LicenseDO (runs `license`, `background`)

State: the rows of `meta` (seats, heartbeat, expires, status, adminVersion,
pendingAdmin, the two levels), `activations` (`act`), `nonces`, `idem`, the
unsent `outbox`, the scheduled `alarm`. `sent` is what a consumer of every sent
event would show. `minted` are the machine ids drawn: they are random in the
code, so the model never draws one twice.

Actions: one per endpoint, atomic because the handlers await nothing between
their SQL statements. `alarm()` awaits the queue once per row and is split:
`AlarmFire` reclaims and takes its batch, `FlushSend` sends a row and marks it,
`FlushFail` is the queue refusing or the object restarting (the platform then
retries the alarm; that it does so without limit is an assumption about Cloudflare,
since the code arms nothing itself on that path), `FlushEnd` schedules the next alarm *with the time read at
the start*. Only authenticated requests are actions; the suspicion score and the
credential's contents are left out, no property distinguishes them.

Bounds: `MaxTime` stops the clock, `Backlog` stops new requests while this many
events are unsent, `MaxFlush` limits how long one alarm run waits. Time to live
constants are 1 to 3 ticks; only their order relative to each other and to the
clock matters.

* `license`: `SeatGrant` (no grant beyond the limit or by an unusable license),
  `OneSeatPerDevice`, `KeyKeepsItsMachine` (a retried activation keeps its machine
  id), `DeadStaysDead`, `ProjectionFaithful` (`ChangesAreProjected`: every change
  reaches the outbox; `SeatsUsedNotUnderstated`). Two foci: devices competing for
  seats, and requests against revocations and admin updates.
* `background` (focus `license`): `AlarmCovers` (no deadline waits on an alarm that is not set),
  `DueHappens` (`PendingResolved`, `OutboxDrains`, `ExpiryHappens`). Fairness: time
  passes, the platform runs a due alarm and continues a started run (Cloudflare
  retries alarms), and the queue does not refuse the same row for ever. No request
  is assumed.

### AdminJournal and AuditTrail (runs `background`, `journal_cron`)

A worker is a request handler or a cron run; its `pc` is the call it awaits.
An operation is journaled with its business write in one D1 batch, its side
effect is applied and checkpointed, its event appended to the chain in
AdminAuditDO (which answers only a caller whose mirror head matches), mirrored to
D1, queued, checkpointed. `Fail` ends a worker at any await (`MaxFail` times).
`AuditTrail` is the abstract log; `Trail == INSTANCE AuditTrail` maps the chain
to the log, the mirror to what is shown and `done` to what is reported.

`background` (focus `journal`) shows `MirrorFollowsChain`, that the whole implements
`AuditTrail` (`TrailSpec`), and `JournalSettles`: the cron alone completes and archives
every operation (`JournalCompletes`), *or* the journal ends up `Wedged`, with a younger
operation's event at the end of the chain and without its mirror row while
`reconcile_pending` takes an older operation first. Fairness: workers that do not die
go on, the cron runs again in both of its passes, the queue delivers. No caller is
assumed to repeat a request. `journal_cron` shows that the wedge is reached (section 4).

`Rejected` are operations whose side effect is refused for good. No run has any: such an
operation waits for ever, and since each cron pass takes the oldest unfinished operation
it holds up those after it.

### RevocationLog (runs `core`, `audit`, `revoke_drift`)

One row per revocation, numbered by its position. A machine or license is
reserved by a conditional insert; an epoch revocation is inserted by the journal
operation that confirms it. A worker then records the event, applies the
revocation in the LicenseDO (which refuses a stale epoch), marks it applied, puts
the batch into KV, reads and advances `rev:epoch`, queues the event and marks the
row published. The environment deactivates, purges or erases a machine meanwhile,
devices hand the LicenseDO the global epoch, and other operations extend the
audit chain. A batch already in KV under the row's number is compared and left: other
bytes stop the worker. Here the signer remembers its envelope, so a repeated batch is
the same; `Issuance` has the rotation after the signer's row expired, the one way to
other bytes. KV is taken as consistent: what is put is read, though handlers interleave.

* `core` (focus `revoke`): `FeedIsComplete` when both insertion paths race through
  deaths at any await. Handlers are interchangeable there (symmetry).
* `audit` (focus `revoke`): `RecoverySound` (`PublishedIsDone`; `PendingCanApply`,
  two revocations of one LicenseDO never make each other stale while it has their
  targets) and
  `RevocationsFinish`, the cron publishes every
  reserved row when the target's row and activation stay as they are. Fairness:
  the cron runs and goes on; other operations' events reach the mirror.
* `revoke_drift` (violated): see Findings.

### AuditArchive, Listing, Calendar (run `audit`)

`AuditArchive` follows an event of the Admin chain and an issuance of each shard
through the queue (at most `AMaxMail` copies under way) into R2 and the shared
`audit_index`; `Harm` is a restore that loses, changes or forks D1 rows.
`ArchiveFaithful` (`ArchiveIsAuthentic`: only what the chain's owner wrote is
archived; `ArchiveNeverConflicts`: the sequence arithmetic keeps shards and the
Admin chain apart; `AckedIsIndexed`). `VerifyIsExact` (`VerifiedIsPrefix`: what the
replay calls verified is a prefix of the true chain; `IntactVerifies`: an undamaged
mirror verifies at every moment). Hashes are symbolic. Before AdminAuditDO has
adopted its base D1 is the only copy, so damage begins after it.

`Listing`: `PagedOnce`, a reader that follows the cursors gets every row that was
there throughout exactly once. `Calendar` walks the days of 1970 to 2001, the
turns of 2100 and 2400 and the end of 9999 beside the code's three conversions:
`DatesExact` (`ArchiveDayIsDate`, `DatesParse`, `InstantsParse`,
`BucketsAreIntervals`).

### Client (runs `client_quiet`, `client_trust`, `client_cursor`)

`core` is the StateMachine, `rt` the Runtime, `disk` the store record, `job` what
the host's call and the scheduler's call are doing between two awaits. A section
under the runtime lock is one action. The server is honest: a log of
revocations, imported epochs, the key set as last rebuilt, the LicenseDO's status
and this device's activations. An epoch's revocation is published before the key set
is rebuilt, two actions with everything in between; the rebuild itself is one step here
and its two reads interleave in `EpochAdmin`. `Peers` chooses the Worker or the server
in the client's own tests, which number revocation batches differently: only the
latter's batches can be applied. Time is measured in policy units; `MaxNow` is the
horizon and the last instant stands for all later ones. The store never fails here
(`SecureStore` has its failures): a death before a save leaves the store a restart
finds, a save that fails while the process lives on is left out.

* `client_quiet` (focus `client`), without revocations, suspension, deactivation or a
  wrong clock: `NoFalseTamper`, `Recovers`. With any of these the first is false
  (section 4), so it is claimed of a quiet license only.
  Fairness (`Recovers` only):
  the executor polls the scheduler task, a request is answered or times out, time
  passes. The host owes nothing.
* `client_trust`, two foci. `trust`: revocations and rotation around a deactivation, a
  second activation and a restart, with either server; the network holds.
  `deadline`: suspension, denied tickets, lost requests, the license's end and a clock
  within the tolerance. `NoOrphanSecrets`; `TrustFollowsCursor`: the cursor is past an
  epoch revocation that the chain ignores only where an activation took it there, which
  happens between the publication and the rebuild of the key set, until the next key
  set; `KeysInTime` (`NoKeyAfterExpiry`; `GraceEndsKeys`, past the grace deadline only
  the call that finds the client still Active gets a key; `KeyMarkPersisted`, the mark a
  key was judged by is in the store). A clock set back further is in section 4.
* `client_cursor` (violated): see Findings.

### HostBinding (run `client_quiet`)

The C interface: two threads, the two tables, a mutex per client, `with_client`
in its three steps (look up and clone, lock, run), panics, addresses that the
allocator hands out again. `BuffersStay`, `ClientsLiveForTheirCalls`. Electron:
`IpcGuarded`, for attachments of two instances to the same channels, some of which the
application may have taken, with detach callbacks called late and twice
(`HandlersBelong`), and for the rate window (`RateBounded`: in any window at most twice
the limit of calls and of bytes, the true bound of a window that does not slide). Each
attachment has a limiter of its own, so attaching again counts from nothing.
React, Vue and Svelte: `ViewsRelease`, a component's own client is disposed of however
late its creation ends. An app of Vue before 3.5 (the peer range is `>=3`) has no
`onUnmount`, and there an owned client stays live; the property excepts it. Two channels stand for eight, two addresses and two handles for all.

### LicenseRecord, Billing, ProductRegistry (run `server`)

`LicenseRecord`: PATCH, change-tier and erasure requests, each a handler with its
awaits, projections in any order and more than once. `RecordFaithful`
(`RecordConverges` at rest, `NewestPatchWins`, `VersionsAreUnique`,
`ErasedNotServed`).

`Billing`: every event of Stripe, Paddle and Lemon Squeezy by its kind, one
consumer (`max_concurrency = 1`) and the cron, each reading and then writing the
row in one batch. `SubscriptionHonoured` (`LicenseFollowsSubscription`,
`ExpiryCoversPeriod`, `PaidMonthsCounted`, `FallbackNeedsMonths`,
`RevokedAfterReview`). `FallbackNeedsMonths` bounds a fallback by all the months paid,
not by the streak since the last lapse: a webhook that read its row before the cron's
lapse can write the older count back.

`ProductRegistry`: two handlers, three Idempotency-Keys; every Admin mutation of a
product's catalog, policy, releases, keys and licenses. `RegistryConsistent`
(`EffectsMatchJournal`, `SnapshotIsCatalog`, `VariantIsolation`, `IssuedResolves`).
A license with an entitlement of its own resolves for ever. One without follows the
current policy, and resolves until that is next changed: a policy may come to name a
feature that is newer than the catalog the license is pinned to, and then resolution
fails.
Keys are interchangeable: a new request takes the least unused one.

### Issuance, AccountSessions, EpochAdmin, Authorization (run `services`)

`Issuance`: attempts at activations online, over the relay and in a batch, which die and
overlap, one rotation of the epoch key in its two stores, one expiry of idempotency rows,
also under a handler that has already replayed one. Attempts and expiry are combined as
the foci say: two attempts with every key, a rotation and an expiry; three over the relay
without expiry; three online with it. `AnswersAgree` (`SameAnswer`,
`CredentialMatchesSeat`, `SignedByItsEpoch`, `ConflictNeedsExpiry`) and
`IssuanceAudited` (`AuditNotLost`, `OneEntryPerArtifact`, `IndexedIsArchived`,
`AlertPerRise`). `SameAnswer` is claimed online while the LicenseDO keeps the key's row
and over the relay for ever. `days` counts how often a row was reclaimed; two
reservations a reclaim apart differ in `refresh_after` unless the policy's interval was
lowered by exactly the time between, which the model leaves out. The queue's dead letters,
after ten retries of one message, are left out too: every message is delivered in the end.

`AccountSessions`: two sign-ins, three token pairs. `SessionsBounded`
(`OneLivePerSignIn`, `RefreshedOnce`, `FailuresBounded`, `SignInCap`). The comment at
`durable/account.rs:57` says at most `MAX_FAILED_ATTEMPTS` failures inside the window; handlers
that pass the gate together exceed it, and `FailuresBounded` is the bound that holds.

`EpochAdmin`: two handlers, two actors, three epochs. `ApprovalsHold` (`TwoActors`,
`OnePendingRevocation`, `EffectNotLost`).

`EpochAdminProofs` shows `ApprovalsSafe`: `ApprovalsHold` for any handlers, actors,
epochs, window and bounds. Alone it is not inductive, since a handler writes from
what it read some awaits earlier; `EpochInv` adds what those readings still say: a
stored approval is a recorded confirmation that lapses one window later, a handler on
its way to the second approval has a confirmation of another actor inside the window,
every row below the sequence number it read is published, and a handler completes an
operation only once its row is published. Confirmations, rows and the published stage
are never taken back (`Grows`), so each survives the steps of the others
(`JobKept`); the number read is free only while nothing was inserted, hence nothing is
pending when the batch commits.

`Authorization`: one activation or validation while administrators change, at most
`ZMaxChange` times, the license, policy, catalog, releases, keys, seat and floor between
its reads (focus `grant`); and two activations of a new device, the second a repeat of
the first, whose handler may have died at any await (focus `retry`). `GrantsWarranted`
(`KeysEntitled`, `PinnedFeatures`, `WithdrawnGetsNoKeys`, `RevokedGetsKill`,
`KillHasCause`, `FloorIsCurrent`, `EndsWithLicense`, `EnforcedNeedsAccount`). A repeated
activation gets the stored envelope, or a new credential with the floor and end of the
reservation it repeats; a sibling preloaded in a stored answer may have been retired
since; and `/init` may write an older expiry over an administrator's newer one until the
next update. The properties speak of the moment that warranted each part accordingly. In
`grant` a row changes only before a step that reads it; an earlier change commutes with
the steps in between. Releases are ordered by publication; the clock is fixed, since a
handler reads it once. Seats and their limit are in `LicenseDO`, overlapping attempts
and rows that expire in `Issuance`.

### Rules, Decisions, CoreLicense, Simulator (run `core`)

`Rules` has the pure functions as operators; `Decisions` asks each of them every
question of bounded sets in `MCCore` and compares the answers with reference
definitions, and evolves the catalog: `RulesMatchReference` (`ValidIsLayered`, the
depth-first walk accepts exactly the layered include graphs; `ResolvedIsClosure`,
`AddOnNeverShrinks`, `CaretIsInterval`, `OfferedIsNewest`, `BestMatchKeepsSeat`,
`ScoreIsShared`, `NoWarningNoSurprise`, `PublishedStays`). `CoreLicense` has the
in-memory record: `RecordSound` (`SeatsNotOversold`, `KillWarranted`, which holds each
kill order against the row, the reason and the release it was given for). `Simulator`
runs beside the row billing keeps: `PreviewFaithful` (`SimulatorAgrees`,
`PreviewIsOutcome`, `PaidTimeRuns`), counting days and moving to the instants that
matter. The license is issued, then activated. The row's term starts with the issue and
the simulated one with the activation, and a fallback leaves the row's end as it is: once
the row has run out for one of these reasons (`RowOutlived`) the simulator may still say
that a release runs, and `SimulatorAgrees` excepts that. A release marked compromised
with `warn` runs in both.

### BrowserSession, Telemetry, Analytics, SecureStore (run `web`)

`BrowserSession`: one tab; a core operation and the adoption of its answer are one
step, everything else interleaves; three writes may be waiting, so that a kill order's
clear and save meet a save before them. `WipedStaysWiped` (`NoResurrection`,
`DeniedStaysDenied`, `LateAnswersHarmless`).

`Telemetry` and `Analytics`: two machines, three days, clocks that lag a day,
requests repeated, messages redelivered, rollups repeated, purge and erasure. Three
cubes stand for nine; the sketch's estimate is replaced by its occupied registers.
`FiguresExact` (`UseCountedOnce`, `DailyCountExact`, `SourcesAgree`,
`SmallUniqueHidden`). The last speaks of the unique series only: the count series is not
suppressed, although the head of `kanon.rs` says that no bucket of fewer than five
machines leaves the server. A query of raw records over `MAX_EXACT_RECORDS` fails and
reports no figure.

`SecureStore`: every access to keyring, fallback file and backup may fail, the keyring
and the file behind it independently, and the process may die before the next one. `StoreKeeps` (`AckedSurvives`,
`MarksNeverBack`, `NoLockout`, `WipedIsGone`). Two of the five marks; a keyring write
that fails has no effect.

### Deadlock

It is checked in `license`, `background` and `journal_cron`. The other runs say
`CHECK_DEADLOCK FALSE`: requests, events and
changes are finite there by their bounds, a closed application or an answered
request really stops, and a focus ends when its part is done.

## 3. What is proved

The theorems hold for all values of the constants that satisfy the named
assumptions of their modules: any number of devices, machines, operations, workers
or threads, any limits and any bound.

**LicenseDO.** `TypeCorrect` shows `TypeOK`, which is inductive once it says that
the batch of an alarm run is a prefix of the outbox. `LedgerCorrect` shows the
strengthening `LedgerInv`: rows and reservations carry machine ids that were drawn,
a reservation carries the device of its row, and no parked admin update outlives
the first `/init`. Without the first a new reservation could revive a dead id;
without the last a parked update could reactivate a revoked license. From it follow
`OneSeat` (`OneSeatPerDevice`), `DeadStay` (`DeadStaysDead`), `RevokedFinal`
(`RevokedIsFinal`), `SeatGranted` (`SeatGrant`) and `KeyKeeps` (`KeyKeepsItsMachine`).

`AlarmSafe` shows `AlarmCovers`. Each request ends in `schedule_next_alarm` with the
present time, and that call covers every deadline (`ScheduleCovers`); the alarm run
passes the time at which it began. So the proof needs `FlushTimely`: a run is at most
`MaxFlush` old when it schedules, which is the lateness `AlarmCovers` allows.

`ProjectionSafe` shows `ProjectionFaithful`. Its lemmas say what a consumer shows after
a sequence of events (`ShownAfter`): what the last event about a machine says, hence an
appended event shows its row (`AppendShown`), one event per touched row in any order
shows them all (`ConcatShown`, `ProjectionsTell`), and sending the first event shows
nothing new (`SendShown`). Reclaim appends in several passes, so these lemmas take the
table and the outbox as parameters. The invariant is strengthened by `SilentBeforeInit`:
before the first `/init` there is no row and no event, so that an `/init` that appends
nothing has nothing to tell.

**AdminJournal.** `MirrorFollows` and `CompletedRecorded` follow from `JournalInv`,
which says for each program counter what its worker relies on (`Holds`). The
decisive part: a caller whose chain head matches has seen the chain's last event in
the mirror. `ImplementsTrail` shows that each step of the journal is a step of
`AuditTrail` or leaves it alone.

**RevocationLog.** `SequenceIsStrict`, `FeedComplete` and `AuditFirst` follow from
`FeedInv`: a worker past its reservation works on its own row, an epoch worker about
to insert cannot have been overtaken, and at each step it is known which batches
exist. `RecoverySafe` shows `RecoverySound` from `RecoveryInv`: what a row has done to
its LicenseDO (`Effected`) lasts, a worker past its apply carries that knowledge to
every later await (`Carries`), and no LicenseDO's epoch exceeds the number of rows. A
row is only reserved once its predecessor is finished, so a pending row is the last one;
`AppliedFirst` (applied before published) then makes the largest applied sequence number,
which devices hand to a LicenseDO, the last row's or its predecessor's.

**HostBinding.** `FfiCorrect` shows `FfiInv` of the C interface in three parts:
`FfiTypes`, `CreationsApart` (a client under creation is in no table and in no call) and
`BuffersApart` (buffers and pending outputs share no handle and no address).
`BuffersSafe`, `PanicsContained` and `ClientsSafe` then each need one induction of their
own. `PanicsContained` (`LossNeedsPanic`) says which calls a panic may cost: those on the
client it happened in, and every one when it happens in the drop of a destroyed client,
which `cl_destroy` runs under the lock of `CLIENTS`. A release of a buffer that was released before is
harmless because a value names one buffer for ever, not because of its address.
`IpcSafe` (`IpcGuarded`) and `ViewsSafe` (`ViewsRelease`) are about the other two parts
of the module, any number of attachments, calls and components. `IpcSafe` needs two
invariants. `AttachInv`: an attachment that still has its list of channels has them all,
so no other does. `LimiterInv`: each accepted call carries the limiter's window it fell
into; calls of one window are counted one by one, calls of two neighbouring ones by what
the first had left, and no span shorter than a window touches three.

**Issuance.** `AnswersSafe` shows `AnswersAgree` from `AnswerInv`, whose parts say what
each await relies on. `HandlersInv`: a handler that carries a credential got it from its
key's reservation, and since then that *was reclaimed, has kept its secret, or has lost
its seat for good*, so that a reservation made anew while an old handler still signs is
not completed by it: after a reclaim the credential's `refresh_after` differs, otherwise
its machine holds no seat. That in turn needs `SeatInv`: seats and reservations name only
machines already drawn, so a fresh one is nobody's. `AnsweredInv`: an answer is what the
key's row stores until it is reclaimed, or the write-once object for ever. `SignerInv`: until an idem row expires the signer knows
one envelope per artifact, so a second batch has the bytes of the first; afterwards
only another key makes other bytes. `AuditSafe` shows `IssuanceAudited` from `AuditInv`:
what waits, travels or is archived is the chain's entry, and the signer remembers every
entry until the first expiry.

**AccountSessions.** `SessionsSafe` shows `SessionsBounded` from `SessionsInv`. A login
passes the gate and records its outcome in two calls, so failures can exceed the limit
by the handlers in between: `GateInv` counts the failures inside the window together
with the logins whose failure is still to be recorded (`Recording`). `Lineage` speaks of
tokens that are not revoked, expired or not, where the property speaks of live ones:
of all pairs of one sign-in one at most is unrevoked, and a pair that was exchanged is
revoked. A refresh revokes a pair before it issues the next, and revocation is never
taken back, so no order of refreshes and logouts makes two.

**Proved only.** `TypeOK` of `LicenseDO`, `AdminJournal` and `RevocationLog`, `LedgerInv`, `RevokedIsFinal`,
`CompletedIsRecorded`, `StrictSequence`, `AuditPrecedesEffect`, `FfiInv` and
`LossNeedsPanic` are in no run; the theorems cover the small instances too.

**Model-checked only.**

* Liveness (`DueHappens`, `JournalSettles`, `RevocationsFinish`, `Recovers`): the
  prover has no reasoning about fairness or `ENABLED`.
* Everything about `Rules`, `Decisions`, `Listing` and `Calendar`: recursion over data
  is out of the prover's reach.
* The other modules.

## 4. Where the code and its documents disagree

Three runs end in a counterexample that belongs to the project, each quoted with its
source in `PROJECT.json`.

* `revoke_drift`: a revocation whose target changed between two attempts is never
  published and keeps later ones from being reserved.
* `client_cursor`: client and Worker number the revocation batches differently.
* `journal_cron`: the cron takes the oldest unfinished operation, whose append needs the
  mirror row of a younger one that died before writing it, and meets `stale_chain_head`
  at every tick.

`RevokePurged.cfg` with `MCRevocationLog` also ends in a counterexample and is kept so
that it can be repeated: a revocation whose target was erased after its reservation never
finishes (`operations/runbook.md:119-120` says the cron resumes it).

Eleven more counterexamples come from the same modules with other constants. Those of
the client use `MCClient` with `Epoch = FirstEpochs = {"E1"}`, `NotBefore <-
AlwaysFrom`, `NotAfter <- AlwaysTo`, `Peers = {"worker"}`, `RefreshLife = GraceLife =
Threshold = 1`, `Verdict = {"ok"}`, `LicenseEnd = 0`, `Skew = 0`, `Lags = {0}`, `Ops =
{"activate"}`, `Suspends = FALSE`, `MaxLog = 0`, `MaxSeat = 1`, `MaxRestart = 0` and
`MaxNow = 4`, except as named.

| Constants | Property | What TLC shows | What is said |
| --- | --- | --- | --- |
| `Ops` with `"deactivate"`, `MaxNow = 2` | `NoFalseTamper` | a validation in flight turns a deactivation into Tampered | comment of `deactivate` |
| as they are | `NoKeyAfterGrace` | the first `feature_key` after a long sleep succeeds past the grace deadline | comment of `feature_key` |
| `LicenseEnd = 3`, `Lags = {0, 2}` | `NoKeyAfterExpiry` | a clock set back after a late ticket allows a key past the license's end | comment of `feature_key` |
| `Lags = {0, 2}` | `LockedOnlyOffline` | an online device with a slow clock is locked at every tick | `copylocker-core` `state.rs:207-208` |
| `Skew = 1`, `Lags = {0, 1}`, `MaxNow = 2`, `MaxRestart = 1` | `NoFalseTamper` | a clock behind by less than the tolerance makes an activation Tampered | `copylocker-core` `clock.rs:30` |
| `Suspends = TRUE`, `MaxNow = 2` | `NoFalseTamper` | a validation of a suspended license wipes it | `licensing-model.md:135` |
| `Lags = {0, 2}`, `Ops` with `"validate"`, `MaxLog = 1`, `MaxNow = 3` | `TerminalUntilActivation` | repeated rollbacks lead out of Revoked and Tampered | `copylocker-core` `state.rs:451` |
| `Peers = {"tests"}`, `Ops` with `"validate"`, `MaxLog = 1`, `MaxNow = 2`, `MaxRestart = 1` | `RestartKeepsLicense` | after any synced revocation a restart refuses the stored credential | `testing-strategy.md:184` |
| `Epoch = {"E1", "E2"}`, `NotBefore <- RotationFrom`, `Ops` with `"validate"`, `MaxLog = 1`, `MaxNow = 2` | `NoFalseTamper` | a key set built before a later revocation looks like a rollback | `non-functional-requirements.md:87` |
| `RevokePurged.cfg` with `Purgeable = {}` and `Spec` | `FeedNeverRegresses` (`RevocationLog`) | `rev:epoch` goes back when a slow handler writes last | `operations/runbook.md:121-122` |
| `Core.cfg` | `PreviewMatchesProduction` (`Simulator`) | the simulator makes an earned fallback perpetual and counts a term from the activation; the row keeps its end, which is counted from the issue | `licensing-model.md:187`, `:251` |

Some modules state a property that a document or a comment promises and the model
does not have; no run lists them. They are `RelayMayRetry` (`Issuance`: a rotation
between two tries makes the Issuer object refuse the stored credential), `DeviceCap`
(`AccountSessions`: a session whose access token has run out is not counted and is
then refreshed), `SuccessRestores` (the same module: a successful sign-in does not
reset the failures before it), `ReplacementReady` (`EpochAdmin`: the replacement may
be revoked between its reading and the batch), `FallbackWriteOnce`,
`CancelingSettles` and, with projections, `SuspensionHolds` (`Billing`),
`ErasedStaysErased` (an event on its way restores the D1 row) and
`PatchKeepsOtherFields` (`LicenseRecord`), `OfferedRuns` and `OverrideWins`
(`Decisions`), `ReloadAlwaysKeepsLicense` (`BrowserSession`),
`BlockNeverCostsCheckIn` (`Analytics`) and `PreloadIsNewest` (`Authorization`).

Smaller observations, met while modelling and not checked: `SubscriptionStart` of a
fallback's scope uses the start of the current period; a negative dunning grace is
accepted; the comment on creating an analytics subscription calls its R2 bytes
deterministic although they contain `created_at`.

## 5. Not modelled

* **Wire formats, suites, signatures.** Parsing and cryptography are guards here: a
  message is authentic or it is refused. What they compute is data TLC cannot
  enumerate, and their tests use vectors.
* **Build guard, sealing tools, console, SDK, CLI.** Sequential programs over files
  or HTTP with no state that outlives a call.
* **Node and Tauri adapters, Electron's preload script.** They pass each call on.
* **Identity providers** (`oidc`): an outcome of a sign-in.
* **Two tabs of one origin, two processes on one store.** The code has no protocol
  between them that could be stated.
* **Exports of data-subject requests, issue of offline license keys, the alert
  webhook.** Reads, or one call to an external service, after a journal step that is
  modelled. An offline license key is issued before its operation is journaled.
* **A second activation in the simulator**, which starts the subscription anew.
* **`reserve_seat` and `validate` of the server core** run beside the Worker's own
  code only in tests; `CoreLicense` models them for what they promise there.
* **The scheduler's exact delays, jitter and wording** everywhere: only their order
  matters to the properties. The Electron limiter's clock does not go back.
* **Concurrent `activate` or `deactivate` calls of one tab.** The page awaits a call
  before the next of its kind; nothing in the session enforces it.

A component marked `partly` in `PROJECT.json` has its state-changing operations as
actions except those its note names.
