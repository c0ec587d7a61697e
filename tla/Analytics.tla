------------------------------ MODULE Analytics ------------------------------
(***************************************************************************)
(* The analytics pipeline of the Worker: a successful validate or          *)
(* activation emits one detail event, the queue consumer archives it to    *)
(* R2, the daily cron rolls a UTC day up into D1, and the Admin API        *)
(* answers from the raw archive or from the rollups.  Telemetry purge and  *)
(* data-subject deletion remove raw records underneath.                    *)
(*                                                                         *)
(* One product.  Three cubes stand for the nine: the product, one          *)
(* mandatory dimension (app version) and the optional one (country).       *)
(***************************************************************************)
EXTENDS Telemetry, Sequences

CONSTANTS
  AVersion,      \* [TMachine -> app version]
  ACountry,      \* [TMachine -> country or "none"]
  ACatalog,      \* feature ids of the product's catalog
  AHash,         \* [TMachine -> <<register, rank>>], the hash of a machine key
  AMaxClips,     \* clip events one detail event may carry
  AKMin,         \* K_ANONYMITY_MIN
  ARollupCap,    \* MAX_ROLLUP_RECORDS
  AMaxRequests,  \* bound: validate requests and activations
  AMaxRolls      \* bound: runs of the rollup cron

ASSUME AnalyticsAssumption ==
  /\ ACatalog \subseteq TFeature
  /\ {AMaxClips, AKMin, ARollupCap, AMaxRequests, AMaxRolls} \subseteq Nat

VARIABLES
  atier,      \* telemetry_tier of the policy
  arequest,   \* [TMachine -> the validate request in flight]
  anonces,    \* requests the LicenseDO has accepted
  adrawn,     \* requests and record ids drawn so far
  aqueue,     \* detail events in the EVENTS queue
  araw,       \* detail records under analytics/raw/
  arolled,    \* [day -> row], analytics_rollup, analytics_hll, telemetry_rollup
  aroller,    \* the running rollup
  arolls,     \* rollup runs so far
  apurge,     \* the journaled purge whose side effect is due
  achecked,   \* ghost: [day -> machines that checked in successfully]
  amissed     \* ghost: days of which an event was lost, late or removed

analyticsVars == <<telemetryVars, atier, arequest, anonces, adrawn, aqueue, araw, arolled,
                   aroller, arolls, apurge, achecked, amissed>>

Day == 0..TDay
NoRequest == [id |-> 0, block |-> NoBlock]
NoRow == [cubes |-> <<>>, fresh |-> 0, sessions |-> 0, hits |-> <<>>, counters |-> <<>>]
Resting == [pc |-> "idle", day |-> 0, keys |-> {}, row |-> NoRow]
NoPurge == [due |-> FALSE, before |-> 0]

-----------------------------------------------------------------------------
(* The request path                                                        *)

\* validateNow: a fresh nonce, and the block the hook builds.
SendValidate(m) ==
  /\ arequest[m] = NoRequest /\ adrawn < AMaxRequests
  /\ \E block \in Blocks(m) :
       arequest' = [arequest EXCEPT ![m] = [id |-> adrawn + 1, block |-> block]]
  /\ TakeWindow(m)
  /\ adrawn' = adrawn + 1
  /\ UNCHANGED <<tday, tconfig, tconsent, tuse, atier, anonces, aqueue, araw, arolled, aroller,
                 arolls, apurge, achecked, amissed>>

\* is_valid refuses an event with more clips than it may carry; the caller
\* then logs and enqueues nothing.
EventValid(e) == Cardinality(e.telemetry.clips) <= AMaxClips

Detail(id, kind, m, reused, telemetry) ==
  [id |-> id, day |-> tday, kind |-> kind, machine |-> m, reused |-> reused,
   telemetry |-> telemetry]

\* The send to the queue is best effort: a failure is logged, never retried.
EnqueueDetail(e) ==
  \/ /\ EventValid(e)
     /\ aqueue' = aqueue \union {e} /\ UNCHANGED amissed
  \/ amissed' = amissed \union {tday} /\ UNCHANGED aqueue

\* A failing lookup of the tier and the allow-list forfeits the block alone.
Outcomes(block) ==
  IF block = NoBlock THEN {Absent} ELSE {Absent, Evaluate(atier, block, ACatalog)}

\* The first arrival of a request passes the LicenseDO's nonce check and is
\* answered with a ticket.
CheckIn(m) ==
  /\ arequest[m] # NoRequest /\ arequest[m].id \notin anonces
  /\ anonces' = anonces \union {arequest[m].id}
  /\ \E outcome \in Outcomes(arequest[m].block) :
       EnqueueDetail(Detail(arequest[m].id, "check_in", m, FALSE, outcome))
  /\ achecked' = [achecked EXCEPT ![tday] = @ \union {m}]
  /\ UNCHANGED <<telemetryVars, atier, arequest, adrawn, araw, arolled, aroller, arolls, apurge>>

\* The page has its answer or gives up; a repetition of the same body is
\* refused as a replayed nonce and changes nothing.
EndRequest(m) ==
  /\ arequest[m] # NoRequest
  /\ arequest' = [arequest EXCEPT ![m] = NoRequest]
  /\ UNCHANGED <<telemetryVars, atier, anonces, adrawn, aqueue, araw, arolled, aroller, arolls,
                 apurge, achecked, amissed>>

\* A completed activation; one that found its device's row again is reused.
Activated(m) ==
  /\ adrawn < AMaxRequests
  /\ adrawn' = adrawn + 1
  /\ \E reused \in BOOLEAN : EnqueueDetail(Detail(adrawn + 1, "activation", m, reused, Absent))
  /\ UNCHANGED <<telemetryVars, atier, arequest, anonces, araw, arolled, aroller, arolls, apurge,
                 achecked>>

SetTier ==
  /\ \E tier \in {"T0", "T1"} : atier' = tier
  /\ UNCHANGED <<telemetryVars, arequest, anonces, adrawn, aqueue, araw, arolled, aroller,
                 arolls, apurge, achecked, amissed>>

-----------------------------------------------------------------------------
(* The raw archive                                                         *)

\* archive_detail: the key derives from the event's day and record id and
\* the write is conditional, so a redelivered event finds its own bytes.
Archived(e) == araw \union {e}

\* The list of a day's keys is taken, or the day was rolled up before.
ListTaken(d) == arolled[d] # NoRow \/ (aroller.pc # "idle" /\ aroller.day = d)

\* Delivery at least once: the message is acknowledged or comes again.
Deliver(e) ==
  /\ araw' = Archived(e)
  /\ aqueue' \in {aqueue, aqueue \ {e}}
  /\ amissed' = IF ListTaken(e.day) /\ e \notin araw THEN amissed \union {e.day} ELSE amissed
  /\ UNCHANGED <<telemetryVars, atier, arequest, anonces, adrawn, arolled, aroller, arolls,
                 apurge, achecked>>

\* Ten failures send a message to the dead letter queue.
DeadLetter(e) ==
  /\ aqueue' = aqueue \ {e}
  /\ amissed' = amissed \union {e.day}
  /\ UNCHANGED <<telemetryVars, atier, arequest, anonces, adrawn, araw, arolled, aroller, arolls,
                 apurge, achecked>>

-----------------------------------------------------------------------------
(* Cubes and sketches                                                      *)

\* cube_keys: an absent country forms no bucket.
CubeKeys(m) ==
  {<<"product">>, <<"app_version", AVersion[m]>>}
    \union {<<"country", c>> : c \in {ACountry[m]} \ {"none"}}

Registers == {AHash[m][1] : m \in TMachine}

EmptySketch == [r \in Registers |-> 0]

Larger(a, b) == IF a > b THEN a ELSE b

AddToSketch(sketch, m) ==
  [sketch EXCEPT ![AHash[m][1]] = Larger(@, AHash[m][2])]

MergeSketch(a, b) == [r \in Registers |-> Larger(a[r], b[r])]

SketchOf(machines) == FoldSet(LAMBDA m, s : AddToSketch(s, m), EmptySketch, machines)

\* cardinality: the linear-counting range of the estimator, without its
\* logarithm; it never exceeds the machines that were added.
Estimate(sketch) == Cardinality({r \in Registers : sketch[r] > 0})

-----------------------------------------------------------------------------
(* The daily rollup                                                        *)

\* Variant: check-ins are counted, not machines.
CubeRowPerRecord(records, cube) ==
  LET checks == {q \in records : q.kind = "check_in" /\ cube \in CubeKeys(q.machine)}
  IN [count |-> Cardinality(checks), sketch |-> SketchOf({r.machine : r \in checks})]

CubeRow(records, cube) ==
  LET machines == {r.machine : r \in {q \in records : /\ q.kind = "check_in"
                                                      /\ cube \in CubeKeys(q.machine)}}
  IN [count |-> Cardinality(machines), sketch |-> SketchOf(machines)]

\* aggregate_day, accumulate_telemetry
AggregateDay(records) ==
  LET kept == {r \in records : r.telemetry.kind = "accepted"}
      dropped == {r \in records : r.telemetry.kind \in {"tier_gate", "no_consent"}}
      clipped == UNION {{<<r.id, c>> : c \in r.telemetry.clips} : r \in kept}
      using(f) == {r \in kept : f \in DOMAIN r.telemetry.values.hits}
  IN [cubes |-> [c \in UNION {CubeKeys(r.machine) : r \in {q \in records : q.kind = "check_in"}} |->
                   CubeRow(records, c)],
      fresh |-> Cardinality({r \in records : r.kind = "activation" /\ ~r.reused}),
      sessions |-> MapThenSumSet(LAMBDA r : r.telemetry.values.sessions, kept),
      hits |-> [f \in {g \in TFeature : using(g) # {}} |->
                  MapThenSumSet(LAMBDA r : r.telemetry.values.hits[f], using(f))],
      counters |-> [k \in {r.telemetry.kind : r \in dropped} \union {x[2][1] : x \in clipped} |->
                      Cardinality({r \in dropped : r.telemetry.kind = k})
                        + Cardinality({x \in clipped : x[2][1] = k})]]

FirstKeys(keys) == {k \in keys : Cardinality({q \in keys : q.id < k.id}) < ARollupCap}

\* The cron of day tday lists the raw keys of the day before.
RollupList ==
  /\ aroller = Resting /\ arolls < AMaxRolls /\ tday > 0
  /\ arolls' = arolls + 1
  /\ LET keys == {r \in araw : r.day = tday - 1}
     IN /\ aroller' = [Resting EXCEPT !.pc = "read", !.day = tday - 1, !.keys = FirstKeys(keys)]
        /\ amissed' = IF FirstKeys(keys) = keys /\ \A e \in aqueue : e.day # tday - 1 \/ e \in keys
                      THEN amissed ELSE amissed \union {tday - 1}
  /\ UNCHANGED <<telemetryVars, atier, arequest, anonces, adrawn, aqueue, araw, arolled, apurge,
                 achecked>>

\* Objects deleted since the listing are skipped; an empty day writes nothing.
RollupRead ==
  /\ aroller.pc = "read"
  /\ LET records == aroller.keys \intersect araw
     IN aroller' = IF records = {} THEN Resting
                   ELSE [aroller EXCEPT !.pc = "counts", !.row = AggregateDay(records)]
  /\ UNCHANGED <<telemetryVars, atier, arequest, anonces, adrawn, aqueue, araw, arolled, arolls,
                 apurge, achecked, amissed>>

\* INSERT OR REPLACE by key: rows this run does not produce stay.
Replaced(old, new) ==
  [k \in DOMAIN old \union DOMAIN new |-> IF k \in DOMAIN new THEN new[k] ELSE old[k]]

\* The first statements carry the exact counts and the sketches.
WithCounts(old, new) ==
  [old EXCEPT !.cubes = Replaced(@, new.cubes), !.fresh = IF new.fresh > 0 THEN new.fresh ELSE @]

\* The last ones the telemetry aggregates and the anomaly counters.
WithTelemetry(old, new) ==
  [old EXCEPT !.sessions = IF new.sessions > 0 THEN new.sessions ELSE @,
              !.hits = Replaced(@, new.hits), !.counters = Replaced(@, new.counters)]

RollupWriteCounts ==
  /\ aroller.pc = "counts"
  /\ arolled' = [arolled EXCEPT ![aroller.day] = WithCounts(@, aroller.row)]
  /\ aroller' = [aroller EXCEPT !.pc = "telemetry"]
  /\ UNCHANGED <<telemetryVars, atier, arequest, anonces, adrawn, aqueue, araw, arolls, apurge,
                 achecked, amissed>>

RollupWriteTelemetry ==
  /\ aroller.pc = "telemetry"
  /\ arolled' = [arolled EXCEPT ![aroller.day] = WithTelemetry(@, aroller.row)]
  /\ aroller' = Resting
  /\ UNCHANGED <<telemetryVars, atier, arequest, anonces, adrawn, aqueue, araw, arolls, apurge,
                 achecked, amissed>>

\* A failing batch or a dying handler ends the run for this product; the
\* next cron is a day later and takes the next day.
RollupFails ==
  /\ aroller.pc # "idle"
  /\ amissed' = amissed \union {aroller.day}
  /\ aroller' = Resting
  /\ UNCHANGED <<telemetryVars, atier, arequest, anonces, adrawn, aqueue, araw, arolled, arolls,
                 apurge, achecked>>

-----------------------------------------------------------------------------
(* Purge and deletion                                                      *)

\* telemetry_purge with an explicit date: the journal row and the deletion of
\* the rollups commit in one batch, the raw records follow.
PurgeTelemetry(before) ==
  /\ ~apurge.due
  /\ apurge' = [due |-> TRUE, before |-> before]
  /\ arolled' = [d \in Day |-> IF d < before /\ arolled[d] # NoRow
                               THEN [NoRow EXCEPT !.cubes = arolled[d].cubes,
                                                   !.fresh = arolled[d].fresh]
                               ELSE arolled[d]]
  /\ UNCHANGED <<telemetryVars, atier, arequest, anonces, adrawn, aqueue, araw, aroller, arolls,
                 achecked, amissed>>

\* Its side effect: every raw record with telemetry up to the date goes.
PurgeSweep ==
  /\ apurge.due
  /\ LET gone == {r \in araw : r.day < apurge.before /\ r.telemetry.kind = "accepted"}
     IN /\ araw' = araw \ gone
        /\ amissed' = amissed \union {r.day : r \in gone}
  /\ apurge' = NoPurge
  /\ UNCHANGED <<telemetryVars, atier, arequest, anonces, adrawn, aqueue, arolled, aroller,
                 arolls, achecked>>

\* The raw leg of a data-subject deletion.
ForgetRaw(m) ==
  /\ LET gone == {r \in araw : r.machine = m}
     IN /\ gone # {}
        /\ araw' = araw \ gone
        /\ amissed' = amissed \union {r.day : r \in gone}
  /\ UNCHANGED <<telemetryVars, atier, arequest, anonces, adrawn, aqueue, arolled, aroller,
                 arolls, apurge, achecked>>

-----------------------------------------------------------------------------
(* Queries                                                                 *)

\* One bucket of a query covers the days from..to.
ExactMachines(from, to, cube) ==
  {r.machine : r \in {q \in araw : /\ q.kind = "check_in" /\ q.day \in from..to
                                   /\ cube \in CubeKeys(q.machine)}}

HllMerged(from, to, cube) ==
  FoldSet(LAMBDA d, s : MergeSketch(s, arolled[d].cubes[cube].sketch), EmptySketch,
          {d \in from..to : cube \in DOMAIN arolled[d].cubes})

\* suppress_buckets: a small bucket is left out of the answer.
Suppress(distinct) == IF distinct < AKMin THEN 0 ELSE distinct

\* The unique series dev.checked_in, the only one that is suppressed:
\* compute_report hands count_series out as it is.
ReportedUnique(from, to, cube, source) ==
  Suppress(IF source = "exact" THEN Cardinality(ExactMachines(from, to, cube))
           ELSE Estimate(HllMerged(from, to, cube)))

\* count_series over the telemetry aggregates.
CountSeries(from, to) ==
  MapThenSumSet(LAMBDA d : arolled[d].sessions
                               + MapThenSumSet(LAMBDA f : arolled[d].hits[f], DOMAIN arolled[d].hits),
                from..to)

-----------------------------------------------------------------------------

AnalyticsClock ==
  /\ tday < TDay /\ tday' = tday + 1
  /\ UNCHANGED <<tconfig, tconsent, tcounters, tuse, atier, arequest, anonces, adrawn, aqueue,
                 araw, arolled, aroller, arolls, apurge, achecked, amissed>>

AnalyticsInit ==
  /\ TelemetryInit
  /\ atier = "T1"
  /\ arequest = [m \in TMachine |-> NoRequest]
  /\ anonces = {} /\ adrawn = 0 /\ aqueue = {} /\ araw = {}
  /\ arolled = [d \in Day |-> NoRow]
  /\ aroller = Resting /\ arolls = 0 /\ apurge = NoPurge
  /\ achecked = [d \in Day |-> {}] /\ amissed = {}

HookStep ==
  /\ \E m \in TMachine : UseApp(m) \/ ChangeConsent(m)
  /\ UNCHANGED <<atier, arequest, anonces, adrawn, aqueue, araw, arolled, aroller, arolls,
                 apurge, achecked, amissed>>

RequestPath == \E m \in TMachine : SendValidate(m) \/ CheckIn(m) \/ EndRequest(m) \/ Activated(m)

ConsumeDetail == \E e \in aqueue : Deliver(e) \/ DeadLetter(e)

Rollup == RollupList \/ RollupRead \/ RollupWriteCounts \/ RollupWriteTelemetry \/ RollupFails

Removal == (\E d \in Day : PurgeTelemetry(d)) \/ PurgeSweep \/ (\E m \in TMachine : ForgetRaw(m))

AnalyticsNext ==
  HookStep \/ RequestPath \/ SetTier \/ ConsumeDetail \/ Rollup \/ Removal \/ AnalyticsClock

-----------------------------------------------------------------------------
(* Properties                                                              *)

\* Every use of the app is counted at most once in telemetry_rollup, through
\* repeated validate requests, redelivered queue messages and repeated
\* rollups (collector.ts takeWindow, archive_detail, write_rollup).
UseCountedOnce ==
  CountSeries(0, TDay) <= MapThenSumSet(LAMBDA m : tuse[m], TMachine)

\* dev.checked_in never counts a machine that did not check in on the day,
\* and counts each one that did when no event of the day was lost, late or
\* removed (aggregate_day).
DailyCountExact ==
  \A d \in Day :
    <<"product">> \in DOMAIN arolled[d].cubes =>
      LET count == arolled[d].cubes[<<"product">>].count
      IN /\ count <= Cardinality(achecked[d])
         /\ d \notin amissed => count = Cardinality(achecked[d])

\* A query of dev.checked_in over several days counts the same machines from
\* the raw records and from the merged sketches, for every cube, and these are
\* the machines that checked in, once each day is rolled up and complete
\* (exact_unique_series, hll_unique_series).
SourcesAgree ==
  \A from, to \in 0..tday - 1 :
    (\A d \in from..to : d \notin amissed /\ (achecked[d] # {} => DOMAIN arolled[d].cubes # {})) =>
      \A cube \in UNION {CubeKeys(m) : m \in TMachine} :
        LET exact == ExactMachines(from, to, cube)
        IN /\ exact = {m \in UNION {achecked[d] : d \in from..to} : cube \in CubeKeys(m)}
           /\ \A r \in Registers :
                HllMerged(from, to, cube)[r] =
                  Max({0} \union {AHash[m][2] : m \in {n \in exact : AHash[n][1] = r}})

\* The unique series shows no bucket of fewer than AKMin machines, whichever
\* source it is computed from (compute_report, suppress_buckets).
SmallUniqueHidden ==
  \A from \in Day : \A to \in from..TDay :
    LET seen == UNION {achecked[d] : d \in from..to}
    IN \A cube \in UNION {CubeKeys(m) : m \in seen}, source \in {"exact", "hll"} :
         ReportedUnique(from, to, cube, source) > 0 =>
           AKMin <= Cardinality({m \in seen : cube \in CubeKeys(m)})

\* A reported block never costs its check-in: whatever its clips, the event
\* of a successful validate can be enqueued (load_telemetry_policy: "any
\* failure forfeits just the telemetry block").
BlockNeverCostsCheckIn ==
  \A m \in TMachine :
    arequest[m] # NoRequest =>
      \A outcome \in Outcomes(arequest[m].block) :
        EventValid(Detail(arequest[m].id, "check_in", m, FALSE, outcome))

\* The figures a query reports count every use once, by whichever source,
\* though events are redelivered and rollups repeated, and no count of few
\* unique machines is shown (archive_detail, rollup_previous_day).
FiguresExact ==
  /\ UseCountedOnce
  /\ DailyCountExact
  /\ SourcesAgree
  /\ SmallUniqueHidden
=============================================================================
