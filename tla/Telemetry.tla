------------------------------ MODULE Telemetry ------------------------------
(***************************************************************************)
(* T1 usage telemetry on its way from the browser hook                     *)
(* (packages/telemetry) into a validate request, and the gates the Worker  *)
(* puts in front of it (worker analytics.rs, server-core clip.rs).         *)
(*                                                                         *)
(* Time is counted in days.  A device's clock may lag behind tday, so the  *)
(* hook reads any day of ClockReads.  The encoded size budget of a block   *)
(* is a number of feature entries, TBlockFeatures; the caps of the code    *)
(* (10 000, 28) are small constants here.                                  *)
(***************************************************************************)
EXTENDS Integers, FiniteSets, FiniteSetsExt

CONSTANTS
  TMachine,        \* devices with a licensed page
  TFeature,        \* feature ids a page may track
  TWhitelist,      \* the ids of the SDK configuration
  TClientCap,      \* MAX_SESSION_COUNT, MAX_BUCKET_COUNT, MAX_FEATURE_HITS, MAX_DAYS_ACTIVE
  TServerCap,      \* SESSION_COUNT_CAP, HISTOGRAM_BUCKET_CAP, FEATURE_HITS_CAP, DAYS_ACTIVE_CAP
  TBlockFeatures,  \* entries that fit into maxBlockBytes
  TWindow,         \* windowSecs, in days
  TDay,            \* days the model runs through
  TMaxUse          \* bound: track and recordSession calls of one device

ASSUME TelemetryAssumption ==
  /\ TWhitelist \subseteq TFeature
  /\ {TClientCap, TServerCap} \subseteq [sessions : Nat, bucket : Nat, hits : Nat, days : Nat]
  /\ {TBlockFeatures, TWindow} \subseteq Nat \ {0}
  /\ TDay \in Nat /\ TMaxUse \in Nat

VARIABLES
  tday,       \* the true day
  tconfig,    \* the resolved configuration of each device's hook
  tconsent,   \* privacy-notice version the user agreed to; 0 for none
  tcounters,  \* the WindowCollector of each device
  tuse        \* ghost: sessions and feature uses of each device

telemetryVars == <<tday, tconfig, tconsent, tcounters, tuse>>

NoBlock == [consent |-> 0, start |-> 0, sessions |-> 0,
            histogram |-> <<0, 0, 0, 0>>, hits |-> <<>>, days |-> 0]

\* Clocks lag by at most one day.
ClockReads == {tday} \union {d \in {tday - 1} : d >= 0}

-----------------------------------------------------------------------------
(* Configuration                                                           *)

Configs == [tier : {"off", "T0", "T1"}, provider : BOOLEAN, whitelist : {{}, TWhitelist}]

\* resolveConfig: T1 needs a consent provider; below T1 neither a provider
\* nor a whitelist may be given.
ResolveConfig(c) ==
  IF c.tier = "T1" THEN c.provider ELSE ~c.provider /\ c.whitelist = {}

-----------------------------------------------------------------------------
(* The window collector                                                    *)

Align(now) == (now \div TWindow) * TWindow

NewWindow(start) == [start |-> start, sessions |-> 0, histogram |-> <<0, 0, 0, 0>>,
                     hits |-> <<>>, active |-> {}]

WindowEmpty(w) == w.sessions = 0 /\ DOMAIN w.hits = {} /\ w.active = {}

MarkActive(w, now) ==
  IF Cardinality(w.active) < TClientCap.days
  THEN [w EXCEPT !.active = @ \union {now}] ELSE w

\* A feature outside the whitelist is dropped (devMode throws instead).
Track(m, f) ==
  /\ tconfig[m].tier = "T1" /\ f \in tconfig[m].whitelist
  /\ \E now \in ClockReads :
       LET w == tcounters[m]
           hits == [g \in DOMAIN w.hits \union {f} |->
                      (IF g \in DOMAIN w.hits THEN w.hits[g] ELSE 0) + (IF g = f THEN 1 ELSE 0)]
       IN tcounters' = [tcounters EXCEPT ![m] = MarkActive([w EXCEPT !.hits = hits], now)]

RecordSession(m, bucket) ==
  /\ tconfig[m].tier = "T1"
  /\ \E now \in ClockReads :
       tcounters' = [tcounters EXCEPT ![m] =
         MarkActive([@ EXCEPT !.sessions = @ + 1, !.histogram[bucket] = @ + 1], now)]
  /\ tuse' = [tuse EXCEPT ![m] = @ + 1]

NextStart(w, now) == IF Align(now) > w.start THEN Align(now) ELSE w.start

-----------------------------------------------------------------------------
(* Clipping, on the device and again on the server                         *)

AtMost(value, cap) == IF value > cap THEN cap ELSE value

\* Over the size budget the entries with the fewest hits go first.
FitsBudget(hits) ==
  IF Cardinality(DOMAIN hits) <= TBlockFeatures THEN {hits}
  ELSE {[f \in S |-> hits[f]] :
          S \in {S \in SUBSET DOMAIN hits :
                   /\ Cardinality(S) = TBlockFeatures
                   /\ \A f \in S, g \in DOMAIN hits \ S : hits[f] >= hits[g]}}

\* clipBlock: what each field of a reported window becomes.
ClipBlock(block, whitelist) ==
  [block EXCEPT !.sessions = AtMost(@, TClientCap.sessions),
                !.days = AtMost(@, TClientCap.days),
                !.histogram = [i \in 1..4 |-> AtMost(@[i], TClientCap.bucket)],
                !.hits = [f \in DOMAIN @ \intersect whitelist |-> AtMost(@[f], TClientCap.hits)]]

\* clip_telemetry: the stored values, and the anomalies that are counted.
ClipTelemetry(block, allowlist) ==
  [values |-> [block EXCEPT !.sessions = AtMost(@, TServerCap.sessions),
                            !.days = AtMost(@, TServerCap.days),
                            !.histogram = [i \in 1..4 |-> AtMost(@[i], TServerCap.bucket)],
                            !.hits = [f \in DOMAIN @ \intersect allowlist |-> AtMost(@[f], TServerCap.hits)]],
   clips |-> {<<"session_count_clipped", 0>> : x \in {s \in {block.sessions} : s > TServerCap.sessions}}
        \union {<<"days_active_clipped", 0>> : x \in {d \in {block.days} : d > TServerCap.days}}
        \union {<<"histogram_bucket_clipped", i>> :
                  i \in {j \in 1..4 : block.histogram[j] > TServerCap.bucket}}
        \union {<<"feature_key_dropped", f>> : f \in DOMAIN block.hits \ allowlist}
        \union {<<"feature_hits_clipped", f>> :
                  f \in {g \in DOMAIN block.hits \intersect allowlist : block.hits[g] > TServerCap.hits}}]

-----------------------------------------------------------------------------
(* Building a block                                                        *)

\* What buildBlock may return on device m: without consent, or with nothing
\* to report, no block and an untouched window.
MayReport(m) ==
  tconfig[m].tier = "T1" /\ tconsent[m] > 0 /\ ~WindowEmpty(tcounters[m])

\* The block of the window just closed, clipped to its budget.
Blocks(m) ==
  LET w == tcounters[m]
      clipped == ClipBlock([consent |-> tconsent[m], start |-> w.start, sessions |-> w.sessions,
                            histogram |-> w.histogram, hits |-> w.hits,
                            days |-> Cardinality(w.active)], tconfig[m].whitelist)
  IN IF MayReport(m) THEN {[clipped EXCEPT !.hits = hits] : hits \in FitsBudget(clipped.hits)}
     ELSE {NoBlock}

\* The window is reset when the block is built, whether or not the request
\* that carries it arrives.
TakeWindow(m) ==
  IF MayReport(m)
  THEN \E now \in ClockReads :
         tcounters' = [tcounters EXCEPT ![m] = NewWindow(NextStart(@, now))]
  ELSE UNCHANGED tcounters

-----------------------------------------------------------------------------
(* The gates of the validate path                                          *)

\* evaluate_telemetry: the policy's tier, then consent, then clipping.
Evaluate(tier, block, allowlist) ==
  IF tier # "T1" THEN [kind |-> "tier_gate", values |-> NoBlock, clips |-> {}]
  ELSE IF block.consent = 0 THEN [kind |-> "no_consent", values |-> NoBlock, clips |-> {}]
  ELSE LET c == ClipTelemetry(block, allowlist)
       IN [kind |-> "accepted", values |-> c.values, clips |-> c.clips]

Absent == [kind |-> "absent", values |-> NoBlock, clips |-> {}]

-----------------------------------------------------------------------------

TelemetryInit ==
  /\ tday = 0
  /\ tconfig \in [TMachine -> {c \in Configs : ResolveConfig(c)}]
  /\ tconsent = [m \in TMachine |-> 0]
  /\ tcounters = [m \in TMachine |-> NewWindow(Align(0))]
  /\ tuse = [m \in TMachine |-> 0]

\* The user agrees to a privacy notice or withdraws.
ChangeConsent(m) ==
  /\ tconfig[m].provider
  /\ \E v \in {0, 1} : tconsent' = [tconsent EXCEPT ![m] = v]
  /\ UNCHANGED <<tday, tconfig, tcounters, tuse>>

UseApp(m) ==
  /\ tuse[m] < TMaxUse
  /\ \/ \E f \in TFeature : Track(m, f) /\ tuse' = [tuse EXCEPT ![m] = @ + 1]
     \/ \E bucket \in {1, 4} : RecordSession(m, bucket)
  /\ UNCHANGED <<tday, tconfig, tconsent>>

=============================================================================
