-------------------------------- MODULE MCWeb --------------------------------
(***************************************************************************)
(* The browser side and the analytics pipeline behind it.  focus picks the *)
(* part that moves; the others rest in their initial states.               *)
(*   "page"     one page against a server that changes nothing: every      *)
(*              interleaving of calls, late answers, store writes, Worker  *)
(*              deaths and a reload;                                       *)
(*   "server"   one seat while the server rotates, publishes and judges;   *)
(*   "hook"     the telemetry hook of one device, every configuration;     *)
(*   "count"    one telemetry block through check-in, archive, repeated    *)
(*              rollups and a purge;                                       *)
(*   "rollup"   two devices over three days;                               *)
(*   "store"    the desktop device's sealed record.                       *)
(***************************************************************************)
EXTENDS BrowserSession, Analytics, SecureStore

VARIABLE focus

MCVersion == [m \in TMachine |-> IF m = 1 THEN "v1" ELSE "v2"]
MCCountry == [m \in TMachine |-> IF m = 1 THEN "DE" ELSE "none"]
\* The caps of clip.ts and clip.rs are equal in the code: 10 000, and 28 days.
MCCap == [sessions |-> 1, bucket |-> 1, hits |-> 1, days |-> 2]
MCHash == [m \in TMachine |-> <<m, 2>>]

Off == [tier |-> "off", provider |-> FALSE, whitelist |-> {}]
On == [tier |-> "T1", provider |-> TRUE, whitelist |-> TWhitelist]

WebInit ==
  /\ BrowserInit /\ AnalyticsInit /\ StoreInit
  /\ focus \in {"page", "server", "hook", "count", "rollup", "store"}
  /\ tconfig[2] = Off
  /\ (focus \in {"page", "server", "rollup", "store"} => tconfig[1] = Off)
  /\ (focus = "count" => tconfig[1] = On)

-----------------------------------------------------------------------------

PageFocus ==
  /\ focus = "page"
  /\ \/ Shell \/ Serving \/ Writing \/ WriteFails \/ WorkerDies \/ Reload
     \/ btime < 1 /\ BrowserClock
     \/ \E call \in DOMAIN Quiet : Rejected(call) \/ Unreachable(call)

\* The host activates once and the seat is never given back.
ServerFocus ==
  /\ focus = "server"
  /\ \/ Shell \/ Serving \/ Operating \/ Writing \/ Reload \/ BrowserClock
     \/ Unreachable("validate")
  /\ bcall'.deactivate.pc = "idle" /\ bserver'.seats <= 1
  /\ (bcall'.activate.pc = "keys" => bserver.held = 0)

\* One request in flight, given up only after the server has answered.
Answering ==
  /\ \E m \in TMachine : arequest'[m] = NoRequest
  /\ \A m \in TMachine :
       (arequest[m] # NoRequest /\ arequest'[m] = NoRequest) => arequest[m].id \in anonces

HookFocus ==
  /\ focus = "hook"
  /\ HookStep \/ SetTier \/ AnalyticsClock \/ SendValidate(1) \/ CheckIn(1) \/ EndRequest(1)
  /\ adrawn' <= 2 /\ tday' <= 1

CountFocus ==
  /\ focus = "count"
  /\ \/ HookStep \/ SendValidate(1) \/ CheckIn(1) \/ EndRequest(1) \/ AnalyticsClock
     \/ (\E e \in aqueue : Deliver(e)) \/ Rollup \/ PurgeSweep
     \/ tday = 1 /\ PurgeTelemetry(1)
  /\ tday' <= 1 /\ adrawn' <= 2 /\ tuse'[1] <= 1 /\ tconsent'[1] >= tconsent[1]
  /\ tcounters'[1].histogram[4] = 0 /\ "f2" \notin DOMAIN tcounters'[1].hits
  /\ Answering

RollupFocus ==
  /\ focus = "rollup"
  /\ \/ RequestPath \/ ConsumeDetail \/ Rollup \/ AnalyticsClock
     \/ ForgetRaw(2)
  /\ Answering
  /\ \A e \in aqueue' : e.kind = "check_in" \/ (e.machine = 2 /\ e.id = 1)

WebNext ==
  /\ UNCHANGED focus
  /\ \/ (PageFocus \/ ServerFocus) /\ UNCHANGED <<analyticsVars, storeVars>>
     \/ (HookFocus \/ CountFocus \/ RollupFocus) /\ UNCHANGED <<bvars, storeVars>>
     \/ focus = "store" /\ StoreNext /\ UNCHANGED <<bvars, analyticsVars>>
=============================================================================
