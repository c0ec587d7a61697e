------------------------------ MODULE Simulator ------------------------------
(***************************************************************************)
(* The policy simulator (server-core simulator.rs, simulate) beside the    *)
(* license row the Worker's billing consumer keeps for the same events     *)
(* (webhook.rs, license_update).  Both apply an event with                 *)
(* Subscription::apply; each keeps its own expiry and version scope.  The  *)
(* license is issued, then activated, once each, and the steps are in the  *)
(* order of time, which is counted in days and moves to the instants that  *)
(* matter: the end of the period, of the dunning window, of the credential *)
(* or of the row, or the next day.                                         *)
(***************************************************************************)
EXTENDS Rules

LOCAL INSTANCE SequencesExt

CONSTANTS SimPolicies,  \* the policies a scenario may run, a sequence
          SimRegistry,  \* the registered releases
          MaxStep,      \* bound: events and moves of the clock of a scenario
          MonthDays     \* BILLING_MONTH_SECS

VARIABLES policy,  \* the policy
          stime,   \* the time of the step
          steps,   \* events and moves of the clock so far
          ssub,    \* the simulated subscription
          sscope,  \* version_scope
          scred,   \* credential_expiry
          activated, \* the Activate step was taken
          foretold, \* history: the ending a Cancel step announced
          srow     \* the Worker's licenses row

simVars == <<policy, stime, steps, ssub, sscope, scred, activated, foretold, srow>>

NoSubscription == [state |-> "none", start |-> 0, end |-> 0, dunning |-> Never, months |-> 0, earned |-> Never]
Unforetold == [state |-> "none", cut |-> Never]
Terminal == {"expired", "perpetual_fallback"}
NoLicense(p) == [status |-> "none", issued |-> Never, exp |-> Never, scope |-> p.scope]

SimInit ==
  /\ \E i \in DOMAIN SimPolicies : policy = SimPolicies[i]
  /\ stime = 0 /\ steps = 0
  /\ ssub = NoSubscription
  /\ sscope = policy.scope
  /\ scred = Never
  /\ activated = FALSE
  /\ foretold = Unforetold
  /\ srow = NoLicense(policy)

SimTick ==
  /\ steps < MaxStep /\ steps' = steps + 1
  /\ stime' \in {t \in {stime + 1, ssub.end, ssub.dunning, scred, srow.exp} : t > stime}
  /\ UNCHANGED <<policy, ssub, sscope, scred, activated, foretold, srow>>

(***************************************************************************)
(* Subscription::apply, the events a scenario has.                         *)
(***************************************************************************)
PaidMonths(days) == Max({days \div MonthDays, 1})
SettleEnding(s) == IF s.earned # Never THEN "perpetual_fallback" ELSE "expired"

FallbackCut(s) ==
  CASE policy.validity.months = NoFallback \/ s.earned = Never -> Never
    [] policy.validity.scopeAt = "earned_at" -> s.earned
    [] OTHER -> s.start

PreviewEnding(s) ==
  [state |-> SettleEnding(s), cut |-> IF SettleEnding(s) = "expired" THEN Never ELSE FallbackCut(s)]

ApplyRenewed(s, t) ==
  LET months == s.months + PaidMonths(policy.validity.period)
  IN [s EXCEPT !.start = t, !.end = t + policy.validity.period, !.dunning = Never, !.months = months,
               !.state = IF @ = "canceling" THEN @ ELSE "active",
               !.earned = IF /\ policy.validity.months # NoFallback /\ @ = Never
                             /\ months >= policy.validity.months
                          THEN t ELSE @]

SimApply(s, e, t) ==
  CASE s.state \in Terminal -> s
    [] e = "renewed" -> ApplyRenewed(s, t)
    [] e = "payment_failed" ->
         IF s.state \in {"active", "canceling"}
         THEN [s EXCEPT !.state = "past_due", !.dunning = t + policy.validity.dunning] ELSE s
    [] e = "dunning_elapsed" ->
         IF s.state = "past_due" THEN [s EXCEPT !.state = "suspended", !.months = 0] ELSE s
    [] e = "cancel" -> IF s.state \in {"active", "past_due"} THEN [s EXCEPT !.state = "canceling"] ELSE s
    [] e = "period_elapsed" ->
         IF s.state \in {"canceling", "suspended"} THEN [s EXCEPT !.state = SettleEnding(s)] ELSE s

(***************************************************************************)
(* license_update: the row after the event, COALESCE keeping what the      *)
(* event does not set.                                                     *)
(***************************************************************************)
RowPeriodEnd(s, e) ==
  CASE s.state = "suspended" -> [srow EXCEPT !.status = "suspended"]
    [] s.state = "expired" -> [srow EXCEPT !.status = "expired"]
    [] s.state = "perpetual_fallback" -> [srow EXCEPT !.status = "active"]
    [] OTHER -> [srow EXCEPT !.status = "active", !.exp = IF e = "renewed" THEN s.end ELSE @]

LicenseUpdate(s, e) ==
  CASE s.state = "suspended" -> [srow EXCEPT !.status = "suspended"]
    [] s.state = "expired" -> [srow EXCEPT !.status = "expired"]
    [] s.state = "perpetual_fallback" ->
         [srow EXCEPT !.status = "active",
                      !.scope = IF FallbackCut(s) = Never THEN @ ELSE [k |-> "released_before", v |-> FallbackCut(s)]]
    [] OTHER -> [srow EXCEPT !.status = "active",
                             !.exp = IF e = "renewed" THEN s.end + policy.validity.dunning ELSE @]

(***************************************************************************)
(* The steps of a scenario.                                                *)
(***************************************************************************)
\* An administrator issues the license: the row's term starts here.
SimIssue ==
  /\ srow.status = "none"
  /\ srow' = [srow EXCEPT !.status = "active", !.issued = stime, !.exp = ExpiresAt(policy, stime)]
  /\ UNCHANGED <<policy, stime, steps, ssub, sscope, scred, activated, foretold>>

\* The simulated term starts with the activation, whenever the license was issued.
SimActivate ==
  /\ srow.status # "none" /\ ~activated
  /\ activated' = TRUE
  /\ scred' = ExpiresAt(policy, stime)
  /\ ssub' = IF policy.validity.k # "subscription" THEN ssub
             ELSE [NoSubscription EXCEPT !.state = "active", !.start = stime, !.end = stime + policy.validity.period]
  /\ UNCHANGED <<policy, stime, steps, sscope, foretold, srow>>

Subscription == ssub.state # "none"

RenewedExpiry(s) == s.end + policy.validity.dunning

SimStep(e) ==
  /\ Subscription /\ steps < MaxStep
  /\ steps' = steps + 1
  /\ ssub' = SimApply(ssub, e, stime)
  /\ srow' = LicenseUpdate(ssub', e)
  /\ UNCHANGED <<policy, stime, activated>>

\* Without a subscription a renewal has no effect.
SimRenew ==
  /\ SimStep("renewed")
  /\ scred' = IF ssub.state \in Terminal THEN scred ELSE RenewedExpiry(ssub')
  /\ foretold' = Unforetold
  /\ UNCHANGED sscope

SimPaymentFails == SimStep("payment_failed") /\ UNCHANGED <<sscope, scred, foretold>>

SimDunningLapses == SimStep("dunning_elapsed") /\ UNCHANGED <<sscope, scred, foretold>>

SimCancel ==
  /\ SimStep("cancel")
  /\ foretold' = PreviewEnding(ssub')
  /\ UNCHANGED <<sscope, scred>>

SimPeriodEnds ==
  /\ SimStep("period_elapsed")
  /\ IF ssub'.state = "perpetual_fallback"
     THEN /\ sscope' = IF FallbackCut(ssub') = Never THEN sscope
                       ELSE [k |-> "released_before", v |-> FallbackCut(ssub')]
          /\ scred' = Never
     ELSE UNCHANGED <<sscope, scred>>
  /\ UNCHANGED foretold

IsUsableAt(s, t) ==
  CASE s.state = "past_due" -> s.dunning = Never \/ t < s.dunning
    [] OTHER -> s.state \notin {"suspended", "expired"}

\* A warning about a compromised release does not stop it.
Allows(decision) ==
  decision.d = "in_scope" \/ (decision.d = "compromised" /\ decision.v = "warn")

\* RunRelease: what the simulator says of a release now.
RunsSimulated(id) ==
  /\ IsUsableAt(ssub, stime)
  /\ ssub.state = "perpetual_fallback" \/ scred = Never \/ stime < scred
  /\ Allows(Decide(SimRegistry, sscope, id))

SimNext ==
  \/ SimTick \/ SimIssue \/ SimActivate \/ SimRenew \/ SimPaymentFails \/ SimDunningLapses \/ SimCancel \/ SimPeriodEnds

SimSpec == SimInit /\ [][SimNext]_simVars

(***************************************************************************)
(* Properties.                                                             *)
(***************************************************************************)
\* What the license row lets a release do: reserve_seat and validate refuse a
\* row that is not active or past its expiry.
RunsInProduction(id) ==
  /\ srow.status = "active" /\ (srow.exp = Never \/ stime < srow.exp)
  /\ Allows(Decide(SimRegistry, srow.scope, id))

\* The row has run out although the simulated credential may not have: its term
\* was counted from the issue, or a fallback was taken, which leaves it alone.
RowOutlived ==
  /\ srow.exp # Never /\ stime >= srow.exp
  /\ srow.exp = ExpiresAt(policy, srow.issued) \/ ssub.state = "perpetual_fallback"

\* The row is settled: the cron has applied the deadlines that have passed.
RowSettled == ~(ssub.state = "past_due" /\ stime >= ssub.dunning)

\* licensing-model.md "simulator, CLI, and server must agree": a release the
\* server would serve is one the simulator says runs, over every order of
\* payments, failures, cancellations and ends.  The reverse holds until the row
\* runs out: the term counted from the issue ends before the simulator's when
\* the license was activated later, and a fallback does not lift the expiry.
SimulatorAgrees ==
  activated /\ RowSettled =>
    \A r \in Range(SimRegistry) :
      /\ RunsInProduction(r.id) => RunsSimulated(r.id)
      /\ RunsSimulated(r.id) => RunsInProduction(r.id) \/ RowOutlived

\* The ending a cancellation announces (preview_ending) is the one the
\* subscription comes to, whatever payments fail in between, unless it is paid
\* for again.
PreviewIsOutcome ==
  foretold # Unforetold /\ ssub.state \in Terminal =>
    /\ foretold.state = ssub.state
    /\ foretold.cut = IF ssub.state = "expired" THEN Never ELSE FallbackCut(ssub)

\* Time that was paid for runs: inside the period of an active or canceling
\* subscription the credential has not expired.
PaidTimeRuns ==
  ssub.state \in {"active", "canceling"} /\ stime < ssub.end => scred = Never \/ stime < scred

\* NFR-LIC-004, "preview output must match production behavior": also for an
\* earned fallback, which the documentation calls perpetual.
PreviewMatchesProduction ==
  activated /\ RowSettled =>
    \A r \in Range(SimRegistry) : RunsSimulated(r.id) <=> RunsInProduction(r.id)

\* What the simulator shows beside the row that billing keeps is what will
\* happen: same states and ends, the previewed outcome, and no paid day
\* without a running credential (simulate, license_update).
PreviewFaithful == SimulatorAgrees /\ PreviewIsOutcome /\ PaidTimeRuns
=============================================================================
