------------------------------- MODULE Billing -------------------------------
(***************************************************************************)
(* One subscription and its license row: provider webhooks are normalised, *)
(* queued, and applied one after the other by the queue consumer           *)
(* (webhook.rs process, max_concurrency 1), while the minute cron          *)
(* (webhook.rs reconcile_due) settles what fell due; both read the         *)
(* subscription, apply the event (subscription.rs apply) and write the     *)
(* whole row back in one batch.  Time is counted in the provider's         *)
(* timestamps.                                                             *)
(***************************************************************************)
EXTENDS Integers, FiniteSets

LOCAL INSTANCE FiniteSetsExt

CONSTANTS Hook,         \* the types of webhook providers send
          MaxTime,      \* bound: the clock
          MaxHook,      \* bound: webhooks the provider sends
          Periods,      \* lengths of a billing period
          Month,        \* BILLING_MONTH_SECS
          Dunning,      \* dunning_grace_secs
          Review,       \* REFUND_REVIEW_SECS
          AfterMonths,  \* fallback.after_months
          Projecting    \* whether the LicenseDO projects its own status

ASSUME BillingAssumption ==
  /\ {MaxTime, MaxHook, Dunning, Review, AfterMonths} \subseteq Nat
  /\ Periods \cup {Month} \subseteq Nat \ {0}
  /\ Projecting \in BOOLEAN

VARIABLES provider, \* the billing provider of the subscription
          bclock,   \* the current time
          hooks,    \* webhooks sent and still on the queue
          hooksSent, \* number of webhooks sent
          sub,      \* the subscriptions row, or NoSub
          applied,  \* billing_events: the events processed
          lrow,     \* the licenses row: status and expires_at
          worker,   \* the consumer and the cron: what each is in the middle of
          chased    \* refund reports applied (their timestamps)

billingVars == <<provider, bclock, hooks, hooksSent, sub, applied, lrow, worker, chased>>

Unset == -1
NoSub == [state |-> "none", pend |-> 0, dunning |-> Unset, months |-> 0, earned |-> Unset,
          canceled |-> Unset, updated |-> 0, refund |-> Unset]
\* An event: its id, which names its kind and, for the properties, the length of
\* the period it pays for (0: none), and its timestamp.
BillingEvent(kind, n, len, ts) == [id |-> <<kind, n, len>>, kind |-> kind, len |-> len, ts |-> ts]
Idling == [pc |-> "idle", e |-> BillingEvent("none", 0, 0, 0), row |-> NoSub]
Actor == {"consumer", "cron"}

BillingInit ==
  /\ provider \in {"stripe", "paddle", "lemonsqueezy"}
  /\ bclock = 0 /\ hooksSent = 0
  /\ \E len \in Periods : hooks = {BillingEvent("Started", 0, len, 0)}
  /\ sub = NoSub
  /\ applied = {}
  /\ lrow = [st |-> "active", exp |-> Unset]
  /\ worker = [a \in Actor |-> Idling]
  /\ chased = {}

BillingTick ==
  /\ bclock < MaxTime
  /\ bclock' = bclock + 1
  /\ UNCHANGED <<provider, hooks, hooksSent, sub, applied, lrow, worker, chased>>

\* What each provider's webhooks mean; another type is acknowledged and dropped.
NormalizeStripe(t) ==
  CASE t \in {"checkout.session.completed", "customer.subscription.created"} -> "Started"
    [] t \in {"invoice.paid", "invoice.payment_succeeded"} -> "Renewed"
    [] t \in {"invoice.payment_failed", "invoice.payment_action_required"} -> "PaymentFailed"
    [] t = "customer.subscription.updated, cancel_at_period_end" -> "CancelAtPeriodEnd"
    [] t \in {"customer.subscription.resumed", "customer.subscription.updated"} -> "PaymentRecovered"
    [] t = "customer.subscription.deleted" -> "PeriodEnded"
    [] t = "charge.refunded" -> "RefundReported"
    [] OTHER -> "ignored"

NormalizePaddle(t) ==
  CASE t = "subscription.created" -> "Started"
    [] t = "transaction.completed" -> "Renewed"
    [] t = "subscription.past_due" -> "PaymentFailed"
    [] t \in {"subscription.activated", "subscription.resumed"} -> "PaymentRecovered"
    [] t = "subscription.canceled" -> "PeriodEnded"
    [] t = "transaction.refunded" -> "RefundReported"
    [] OTHER -> "ignored"

NormalizeLemonsqueezy(t) ==
  CASE t = "subscription_created" -> "Started"
    [] t = "subscription_payment_success" -> "Renewed"
    [] t = "subscription_payment_failed" -> "PaymentFailed"
    [] t = "subscription_resumed" -> "PaymentRecovered"
    [] t = "subscription_cancelled" -> "CancelAtPeriodEnd"
    [] t = "subscription_expired" -> "PeriodEnded"
    [] t = "subscription_payment_refunded" -> "RefundReported"
    [] OTHER -> "ignored"

Normalize(t) ==
  CASE provider = "stripe" -> NormalizeStripe(t)
    [] provider = "paddle" -> NormalizePaddle(t)
    [] provider = "lemonsqueezy" -> NormalizeLemonsqueezy(t)

\* The route verifies, normalises and queues a webhook; its timestamp is the
\* provider's, and the queue may deliver it late and twice.
ReceiveHook(t) ==
  LET k == Normalize(t)
  IN /\ hooksSent < MaxHook /\ k # "ignored"
     /\ hooksSent' = hooksSent + 1
     /\ \E len \in IF k \in {"Started", "Renewed"} THEN Periods ELSE {0} :
          hooks' = hooks \cup {BillingEvent(k, hooksSent + 1, len, bclock)}
     /\ UNCHANGED <<provider, bclock, sub, applied, lrow, worker, chased>>

(***************************************************************************)
(* Subscription::apply                                                     *)
(***************************************************************************)
IsTerminal(state) == state \in {"expired", "perpetual_fallback"}
SettleEnding(s) == IF s.earned # Unset THEN "perpetual_fallback" ELSE "expired"

\* A stale event and an event on a terminal state change nothing; a refund
\* report is neither.
Ignored(s, e) ==
  e.kind # "RefundReported" /\ (e.ts < s.updated \/ IsTerminal(s.state))

\* A period counts the whole months it has, at least one.
PaidMonths(len) == Max({len \div Month, 1})

Renew(s, e) ==
  LET months == s.months + PaidMonths(e.len)
  IN [s EXCEPT !.pend = e.ts + e.len, !.dunning = Unset, !.months = months,
               !.state = IF s.state = "canceling" THEN "canceling" ELSE "active",
               !.earned = IF @ = Unset /\ months >= AfterMonths THEN e.ts ELSE @]

SubTransition(s, e) ==
  CASE e.kind = "Renewed" -> Renew(s, e)
    [] e.kind = "PaymentFailed" /\ s.state \in {"active", "canceling"} ->
         [s EXCEPT !.state = "past_due", !.dunning = e.ts + Dunning]
    [] e.kind = "PaymentRecovered" /\ s.state = "past_due" ->
         [s EXCEPT !.state = IF s.canceled # Unset THEN "canceling" ELSE "active", !.dunning = Unset]
    [] e.kind = "CancelAtPeriodEnd" /\ s.state \in {"active", "past_due"} ->
         [s EXCEPT !.state = "canceling", !.canceled = e.ts]
    [] e.kind = "PeriodEnded" /\ s.state \in {"canceling", "suspended"} ->
         [s EXCEPT !.state = SettleEnding(s)]
    [] e.kind = "DunningLapsed" /\ s.state = "past_due" ->
         [s EXCEPT !.state = "suspended", !.months = 0]
    [] e.kind = "RefundReported" ->
         [s EXCEPT !.dunning = Unset,
                   !.state = IF s.state = "perpetual_fallback" THEN "expired" ELSE "suspended"]
    [] OTHER -> s

ApplyEvent(s, e) ==
  IF Ignored(s, e) THEN s ELSE [SubTransition(s, e) EXCEPT !.updated = Max({@, e.ts})]

(***************************************************************************)
(* process: look the event up, read the row, write the batch.              *)
(***************************************************************************)
NeverProcessed(e) == FALSE
AlreadyProcessed(e) == e.id \in applied

\* license_update: the status every state confers, and a new expiry for a
\* renewal of a usable subscription.
LicenseStatus(state) ==
  CASE state = "suspended" -> "suspended"
    [] state = "expired" -> "expired"
    [] OTHER -> "active"

LicenseUpdate(s, e) ==
  [st |-> LicenseStatus(s.state),
   exp |-> IF e.kind = "Renewed" /\ s.state \in {"active", "past_due", "canceling"}
           THEN s.pend + Dunning ELSE lrow.exp]

\* The first two awaits of process and process_existing: a processed event is
\* acknowledged, one without a subscription is retried, another is under way.
BeginEvent(a, e) ==
  /\ worker[a].pc = "idle" /\ ~AlreadyProcessed(e)
  /\ e.kind = "Started" \/ sub # NoSub
  /\ worker' = [worker EXCEPT ![a] = [pc |-> "loaded", e |-> e, row |-> sub]]
  /\ UNCHANGED <<provider, bclock, hooks, hooksSent, sub, applied, lrow, chased>>

DeliverHook(e) == e \in hooks /\ BeginEvent("consumer", e)

DropProcessed(e) ==
  /\ e \in hooks /\ worker["consumer"].pc = "idle" /\ AlreadyProcessed(e)
  /\ hooks' = hooks \ {e}
  /\ UNCHANGED <<provider, bclock, hooksSent, sub, applied, lrow, worker, chased>>

\* The batch of process_started: a second subscription row, or an event
\* already in billing_events, fails it and the message is retried.
CommitStarted ==
  LET e == worker["consumer"].e
  IN /\ worker["consumer"].pc = "loaded" /\ e.kind = "Started"
     /\ IF sub = NoSub /\ ~AlreadyProcessed(e)
        THEN /\ sub' = [NoSub EXCEPT !.state = "active", !.pend = e.ts + e.len, !.updated = e.ts]
             /\ lrow' = [st |-> "active", exp |-> e.ts + e.len + Dunning]
             /\ applied' = applied \cup {e.id}
        ELSE UNCHANGED <<sub, lrow, applied>>
     /\ worker' = [worker EXCEPT !["consumer"] = Idling]
     /\ UNCHANGED <<provider, bclock, hooks, hooksSent, chased>>

\* The batch of process_existing: the whole row, the license, the event.
CommitExisting(a) ==
  LET e == worker[a].e
      s == ApplyEvent(worker[a].row, e)
  IN /\ worker[a].pc = "loaded" /\ e.kind # "Started"
     /\ worker' = [worker EXCEPT ![a] = Idling]
     /\ IF AlreadyProcessed(e)
        THEN UNCHANGED <<sub, lrow, applied, chased>>
        ELSE /\ sub' = [s EXCEPT !.refund = IF e.kind = "RefundReported" THEN e.ts + Review ELSE @]
             /\ lrow' = LicenseUpdate(s, e)
             /\ applied' = applied \cup {e.id}
             /\ chased' = IF e.kind = "RefundReported" THEN chased \cup {e.ts} ELSE chased
     /\ UNCHANGED <<provider, bclock, hooks, hooksSent>>

(***************************************************************************)
(* reconcile_due.  A due row becomes a system event whose id names the     *)
(* deadline, so a deadline is settled once; a refund whose review is over  *)
(* revokes the license and then closes the subscription.                   *)
(***************************************************************************)
ReviewDue == sub.refund # Unset /\ sub.refund <= bclock

ReconcileDue ==
  /\ ~ReviewDue
  /\ \/ /\ sub.state = "past_due" /\ sub.dunning # Unset /\ sub.dunning <= bclock
        /\ BeginEvent("cron", BillingEvent("DunningLapsed", -sub.dunning, 0, sub.dunning))
     \/ /\ sub.state = "canceling" /\ sub.pend <= bclock
        /\ BeginEvent("cron", BillingEvent("PeriodEnded", -sub.pend, 0, sub.pend))

RevokeRefunded ==
  /\ worker["cron"].pc = "idle" /\ ReviewDue
  /\ lrow' = [lrow EXCEPT !.st = "revoked"]
  /\ worker' = [worker EXCEPT !["cron"] = [Idling EXCEPT !.pc = "revoked", !.row = sub]]
  /\ UNCHANGED <<provider, bclock, hooks, hooksSent, sub, applied, chased>>

CloseRefunded ==
  /\ worker["cron"].pc = "revoked"
  /\ sub' = IF sub.refund = worker["cron"].row.refund
            THEN [sub EXCEPT !.state = "expired", !.earned = Unset, !.refund = Unset, !.updated = bclock]
            ELSE sub
  /\ worker' = [worker EXCEPT !["cron"] = Idling]
  /\ UNCHANGED <<provider, bclock, hooks, hooksSent, applied, lrow, chased>>

\* A projection of the LicenseDO, which billing never told of the suspension.
ProjectActive ==
  /\ Projecting /\ lrow.st \in {"suspended", "expired"}
  /\ lrow' = [lrow EXCEPT !.st = "active"]
  /\ UNCHANGED <<provider, bclock, hooks, hooksSent, sub, applied, worker, chased>>

BillingNext ==
  \/ BillingTick
  \/ \E t \in Hook : ReceiveHook(t)
  \/ \E e \in hooks : DeliverHook(e) \/ DropProcessed(e)
  \/ CommitStarted
  \/ \E a \in Actor : CommitExisting(a)
  \/ ReconcileDue \/ RevokeRefunded \/ CloseRefunded
  \/ ProjectActive

BillingSpec == BillingInit /\ [][BillingNext]_billingVars

(***************************************************************************)
(* Properties.                                                             *)
(***************************************************************************)

\* The license row confers what the subscription's state does: both are
\* written in the same batch (process_existing, process_started), so a crash
\* or a race between the consumer and the cron leaves neither behind.  Only
\* the review of a refund writes them in two steps (reconcile_due).
LicenseFollowsSubscription ==
  sub # NoSub => \/ lrow.st \in {LicenseStatus(sub.state), "revoked"}
                 \/ sub.state = "expired" /\ chased # {}

\* licensing-model.md "not_after = current_period_end + dunning_grace": while
\* the subscription is usable its license outlives the paid period by the
\* dunning window (license_update, process_started).
ExpiryCoversPeriod ==
  sub.state \in {"active", "past_due", "canceling"} => lrow.exp >= sub.pend + Dunning

\* The months of the renewals processed, each counted once.
MonthsPaid ==
  MapThenSumSet(LAMBDA i : PaidMonths(i[3]), {i \in applied : i[1] = "Renewed"})

\* A payment is counted once, however often its webhook is delivered and however
\* long its period: the streak never exceeds the months that the processed
\* renewals paid for (billing_events, paid_months).
PaidMonthsCounted == sub.months <= MonthsPaid

\* A fallback is only ever earned by after_months paid months.
FallbackNeedsMonths == sub.earned # Unset => MonthsPaid >= AfterMonths

\* The license is revoked for a refund only when one was reported and its
\* review period is over (reconcile_due).
RevokedAfterReview ==
  lrow.st = "revoked" => \E t \in chased : t + Review <= bclock

\* subscription.rs "fallback_earned_at is write-once", licensing-model.md
\* "persisted, audited, never updated again": an earned fallback is taken
\* back by the review of a refund and by nothing else.
FallbackWriteOnce ==
  [][sub.earned # Unset /\ sub'.earned # sub.earned => worker["cron"].pc = "revoked"]_billingVars

\* licensing-model.md "canceling --period_end--> ended": a canceled
\* subscription whose period is over is settled.
CancelingSettles == sub.state = "canceling" /\ sub.pend <= bclock ~> sub.state # "canceling"

\* licensing-model.md "suspended: Renewal refused": a license suspended for
\* payment is not active again before the subscription is.
SuspensionHolds ==
  [][lrow.st = "suspended" /\ lrow'.st = "active" => sub'.state # "suspended"]_billingVars

BillingFairSpec ==
  /\ BillingSpec
  /\ WF_billingVars(BillingTick)
  /\ WF_billingVars(ReconcileDue) /\ WF_billingVars(RevokeRefunded) /\ WF_billingVars(CloseRefunded)
  /\ \A a \in Actor : WF_billingVars(CommitExisting(a))

\* However events repeat, overtake each other and meet the cron, the
\* license is what its subscription says: its status and end follow it, a
\* payment counts once, a fallback needs its months and a refund its review
\* (process_existing, license_update, reconcile_due).
SubscriptionHonoured ==
  /\ LicenseFollowsSubscription
  /\ ExpiryCoversPeriod
  /\ PaidMonthsCounted
  /\ FallbackNeedsMonths
  /\ RevokedAfterReview
=============================================================================
