------------------------------ MODULE MCServer ------------------------------
(***************************************************************************)
(* The D1 components of the Worker, checked together: focus picks one of   *)
(* them, or one group of its operations, and the others stand still.       *)
(***************************************************************************)
EXTENDS LicenseRecord, Billing, ProductRegistry

CONSTANT Focus

VARIABLE focus

serverVars == <<focus, recordVars, billingVars, registryVars>>

StripeHooks == {"customer.subscription.created", "invoice.paid", "invoice.payment_failed",
                "customer.subscription.updated", "customer.subscription.updated, cancel_at_period_end",
                "customer.subscription.deleted", "charge.refunded"}
PaddleHooks == {"subscription.created", "transaction.completed", "subscription.past_due",
                "subscription.activated", "subscription.canceled", "transaction.refunded"}
LemonHooks == {"subscription_payment_success", "subscription_payment_failed", "subscription_resumed",
               "subscription_cancelled", "subscription_expired", "subscription_payment_refunded"}
AllHooks == StripeHooks \cup PaddleHooks \cup LemonHooks

\* The operations of the registry that a focus asks for.
KindsOf ==
  [catalog  |-> {"catalog", "policy", "issue"},
   releases |-> {"release", "deprecate", "compromise"},
   keys     |-> {"release", "kek", "kek_delete", "key_register", "key_revoke", "sign"}]

ServerInit ==
  /\ focus \in Focus
  /\ RecordInit /\ BillingInit /\ RegistryInit
  /\ focus # "billing" => provider = "stripe" /\ \A e \in hooks : e.len = 1
  /\ focus # "releases" => ~policy.stable
  /\ items[CHOOSE f \in Feature : TRUE] = 1

\* Keys are interchangeable: a request that needs a new one takes the least.
InUse(k) == journalRow[k] # NoRegistryReq \/ \E h \in Handler : hnd[h].req.key = k
UsableKeys == {k \in ReqKey : \A j \in ReqKey : j < k => InUse(j)}

\* The first renewal earns a fallback, and every other webhook comes after it.
FallbackEarnedFirst ==
  /\ sub = NoSub => hooksSent' = 0 /\ bclock' = 0
  /\ \A e \in hooks' : e.id[2] = 1 => e.kind = "Renewed" /\ PaidMonths(e.len) = AfterMonths
  /\ hooksSent = 1 /\ hooksSent' = 2 => sub.earned # Unset

ServerNext ==
  /\ UNCHANGED focus
  /\ \/ /\ focus = "patch" /\ RecordNext
        /\ \A o \in Erasure : req'[o].pc = "idle"
        /\ \A e \in events' : e.kind = "projection"
        /\ UNCHANGED <<billingVars, registryVars>>
     \/ /\ focus = "erase" /\ RecordNext
        /\ Cardinality({o \in Patch : req'[o].pc # "idle"}) <= 1
        /\ UNCHANGED <<billingVars, registryVars>>
     \/ /\ focus = "billing" /\ BillingNext
        /\ hooksSent' <= 2
        /\ UNCHANGED <<recordVars, registryVars>>
     \/ /\ focus = "fallback" /\ BillingNext /\ FallbackEarnedFirst
        /\ UNCHANGED <<recordVars, registryVars>>
     \/ /\ focus \in DOMAIN KindsOf
        /\ \E h \in Handler : RegistryStep(h, KindsOf[focus], UsableKeys)
        /\ UNCHANGED <<recordVars, billingVars>>

ServerSpec == ServerInit /\ [][ServerNext]_serverVars
=============================================================================
