-------------------------------- MODULE Rules --------------------------------
(***************************************************************************)
(* The pure rules of copylocker-server-core, one operator per function:    *)
(* the entitlement catalog and its evolution (catalog.rs), the resolution  *)
(* of a policy against it (entitlement.rs), the release decision           *)
(* (version.rs), the pairing of a returning device with its activation     *)
(* (fingerprint_match.rs), the suspicion score (anomaly.rs) and the        *)
(* checks and terms of a policy (policy.rs).                               *)
(***************************************************************************)
EXTENDS Integers, Sequences, FiniteSets

LOCAL INSTANCE SequencesExt

CONSTANTS MaxGroupDepth, \* MAX_GROUP_DEPTH
          LimitMax       \* the largest limit, i64::MAX

ASSUME RulesAssumption == MaxGroupDepth \in Nat /\ LimitMax \in Nat

(***************************************************************************)
(* Catalog.  Features are pairs <<domain, name>>, so that the glob         *)
(* "domain.*" is a pattern with a domain; groups and tiers are rows found  *)
(* by their first match, as the code's vectors are.                        *)
(***************************************************************************)
IsPattern(p) == p.k \in {"id", "glob", "malformed"}
IsGroup(g) == \A p \in g.patterns : IsPattern(p)
IsTier(t) == (\A p \in t.patterns : IsPattern(p)) /\ \A k \in DOMAIN t.limits : t.limits[k] \in Int
IsCatalog(c) ==
  /\ c.version \in Nat
  /\ \A f \in Range(c.features) : Len(f) = 2
  /\ \A g \in Range(c.groups) : IsGroup(g)
  /\ \A t \in Range(c.tiers) : IsTier(t)

Has(list, id) == \E r \in Range(list) : r.id = id
RowOf(list, id) == SelectSeq(list, LAMBDA r : r.id = id)[1]
FeatureIds(c) == Range(c.features)
LimitKeys(c) == UNION {DOMAIN t.limits : t \in Range(c.tiers)}

\* The concrete features of a pattern, or that it names nothing.
ExpandPattern(c, p) ==
  CASE p.k = "id" -> [ok |-> p.v \in FeatureIds(c), ids |-> {p.v} \cap FeatureIds(c)]
    [] p.k = "glob" -> [ok |-> TRUE, ids |-> {f \in FeatureIds(c) : f[1] = p.v}]
    [] p.k = "malformed" -> [ok |-> FALSE, ids |-> {}]

Unique(ids) == \A i, j \in DOMAIN ids : ids[i] = ids[j] => i = j

RECURSIVE WalkUnbounded(_, _, _, _)
WalkUnbounded(c, id, path, depth) ==
  /\ id \notin path /\ Has(c.groups, id)
  /\ \A inc \in RowOf(c.groups, id).includes : WalkUnbounded(c, inc, path \cup {id}, depth + 1)

RECURSIVE WalkGroup(_, _, _, _)
WalkGroup(c, id, path, depth) ==
  /\ id \notin path /\ depth <= MaxGroupDepth /\ Has(c.groups, id)
  /\ \A inc \in RowOf(c.groups, id).includes : WalkGroup(c, inc, path \cup {id}, depth + 1)

References(c) ==
  /\ \A g \in Range(c.groups) :
       /\ \A inc \in g.includes : Has(c.groups, inc)
       /\ \A p \in g.patterns : ExpandPattern(c, p).ok
  /\ \A t \in Range(c.tiers) :
       /\ \A g \in t.groups : Has(c.groups, g)
       /\ \A p \in t.patterns : ExpandPattern(c, p).ok

CatalogValid(c) ==
  /\ Unique(c.features)
  /\ Unique([i \in DOMAIN c.groups |-> c.groups[i].id])
  /\ Unique([i \in DOMAIN c.tiers |-> c.tiers[i].id])
  /\ References(c)
  /\ \A g \in Range(c.groups) : WalkGroup(c, g.id, {}, 0)

Evolves(old, new) ==
  /\ CatalogValid(new)
  /\ new.version > old.version
  /\ FeatureIds(old) \subseteq FeatureIds(new)
  /\ LimitKeys(old) \subseteq LimitKeys(new)

(***************************************************************************)
(* resolve: tier, extra groups, active grants, exclusions, overrides.      *)
(***************************************************************************)
Unlimited == -1

\* A grant opens at from and ends before until, 0 for no bound.
IsGrant(g) == g.target.k \in {"id", "glob", "group"} /\ g.from \in Nat /\ g.until \in Nat
IsSpec(s) ==
  /\ \A g \in Range(s.grants) : IsGrant(g)
  /\ \A k \in DOMAIN s.merge : s.merge[k] \in {"max", "sum", "override"}

GrantActiveAtEnd(g, now) == (g.from = 0 \/ now >= g.from) /\ (g.until = 0 \/ now <= g.until)
GrantActive(g, now) == (g.from = 0 \/ now >= g.from) /\ (g.until = 0 \/ now < g.until)

RECURSIVE CollectGroup(_, _, _)
CollectGroup(c, id, depth) ==
  IF depth > MaxGroupDepth \/ ~Has(c.groups, id) THEN [ok |-> FALSE, ids |-> {}]
  ELSE LET g == RowOf(c.groups, id)
           parts == {CollectGroup(c, inc, depth + 1) : inc \in g.includes}
                      \cup {ExpandPattern(c, p) : p \in g.patterns}
       IN [ok |-> \A p \in parts : p.ok, ids |-> UNION {p.ids : p \in parts}]

PolicyFor(s, k) == IF k \in DOMAIN s.merge THEN s.merge[k] ELSE "max"

\* One limit of two sources; unlimited dominates a maximum and a sum.
Merged(cur, new, policy) ==
  CASE policy = "override" -> new
    [] Unlimited \in {cur, new} -> Unlimited
    [] policy = "max" -> Max({cur, new})
    [] policy = "sum" -> Min({cur + new, LimitMax})

MergeLimits(limits, more, s) ==
  [k \in DOMAIN limits \cup DOMAIN more |->
     IF k \notin DOMAIN more THEN limits[k]
     ELSE IF k \notin DOMAIN limits THEN more[k]
     ELSE Merged(limits[k], more[k], PolicyFor(s, k))]

GrantFeatures(c, g) ==
  IF g.target.k = "group" THEN CollectGroup(c, g.target.v, 0) ELSE ExpandPattern(c, g.target)

Resolve(c, s, now) ==
  LET t == RowOf(c.tiers, s.tier)
      active == SelectSeq(s.grants, LAMBDA g : GrantActive(g, now))
      parts == {CollectGroup(c, g, 0) : g \in t.groups} \cup {ExpandPattern(c, p) : p \in t.patterns}
                 \cup {CollectGroup(c, g, 0) : g \in s.extra}
                 \cup {GrantFeatures(c, g) : g \in Range(active)}
      granted == FoldLeft(LAMBDA l, g : MergeLimits(l, g.limits, s), t.limits, active)
  IN IF \/ ~CatalogValid(c) \/ ~Has(c.tiers, s.tier)
        \/ \E p \in parts : ~p.ok
        \/ ~(s.excluded \subseteq FeatureIds(c))
     THEN [ok |-> FALSE, features |-> {}, limits |-> <<>>, version |-> c.version]
     ELSE [ok |-> TRUE, features |-> UNION {p.ids : p \in parts} \ s.excluded,
           limits |-> MergeLimits(granted, s.overrides, s), version |-> c.version]

(***************************************************************************)
(* Releases.  A version is <<major, minor, patch>>, or <<>> for text that  *)
(* does not parse; a range is a set of terms, empty for "*".               *)
(***************************************************************************)
IsRelease(r) ==
  /\ r.version = <<>> \/ r.version \in Seq(Nat)
  /\ r.status \in {"active", "deprecated", "compromised"}
  /\ r.action \in {"warn", "force_upgrade", "revoke"}

AtLeast(v, b) ==
  \/ v[1] > b[1]
  \/ v[1] = b[1] /\ (v[2] > b[2] \/ (v[2] = b[2] /\ v[3] >= b[3]))

Caret(v, b) ==
  CASE b[1] > 0 -> v[1] = b[1] /\ AtLeast(v, b)
    [] b[1] = 0 /\ b[2] > 0 -> v[1] = 0 /\ v[2] = b[2] /\ AtLeast(v, b)
    [] OTHER -> v = b

MatchTerm(v, t) ==
  t.b # <<>> /\ CASE t.op = ">=" -> AtLeast(v, t.b)
                  [] t.op = "<=" -> AtLeast(t.b, v)
                  [] t.op = ">" -> ~AtLeast(t.b, v)
                  [] t.op = "<" -> ~AtLeast(v, t.b)
                  [] t.op = "=" -> v = t.b
                  [] t.op = "^" -> Caret(v, t.b)
                  [] t.op = "~" -> v[1] = t.b[1] /\ v[2] = t.b[2] /\ AtLeast(v, t.b)

SemverMatches(v, range) == v # <<>> /\ \A t \in range : MatchTerm(v, t)

Satisfies(r, scope) ==
  CASE scope.k = "unlimited" -> TRUE
    [] scope.k = "released_before" -> r.at <= scope.v
    [] scope.k = "pinned" -> r.id \in scope.v
    [] scope.k = "semver" -> SemverMatches(r.version, scope.v)

\* max_by_key keeps the last of several releases published at once.
HighestAllowed(registry, scope) ==
  LET fit == SelectSeq(registry, LAMBDA r : Satisfies(r, scope))
      top == {i \in DOMAIN fit : \A j \in DOMAIN fit : fit[j].at <= fit[i].at}
  IN IF fit = <<>> THEN "none" ELSE fit[Max(top)].id

Decide(registry, scope, id) ==
  IF ~Has(registry, id) THEN [d |-> "not_registered", v |-> "none"]
  ELSE LET r == RowOf(registry, id)
       IN CASE r.status = "compromised" -> [d |-> "compromised", v |-> r.action]
            [] r.status # "compromised" /\ Satisfies(r, scope) -> [d |-> "in_scope", v |-> r.variant]
            [] OTHER -> [d |-> "out_of_scope", v |-> HighestAllowed(registry, scope)]

(***************************************************************************)
(* Device matching.  A device reports a digest and, where the policy lets  *)
(* it, the weighted attributes; Absent is an attribute it does not have.   *)
(***************************************************************************)
Absent == "absent"
Exact == 255

Similarity(a, b, weights) ==
  LET present == {k \in DOMAIN weights : a[k] # Absent \/ b[k] # Absent}
      total == SumFunctionOnSet(weights, present)
      same == SumFunctionOnSet(weights, {k \in present : a[k] = b[k]})
  IN IF total = 0 THEN 0 ELSE (same * 100) \div total

\* MatchOutcome: the rank, and whether the activation is taken over.
MatchDevice(stored, incoming, q) ==
  CASE stored.fp = incoming.fp -> [rank |-> Exact, reuses |-> TRUE]
    [] stored.fp # incoming.fp /\ (stored.attrs = <<>> \/ incoming.attrs = <<>>) -> [rank |-> 0, reuses |-> FALSE]
    [] OTHER -> LET score == Similarity(stored.attrs, incoming.attrs, q.weights)
                IN [rank |-> score, reuses |-> score >= q.tolerance]

BestMatch(q) ==
  LET outcome(i) == MatchDevice(q.stored[i], q.incoming, q)
      best == {i \in DOMAIN q.stored : \A j \in DOMAIN q.stored : outcome(j).rank <= outcome(i).rank}
  IN IF q.stored = <<>> THEN [at |-> 0, reuses |-> FALSE]
     ELSE [at |-> Min(best), reuses |-> outcome(Min(best)).reuses]

(***************************************************************************)
(* The suspicion score.                                                    *)
(***************************************************************************)
Ramp(observed, threshold, weight) ==
  IF observed <= threshold THEN 0 ELSE Min({((observed - threshold) * weight) \div threshold, weight})

IsSignals(s) == {s.fingerprints, s.seats, s.churn, s.validations, s.expected, s.versions} \subseteq Nat

Stepped(n, step, weight) == Min({Max({n - 2, 0}) * step, weight})

Contributions(s) ==
  <<Ramp(s.fingerprints, Max({s.seats, 1}), 40),
    IF s.travel THEN 25 ELSE 0,
    Stepped(s.churn, 5, 15),
    Ramp(s.validations, 3 * Max({s.expected, 1}), 10),
    Stepped(s.versions, 3, 10)>>

Score(s) == Min({FoldLeft(LAMBDA a, b : a + b, 0, Contributions(s)), 100})

(***************************************************************************)
(* Policies, in days.  A validity is a record with its kind; Never is the  *)
(* expiry of a perpetual one.                                              *)
(***************************************************************************)
Never == -1
Perpetual == [k |-> "perpetual"]
FixedTerm(d) == [k |-> "fixed_term", days |-> d]
Trial(d) == [k |-> "trial", days |-> d]
Subscribed(period, dunning, months, at) ==
  [k |-> "subscription", period |-> period, dunning |-> dunning, months |-> months, scopeAt |-> at]
NoFallback == 0

IsPolicy(p) ==
  /\ p.validity.k \in {"perpetual", "fixed_term", "trial", "subscription"}
  /\ p.scope.k \in {"unlimited", "released_before", "pinned", "semver"}
  /\ {p.seats, p.tolerance, p.refresh, p.grace} \subseteq Nat
  /\ {p.online, p.heartbeat, p.olk, p.unbound} \subseteq BOOLEAN

PolicyValid(p) ==
  /\ p.seats # 0 /\ p.tolerance <= 100 /\ p.refresh > 0
  /\ p.unbound => p.olk
  /\ p.validity.k \in {"fixed_term", "trial"} => p.validity.days > 0
  /\ p.validity.k = "subscription" => p.validity.period > 0
  /\ p.validity.k = "trial" => p.seats = 1

SlowRefresh(p) == p.validity.k = "subscription" /\ p.refresh > p.validity.period \div 4

Warnings(p) ==
  {w \in {"long_exposure_window", "refresh_slower_than_billing", "perpetual_requires_forever_server",
          "unbound_olk_copyable", "no_grace_in_offline_mode", "zero_fingerprint_tolerance"} :
     CASE w = "long_exposure_window" -> p.refresh + p.grace > 90
       [] w = "refresh_slower_than_billing" -> SlowRefresh(p)
       [] w = "perpetual_requires_forever_server" -> p.validity.k = "perpetual" /\ p.online
       [] w = "unbound_olk_copyable" -> p.unbound
       [] w = "no_grace_in_offline_mode" -> p.grace = 0 /\ ~p.online
       [] w = "zero_fingerprint_tolerance" -> p.tolerance = 100}

ExpiresAt(p, start) ==
  CASE p.validity.k = "perpetual" -> Never
    [] p.validity.k \in {"fixed_term", "trial"} -> start + p.validity.days
    [] p.validity.k = "subscription" -> start + p.validity.period + p.validity.dunning

\* The built-in policies; saas-client's hours are rounded up to a day.
Base == [validity |-> Perpetual, scope |-> [k |-> "unlimited", v |-> 0], seats |-> 1, online |-> FALSE,
         heartbeat |-> FALSE, refresh |-> 7, grace |-> 14, tolerance |-> 70, olk |-> FALSE, unbound |-> FALSE]
Paced(p, refresh, grace) == [p EXCEPT !.refresh = refresh, !.grace = grace]

Preset(name, now) ==
  CASE name = "trial-14d" -> Paced([Base EXCEPT !.validity = Trial(14)], 1, 3)
    [] name = "perpetual" -> Base
    [] name = "perpetual-major" ->
         [Base EXCEPT !.scope = [k |-> "semver", v |-> {[op |-> "^", b |-> <<1, 0, 0>>]}]]
    [] name = "perpetual-fallback" -> [Base EXCEPT !.scope = [k |-> "released_before", v |-> now + 365]]
    [] name = "sub-monthly" -> Paced([Base EXCEPT !.validity = Subscribed(30, 7, NoFallback, "none")], 7, 7)
    [] name = "sub-annual" -> Paced([Base EXCEPT !.validity = Subscribed(365, 14, NoFallback, "none")], 30, 14)
    [] name = "sub-annual-fallback" ->
         Paced([Base EXCEPT !.validity = Subscribed(365, 14, 12, "earned_at")], 30, 14)
    [] name = "team-sub" ->
         Paced([Base EXCEPT !.validity = Subscribed(365, 14, NoFallback, "none"), !.seats = 25,
                            !.heartbeat = TRUE], 30, 14)
    [] name = "enterprise-airgap" ->
         Paced([Base EXCEPT !.validity = FixedTerm(365), !.scope = [k |-> "pinned", v |-> {}], !.seats = 50,
                            !.olk = TRUE], 180, 30)
    [] name = "saas-client" ->
         Paced([Base EXCEPT !.validity = Subscribed(30, 7, NoFallback, "none"), !.seats = 3, !.online = TRUE,
                            !.heartbeat = TRUE], 1, 1)
    [] name = "edu-1y" -> Paced([Base EXCEPT !.validity = FixedTerm(365)], 30, 14)

PresetNames ==
  <<"trial-14d", "perpetual", "perpetual-major", "perpetual-fallback", "sub-monthly", "sub-annual",
   "sub-annual-fallback", "team-sub", "enterprise-airgap", "saas-client", "edu-1y">>
=============================================================================
