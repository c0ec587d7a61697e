-------------------------------- MODULE MCCore --------------------------------
(***************************************************************************)
(* The server core on small instances: its pure rules, its license record, *)
(* the simulator, and the revocation log that applies its revocation plan. *)
(* focus names the one a behaviour is about.                               *)
(***************************************************************************)
EXTENDS Decisions, CoreLicense, Simulator, MCRevocationLog

Seqs == INSTANCE SequencesExt

VARIABLE focus

pdf == <<"export", "pdf">>
csv == <<"export", "csv">>
sync == <<"sync", "cloud">>
One(f) == [k |-> "id", v |-> f]
Glob(d) == [k |-> "glob", v |-> d]

\* Group 1 may include two groups, the others one; group 9 does not exist.
GroupRows(inc) ==
  <<[id |-> 1, includes |-> inc[1], patterns |-> {One(pdf)}],
    [id |-> 2, includes |-> inc[2], patterns |-> {Glob("export")}],
    [id |-> 3, includes |-> inc[3], patterns |-> {}],
    [id |-> 4, includes |-> inc[4], patterns |-> {One(sync)}]>>
Upto(S, n) == {T \in SUBSET S : Cardinality(T) <= n}
MCCatalog(version, features, groups, tierGroups, limits) ==
  [version |-> version, features |-> features, groups |-> groups,
   tiers |-> <<[id |-> "pro", groups |-> tierGroups, patterns |-> {One(csv)}, limits |-> limits]>>]

PlainSpec == [tier |-> "pro", extra |-> {}, grants |-> <<>>, excluded |-> {}, overrides |-> <<>>, merge |-> <<>>]

GraphCatalogs ==
  {MCCatalog(1, <<pdf, csv, sync>>, GroupRows(<<i1, i2, i3, i4>>), {1}, [seats |-> 1]) :
     i1 \in Upto(1..4, 2), i2 \in Upto({1, 3, 4, 9}, 1), i3 \in Upto({2, 4}, 1), i4 \in Upto({1, 2, 3}, 1)}

NoGroups == GroupRows(<<{}, {}, {}, {}>>)
BrokenCatalogs ==
  {MCCatalog(1, <<pdf, csv, csv>>, NoGroups, {2}, <<>>),
   MCCatalog(1, <<pdf, csv>>, NoGroups, {2}, <<>>),
   MCCatalog(1, <<pdf, csv, sync>>, NoGroups, {9}, <<>>),
   MCCatalog(1, <<pdf, csv, sync>>,
             <<[id |-> 1, includes |-> {}, patterns |-> {[k |-> "malformed", v |-> "export"]}]>>, {1}, <<>>)}

Grants ==
  {[target |-> t, from |-> w[1], until |-> w[2], limits |-> l] :
     t \in {One(sync), [k |-> "group", v |-> 4], Glob("export")},
     w \in {<<0, 0>>, <<1, 2>>, <<2, 0>>}, l \in {<<>>, [seats |-> Unlimited], [seats |-> 2]}}
Whole == MCCatalog(1, <<pdf, csv, sync>>, GroupRows(<<{2}, {}, {}, {3}>>), {1}, [seats |-> 1])

LimitSpecs ==
  {[PlainSpec EXCEPT !.grants = g, !.overrides = o, !.merge = [seats |-> m]] :
     g \in Seqs!BoundedSeq({h \in Grants : h.target = One(sync)}, 2),
     o \in {<<>>, [seats |-> 3]}, m \in {"max", "sum", "override"}}
FeatureSpecs ==
  {[PlainSpec EXCEPT !.grants = <<g>>, !.extra = e, !.excluded = x] :
     g \in {h \in Grants : h.limits = <<>>}, e \in {{}, {4}, {9}}, x \in {{}, {pdf}, {csv, sync}, {<<"no", "such">>}}}

MCResolveInputs ==
  {<<GraphCatalogs, {PlainSpec}>>, <<{Whole}, LimitSpecs>>, <<{Whole}, FeatureSpecs>>,
   <<BrokenCatalogs, {PlainSpec}>>, <<{Whole}, {[PlainSpec EXCEPT !.tier = "gone"]}>>}

Versions == {<<0, 0, 1>>, <<0, 0, 2>>, <<0, 1, 0>>, <<0, 1, 2>>, <<0, 2, 0>>, <<1, 0, 0>>, <<1, 2, 1>>, <<2, 0, 0>>}
Release(id, v, at, st, act) == [id |-> id, version |-> v, at |-> at, status |-> st, action |-> act, variant |-> id]
MCScopes ==
  {[k |-> "unlimited", v |-> 0], [k |-> "released_before", v |-> 1], [k |-> "released_before", v |-> 2],
   [k |-> "pinned", v |-> {}], [k |-> "pinned", v |-> {"a"}], [k |-> "semver", v |-> {}],
   [k |-> "semver", v |-> {[op |-> ">=", b |-> <<0, 1, 0>>], [op |-> "<", b |-> <<1, 0, 0>>]}]}
    \cup {[k |-> "semver", v |-> {[op |-> op, b |-> b]}] :
            op \in {">=", "<=", ">", "<", "=", "^", "~"}, b \in {<<>>, <<0, 0, 1>>, <<0, 1, 0>>, <<1, 0, 0>>}}
MCRegistries ==
  {<<Release("a", <<0, 1, 0>>, 1, s[1], s[2]), Release("b", v, at, "active", "warn"),
     Release("c", <<>>, 3, "deprecated", "warn")>> :
     s \in {<<"active", "warn">>, <<"compromised", "warn">>, <<"compromised", "revoke">>}, v \in Versions, at \in 1..2}

MCWeights == [guid |-> 40, cpu |-> 15, disk |-> 10]
MCDevices == {[fp |-> fp, attrs |-> a] :
                fp \in {"x", "y"},
                a \in {<<>>} \cup {[guid |-> g, cpu |-> c, disk |-> d] :
                                     g \in {"g", "h"}, c \in {"c", Absent}, d \in {"d", "e"}}}

MCSignals ==
  {[kind |-> "score", fingerprints |-> f, seats |-> s, travel |-> t, churn |-> c,
    validations |-> v, expected |-> e, versions |-> w] :
     f \in {0, 1, 3, 9}, s \in {1, 2}, t \in BOOLEAN, c \in {0, 2, 3, 9}, v \in {0, 3, 4, 40},
     e \in {1, 2}, w \in {1, 3, 9}}

MCProposals ==
  {MCCatalog(v, f, GroupRows(i), t, l) :
     v \in 1..3, f \in {<<pdf, csv, sync>>, <<csv, pdf, sync>>, <<pdf, csv, sync, <<"sync", "lan">>>>},
     i \in {<<{2}, {}, {}, {3}>>, <<{2}, {1}, {}, {}>>, <<{}, {}, {}, {}>>},
     t \in {{1}, {2, 4}}, l \in {<<>>, [seats |-> 1], [seats |-> 2, rows |-> 1]}}
MCFirst == Whole

MCCoreWeights == [guid |-> 40, disk |-> 30, host |-> 30]
MCCorePolicy == [Base EXCEPT !.seats = 2, !.scope = [k |-> "released_before", v |-> 2]]
MCCoreRegistry ==
  <<Release("a", <<1, 0, 0>>, 1, "active", "warn"), Release("b", <<1, 0, 0>>, 3, "active", "warn"),
    Release("c", <<1, 0, 0>>, 1, "compromised", "revoke")>>

MCSimRegistry ==
  <<Release("r1", <<1, 0, 0>>, 0, "active", "warn"), Release("r2", <<1, 2, 0>>, 366, "active", "warn"),
    Release("r3", <<2, 0, 0>>, 800, "active", "warn"), Release("r4", <<1, 3, 0>>, 0, "compromised", "warn"),
    Release("r5", <<1, 1, 0>>, 0, "compromised", "revoke")>>
MCSimPolicies ==
  [i \in DOMAIN PresetNames |-> Preset(PresetNames[i], 0)]
    \o <<[Base EXCEPT !.validity = Subscribed(30, 7, 2, "earned_at")],
         [Base EXCEPT !.validity = Subscribed(30, 7, 2, "subscription_start")]>>

\* The parts out of focus rest in one initial state.
DecisionRest ==
  /\ cat = [version |-> 0, features |-> <<>>, groups |-> <<>>, tiers |-> <<>>]
  /\ published = [features |-> {}, limits |-> {}]
  /\ ask = NoAnswer /\ answer = NoAnswer
SimRest ==
  /\ policy = SimPolicies[1] /\ stime = 0 /\ steps = 0 /\ ssub = NoSubscription /\ sscope = policy.scope
  /\ scred = Never /\ activated = FALSE /\ foretold = Unforetold /\ srow = NoLicense(policy)

CoreRest == CoreInit /\ clic.seats = 0 /\ clic.exp = Never

MCCoreInit ==
  /\ Init
  /\ \/ focus = "rules" /\ DecisionInit /\ SimRest /\ CoreRest
     \/ focus \in {"drift", "revoke"} /\ CoreRest /\ DecisionRest /\ SimRest
     \/ focus = "clock" /\ CoreInit /\ DecisionRest /\ SimRest /\ clic.seats = 1
     \/ focus = "simulator" /\ SimInit /\ DecisionRest /\ CoreRest

MCCoreNext ==
  /\ \/ focus = "rules" /\ DecisionNext /\ UNCHANGED <<coreVars, simVars, vars>>
     \/ /\ focus = "drift" /\ (CoreSteps(CoreDevice) \/ DriftStep)
        /\ UNCHANGED <<decisionVars, simVars, vars>>
     \/ /\ focus = "clock" /\ (CoreSteps({1}) \/ CoreClock)
        /\ UNCHANGED <<decisionVars, simVars, vars>>
     \/ focus = "simulator" /\ SimNext /\ UNCHANGED <<decisionVars, coreVars, vars>>
     \/ focus = "revoke" /\ Next /\ UNCHANGED <<decisionVars, coreVars, simVars>>
  /\ UNCHANGED focus

MCCoreSpec == MCCoreInit /\ [][MCCoreNext]_<<focus, decisionVars, coreVars, simVars, vars>>
=============================================================================
