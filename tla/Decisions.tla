------------------------------ MODULE Decisions ------------------------------
(***************************************************************************)
(* The rules of copylocker-server-core as operations.  Each question is    *)
(* asked once (ask) and answered by the algorithm of the code (answer);    *)
(* the properties compare the answers with what the questions define.      *)
(* Only the published catalog is state.                                    *)
(***************************************************************************)
EXTENDS Rules

LOCAL INSTANCE SequencesExt

CONSTANTS Proposals,     \* catalogs an operator may publish
          FirstCatalog,
          ResolveInputs, \* pairs of a set of catalogs and a set of policies
          Registries, Scopes, Devices, Tolerances, Weights, Signals,
          Refreshes, Graces  \* days, tried on every preset

ASSUME DecisionAssumption ==
  /\ \A c \in Proposals \cup {FirstCatalog} : IsCatalog(c)
  /\ \A q \in ResolveInputs : (\A c \in q[1] : IsCatalog(c)) /\ \A s \in q[2] : IsSpec(s)
  /\ \A registry \in Registries : \A r \in Range(registry) : IsRelease(r)
  /\ \A s \in Signals : IsSignals(s)
  /\ \A i \in DOMAIN PresetNames : IsPolicy(Preset(PresetNames[i], 0)) /\ PolicyValid(Preset(PresetNames[i], 0))

VARIABLES cat,       \* the published catalog
          published, \* history: every feature and every limit key ever published
          ask,       \* the question
          answer     \* its answer, NoAnswer before

decisionVars == <<cat, published, ask, answer>>

NoAnswer == [kind |-> "none"]

(***************************************************************************)
(* Operations.                                                             *)
(***************************************************************************)
DecisionInit ==
  /\ cat = FirstCatalog
  /\ published = [features |-> FeatureIds(FirstCatalog), limits |-> LimitKeys(FirstCatalog)]
  /\ \/ ask = [kind |-> "evolve"]
     \/ \E q \in ResolveInputs : \E c \in q[1], s \in q[2], n \in 0..2 :
          ask = [kind |-> "resolve", c |-> c, s |-> s, now |-> n]
     \/ \E r \in Registries, sc \in Scopes : \E id \in {x.id : x \in Range(r)} \cup {"unknown"} :
          ask = [kind |-> "decide", registry |-> r, scope |-> sc, id |-> id]
     \/ \E a, b, i \in Devices, t \in Tolerances, n \in {0, 2} :
          ask = [kind |-> "match", stored |-> SubSeq(<<a, b>>, 1, n), incoming |-> i, tolerance |-> t,
                 weights |-> Weights]
     \/ \E s \in Signals : ask = s
     \/ \E i \in DOMAIN PresetNames, rf \in Refreshes, g \in Graces :
          ask = [kind |-> "policy", p |-> Paced(Preset(PresetNames[i], 0), rf, g)]
  /\ answer = NoAnswer

\* validate_evolution accepts the proposal, or refuses it and changes nothing.
Publish(c) ==
  /\ ask.kind = "evolve"
  /\ IF Evolves(cat, c)
     THEN /\ cat' = c
          /\ published' = [features |-> published.features \cup FeatureIds(c),
                           limits |-> published.limits \cup LimitKeys(c)]
     ELSE UNCHANGED <<cat, published>>
  /\ UNCHANGED <<ask, answer>>

AnswerWith(kind, value) ==
  /\ ask.kind = kind /\ answer = NoAnswer
  /\ answer' = [kind |-> kind, v |-> value]
  /\ UNCHANGED <<cat, published, ask>>

ResolveAsked == ask.kind = "resolve" /\ AnswerWith("resolve", Resolve(ask.c, ask.s, ask.now))
DecideAsked == ask.kind = "decide" /\ AnswerWith("decide", Decide(ask.registry, ask.scope, ask.id))
MatchAsked == ask.kind = "match" /\ AnswerWith("match", BestMatch(ask))
PolicyAsked ==
  /\ ask.kind = "policy"
  /\ AnswerWith("policy", [valid |-> PolicyValid(ask.p), warnings |-> Warnings(ask.p), end |-> ExpiresAt(ask.p, 0)])
ScoreAsked == ask.kind = "score" /\ AnswerWith("score", Score(ask))

DecisionNext ==
  \/ \E c \in Proposals : Publish(c)
  \/ ResolveAsked \/ DecideAsked \/ MatchAsked \/ ScoreAsked \/ PolicyAsked

DecisionSpec == DecisionInit /\ [][DecisionNext]_decisionVars

(***************************************************************************)
(* Properties.                                                             *)
(***************************************************************************)

\* The include graph can be layered: every group above those it includes.
Layered(c) ==
  LET ids == {g.id : g \in Range(c.groups)}
  IN \E h \in [ids -> 0..MaxGroupDepth] :
       \A g \in Range(c.groups) : \A inc \in g.includes : inc \in ids /\ h[inc] < h[g.id]

\* Catalog::validate, a depth-first walk, accepts exactly the include graphs
\* whose groups can be layered: every group above those it includes, in at
\* most MAX_GROUP_DEPTH steps from the top.
ValidIsLayered ==
  answer.kind = "resolve" /\ References(ask.c) => (CatalogValid(ask.c) <=> Layered(ask.c))

\* The groups within four includes, as many as an instance has.
Reachable(c, from) ==
  LET succ(S) == S \cup UNION {g.includes : g \in {h \in Range(c.groups) : h.id \in S}}
  IN succ(succ(succ(succ(from))))

\* What resolve grants: the features of the groups reachable from the tier,
\* the extra groups and the grants in force, and nothing the policy excludes,
\* whatever the order of the rows.
ResolvedIsClosure ==
  answer.kind = "resolve" /\ answer.v.ok =>
    LET c == ask.c
        s == ask.s
        t == RowOf(c.tiers, s.tier)
        inForce == {g \in Range(s.grants) : ~(g.from > ask.now) /\ (g.until = 0 \/ g.until > ask.now)}
        groups == Reachable(c, t.groups \cup s.extra
                                 \cup {g.target.v : g \in {h \in inForce : h.target.k = "group"}})
        patterns == t.patterns \cup UNION {g.patterns : g \in {h \in Range(c.groups) : h.id \in groups}}
                      \cup {g.target : g \in {h \in inForce : h.target.k # "group"}}
    IN answer.v.features =
         {f \in Range(c.features) : /\ \E p \in patterns : p.v = IF p.k = "id" THEN f ELSE f[1]
                                    /\ f \notin s.excluded}

Floor(v, limit) == limit = Unlimited \/ (v # Unlimited /\ v <= limit)

\* entitlement.rs "an add-on should never shrink a quota": under the merge
\* policies max and sum every source of a limit is a floor of the resolved
\* one, unlimited above all.
AddOnNeverShrinks ==
  answer.kind = "resolve" /\ answer.v.ok =>
    LET sources == {RowOf(ask.c.tiers, ask.s.tier).limits, ask.s.overrides}
                     \cup {g.limits : g \in {h \in Range(ask.s.grants) : GrantActive(h, ask.now)}}
    IN \A k \in DOMAIN answer.v.limits :
         PolicyFor(ask.s, k) # "override" =>
           \A l \in {m \in sources : k \in DOMAIN m} : Floor(l[k], answer.v.limits[k])

NextBreaking(b) ==
  CASE b[1] > 0 -> <<b[1] + 1, 0, 0>>
    [] b[1] = 0 /\ b[2] > 0 -> <<0, b[2] + 1, 0>>
    [] OTHER -> <<0, 0, b[3] + 1>>

\* A caret range is the half-open interval up to the next version that may
\* break: the first non-zero component of its base, increased (match_term).
CaretIsInterval ==
  answer.kind = "decide" /\ ask.scope.k = "semver" =>
    \A t \in ask.scope.v, r \in Range(ask.registry) :
      ask.scope.v = {t} /\ t.op = "^" /\ t.b # <<>> /\ r.id = ask.id /\ r.version # <<>>
        /\ r.status # "compromised" =>
        (answer.v.d = "in_scope" <=> AtLeast(r.version, t.b) /\ ~AtLeast(r.version, NextBreaking(t.b)))

\* The release an out-of-scope answer offers instead is the newest the
\* license covers (VersionDecision::OutOfScope), and there is none only when
\* the license covers no registered release.
OfferedIsNewest ==
  answer.kind = "decide" /\ answer.v.d = "out_of_scope" =>
    LET covered == {r \in Range(ask.registry) : Satisfies(r, ask.scope)}
    IN IF covered = {} THEN answer.v.v = "none"
       ELSE /\ answer.v.v \in {r.id : r \in covered}
            /\ \A r \in covered : r.at <= RowOf(ask.registry, answer.v.v).at

\* A device that comes back unchanged is paired with its own activation, and
\* one within the tolerance of some activation never costs a new seat
\* (best_match).  With tolerance 0 an activation that stored no attributes
\* can hide one that did.
BestMatchKeepsSeat ==
  answer.kind = "match" =>
    LET stored(i) == ask.stored[i]
        near(i) == /\ stored(i).attrs # <<>> /\ ask.incoming.attrs # <<>>
                   /\ Similarity(stored(i).attrs, ask.incoming.attrs, ask.weights) >= ask.tolerance
    IN /\ (\E i \in DOMAIN ask.stored : stored(i).fp = ask.incoming.fp)
            => answer.v.reuses /\ stored(answer.v.at).fp = ask.incoming.fp
       /\ (ask.tolerance > 0 /\ \E i \in DOMAIN ask.stored : near(i)) => answer.v.reuses

\* A license used as sold scores nothing, and a single signal, however
\* extreme, never adds more than its share: the fingerprints' 40 at most, below
\* the alert threshold of 70 (anomaly.rs "per-signal weights, summing to 100").
ScoreIsShared ==
  answer.kind = "score" =>
    LET raised == {i \in 1..5 : <<ask.fingerprints > ask.seats, ask.travel, ask.churn > 2,
                                 ask.validations > 3 * ask.expected, ask.versions > 2>>[i]}
    IN /\ answer.v \in 0..100
       /\ Cardinality(raised) = 0 => answer.v = 0
       /\ Cardinality(raised) <= 1 => answer.v <= 40

\* A valid policy has a term, and one that raises no warning is checked often
\* enough for it: four refreshes fit in a billing period, and a device without
\* contact stops within ninety days (policy.rs, validate and warnings).
NoWarningNoSurprise ==
  answer.kind = "policy" /\ answer.v.valid =>
    /\ answer.v.end = Never \/ answer.v.end > 0
    /\ answer.v.warnings = {} =>
         /\ ask.p.validity.k = "subscription" => 4 * ask.p.refresh <= ask.p.validity.period
         /\ ask.p.refresh + ask.p.grace <= 90 /\ (ask.p.grace > 0 \/ ask.p.online)

\* error.rs "Highest release the license does cover, for the 'you can use
\* this' message": the release offered instead of one out of scope runs.
OfferedRuns ==
  answer.kind = "decide" /\ answer.v.d = "out_of_scope" /\ answer.v.v # "none" =>
    Decide(ask.registry, ask.scope, answer.v.v).d = "in_scope"

\* entitlement.rs "Explicit overrides, applied last so an operator can always
\* win": a limit the policy overrides has the override's value.
OverrideWins ==
  answer.kind = "resolve" /\ answer.v.ok =>
    \A k \in DOMAIN ask.s.overrides : answer.v.limits[k] = ask.s.overrides[k]

(***************************************************************************)
(* Properties.                                                             *)
(***************************************************************************)
\* Identifiers are inputs of key derivation: a feature or limit key that was
\* ever published is in every later catalog, through any sequence of
\* evolutions, accepted and refused (Catalog::validate_evolution).
PublishedStays ==
  published.features \subseteq FeatureIds(cat) /\ published.limits \subseteq LimitKeys(cat)

\* Each rule of the server core gives the answer of its reference
\* definition on every question of the bounded sets, and no sequence of
\* evolutions loses an identifier (catalog, entitlement, version, scope,
\* fingerprint_match, score, policy).
RulesMatchReference ==
  /\ ValidIsLayered
  /\ ResolvedIsClosure
  /\ AddOnNeverShrinks
  /\ CaretIsInterval
  /\ OfferedIsNewest
  /\ BestMatchKeepsSeat
  /\ ScoreIsShared
  /\ NoWarningNoSurprise
  /\ PublishedStays
=============================================================================
