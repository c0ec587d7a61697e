--------------------------- MODULE Authorization ---------------------------
(***************************************************************************)
(* What a license server answers a device with.  /v1/activate and          *)
(* /v1/validate (router.rs) build an AuthorizationContext from separate D1 *)
(* reads of the license, its policy, the release registry and the asset    *)
(* keys (bindings/authorization.rs), ask the LicenseDO, and sign a         *)
(* credential, a ticket or a kill order.  Administrators change any of     *)
(* these rows between two reads, a handler may die, and the device repeats *)
(* its request.  Resolution of entitlements and version scopes is in       *)
(* Rules, the LicenseDO in LicenseDO, signing and attempts that overlap in *)
(* Issuance.                                                               *)
(***************************************************************************)
EXTENDS Integers, FiniteSets, Sequences

CONSTANTS
  ZRelease,       \* releases 1..n in order of publication
  ZFeature,       \* features with an asset key
  ZMaxChange,     \* bound: changes by administrators
  ZMaxFloor,      \* bound: security floor
  ZMaxRequest     \* bound: requests of the device

ASSUME ZAssumption == ZRelease \subseteq Nat \ {0} /\ ZMaxChange \in Nat /\ ZMaxRequest \in Nat

VARIABLES
  licenseRow,     \* D1 licenses
  policyRow,      \* D1 policies
  catalog,        \* D1 catalog_versions: the features of each version
  registry,       \* D1 releases
  kekRow,         \* D1 release_feature_keks: key version, 0 without a row
  floorLog,       \* greatest floor of security_floor_log
  object,         \* the LicenseDO: status, expiry, floor, seats, reservations
  flight,         \* the request being handled
  artifact,       \* the last signed answer
  edits, requests \* counters under the bounds

authorizationVars == <<licenseRow, policyRow, catalog, registry, kekRow, floorLog, object, flight,
                       artifact, edits, requests>>
rows == <<licenseRow, policyRow, catalog, registry, kekRow, floorLog>>

Pinned == 1                               \* licenses.catalog_version
Now == 1                                  \* the second at which requests read the clock
Forever == 9                              \* TimeWindow::UNLIMITED
Expiry == {1, 2, Forever}
Withdrawn(r) == registry[r].st = "compromised" /\ registry[r].action # "warn"

NoKeys == [v \in {} |-> {}]
(* reserved and signed remember what held while the seat was reserved and  *)
(* while the answer was put together.                                      *)
NoArtifact == [kind |-> "none", features |-> {}, keys |-> {}, preloaded |-> NoKeys,
               floor |-> 0, verdict |-> "none", end |-> 0, reserved |-> 0, signed |-> 0]

(* A row of the LicenseDO's idem table, and its seats: one device, a new   *)
(* machine id for every new seat.                                          *)
ReserveRow(machine, floor, end, reserved) ==
  [machine |-> machine, floor |-> floor, end |-> end, reserved |-> reserved, envelope |-> NoArtifact]
NoRow == ReserveRow(0, 0, 0, 0)
Occupied == {m \in DOMAIN object.seats : object.seats[m] \in {"pending", "active"}}

NoContext == [license |-> licenseRow, policy |-> policyRow, features |-> {}, release |-> 0, verdict |-> "none",
              kill |-> FALSE, keys |-> {}, floor |-> 0, row |-> NoRow]
NoFlight == [pc |-> "idle", purpose |-> "none", key |-> FALSE, release |-> 0, idem |-> 0,
             began |-> 0, replayed |-> FALSE, context |-> 0, siblings |-> {}, preloaded |-> NoKeys]

-----------------------------------------------------------------------------
(* A request arrives *)

(* What held when the request arrived, and what has held since. *)
Began == [floor |-> floorLog, dead |-> object.status = "revoked",
          withdrawn |-> {r \in ZRelease : Withdrawn(r)},
          retired |-> {r \in ZRelease : registry[r].st \in {"deprecated", "compromised"}},
          licenses |-> {licenseRow}, policies |-> {policyRow}]

(* Activations carry an Idempotency-Key: i is new, or the device repeats   *)
(* the request it first sent with i.                                       *)
Arrive(purpose, key, r, i) ==
  /\ flight.pc = "idle" /\ Len(requests) < ZMaxRequest
  /\ i # 0 => \A n \in DOMAIN requests : requests[n].idem = i => requests[n] = [idem |-> i, key |-> key, release |-> r]
  /\ requests' = Append(requests, [idem |-> i, key |-> key, release |-> r])
  /\ flight' = [NoFlight EXCEPT !.pc = "license", !.purpose = purpose, !.key = key, !.idem = i,
                                !.release = r, !.began = Began, !.context = NoContext]
  /\ artifact' = NoArtifact
  /\ UNCHANGED <<rows, object, edits>>

Move(pc, context) == flight' = [flight EXCEPT !.pc = pc, !.context = context]
Reject == flight' = NoFlight
Local == UNCHANGED <<rows, object, edits, requests>>

-----------------------------------------------------------------------------
(* load_context: four reads, one after the other *)

ReadLicense ==
  /\ flight.pc = "license"
  /\ Move("policy", [flight.context EXCEPT !.license = licenseRow])
  /\ UNCHANGED artifact /\ Local

(* The license's own entitlement and version scope, if it has them,        *)
(* replace the policy's.                                                   *)
Effective(policy, license) ==
  [policy EXCEPT !.entitlement = IF license.own = {} THEN @ ELSE CHOOSE e \in license.own : TRUE,
                 !.newest = IF license.scope = {} THEN @ ELSE CHOOSE r \in license.scope : TRUE]

ReadPolicy ==
  /\ flight.pc = "policy"
  /\ Move("catalog", [flight.context EXCEPT !.policy = Effective(policyRow, flight.context.license)])
  /\ UNCHANGED artifact /\ Local

LatestCatalog(version) == catalog[Len(catalog)]
(* load_catalog: the snapshot of the version the license was issued with. *)
CatalogOf(version) == catalog[version]

(* resolve: a pattern takes what it matches in the catalog; a feature that *)
(* is named must be in it.                                                 *)
Granted(e, features) == e.ids \cup (IF e.glob THEN features ELSE {})

ReadCatalog ==
  LET c == flight.context
      features == CatalogOf(Pinned)
  IN /\ flight.pc = "catalog"
     /\ IF c.policy.entitlement.ids \subseteq features
        THEN Move("registry", [c EXCEPT !.features = Granted(c.policy.entitlement, features)])
        ELSE Reject
     /\ UNCHANGED artifact /\ Local

(* decide, with the answer each purpose gets *)
InScope(r, policy) == r <= policy.newest

ReleaseDecision(r, purpose, policy) ==
  LET row == registry[r]
  IN CASE row.st = "none" -> [release |-> 0, verdict |-> "rejected", kill |-> FALSE]
       [] row.st = "compromised" /\ row.action = "warn" ->
            [release |-> r, verdict |-> "ok", kill |-> FALSE]
       [] row.st = "compromised" /\ row.action # "warn" /\ purpose = "validate" ->
            [release |-> 0, verdict |-> "needs_reactivation", kill |-> row.action = "revoke"]
       [] row.st = "compromised" /\ row.action # "warn" /\ purpose = "activate" ->
            [release |-> 0, verdict |-> "rejected", kill |-> FALSE]
       [] row.st # "compromised" /\ InScope(r, policy) ->
            [release |-> r, verdict |-> "ok", kill |-> FALSE]
       [] OTHER -> [release |-> 0, kill |-> FALSE,
                    verdict |-> IF purpose = "activate" THEN "rejected" ELSE "out_of_scope"]

ReadRegistry ==
  LET c == flight.context
      d == ReleaseDecision(flight.release, flight.purpose, c.policy)
  IN /\ flight.pc = "registry"
     /\ IF d.verdict = "rejected" THEN Reject
        ELSE Move("keks", [c EXCEPT !.release = d.release, !.verdict = d.verdict, !.kill = d.kill])
     /\ UNCHANGED artifact /\ Local

Registered(r) == {[release |-> r, feature |-> f, version |-> kekRow[r][f]] :
                    f \in {g \in ZFeature : kekRow[r][g] # 0}}

(* authorize_activation's checks on the loaded context *)
MayActivate(c) ==
  /\ c.license.status = "active"
  /\ Now < c.license.expires
  /\ ~(c.policy.enforced /\ flight.key)

(* load_release_material *)
ReadKeks ==
  LET c == [flight.context EXCEPT
              !.keys = IF flight.context.release = 0 THEN {} ELSE Registered(flight.context.release)]
  IN /\ flight.pc = "keks"
     /\ IF flight.purpose = "activate" /\ ~MayActivate(c) THEN Reject ELSE Move("floor", c)
     /\ UNCHANGED artifact /\ Local

ReadFloor ==
  /\ flight.pc = "floor"
  /\ Move(IF flight.purpose = "activate" THEN "init" ELSE "object",
          [flight.context EXCEPT !.floor = floorLog])
  /\ UNCHANGED artifact /\ Local

-----------------------------------------------------------------------------
(* The LicenseDO's part: /init and /reserve, or /validate *)

(* /init writes the expiry the handler read, and leaves a status alone. *)
InitObject ==
  /\ flight.pc = "init"
  /\ object' = [object EXCEPT !.expires = flight.context.license.expires]
  /\ flight' = [flight EXCEPT !.pc = "object"]
  /\ UNCHANGED <<rows, artifact, edits, requests>>

RaisedFloor(floor) == IF floor > object.floor THEN floor ELSE object.floor
ObjectActive == object.status = "active" /\ Now < object.expires

(* AuthorizationContext::not_after *)
NotAfter(policy, license) == IF policy < license THEN policy ELSE license

(* /reserve answers a repeated request with its stored row, floor and end  *)
(* included, if that row holds an envelope or its seat is still taken.     *)
Replayable(row) == row.envelope.kind # "none" \/ row.machine \in Occupied

(* Otherwise the device's active seat is used again, or a new one taken; a *)
(* seat another request is completing refuses.                             *)
FreshRow(c) ==
  ReserveRow(IF Occupied = {} THEN Len(object.seats) + 1 ELSE CHOOSE m \in Occupied : TRUE,
             RaisedFloor(c.floor), NotAfter(c.policy.term, c.license.expires),
             [floor |-> flight.began.floor, licenses |-> flight.began.licenses])

ReserveSeat ==
  LET c == flight.context
      i == flight.idem
      replay == Replayable(object.rows[i])
      row == IF replay THEN object.rows[i] ELSE FreshRow(c)
      raised == [object EXCEPT !.floor = RaisedFloor(c.floor)]
      refused == ~replay /\ \E m \in Occupied : object.seats[m] = "pending"
  IN /\ flight.pc = "object" /\ flight.purpose = "activate"
     /\ object' = IF ~ObjectActive THEN object
                  ELSE IF refused THEN [raised EXCEPT !.rows[i] = NoRow]
                  ELSE [raised EXCEPT !.rows[i] = row,
                          !.seats = IF row.machine \in DOMAIN @ THEN @ ELSE Append(@, "pending")]
     /\ IF ~ObjectActive \/ refused THEN Reject
        ELSE flight' = [flight EXCEPT !.replayed = replay,
               !.pc = IF row.envelope.kind # "none" THEN "answered"
                      ELSE IF c.policy.preload > 0 THEN "list" ELSE "sign",
               !.context = [c EXCEPT !.floor = row.floor, !.row = row]]
     /\ artifact' = IF ObjectActive THEN row.envelope ELSE artifact
     /\ UNCHANGED <<rows, edits, requests>>

(* The LicenseDO's kill reason, or else the withdrawn release's. *)
ObjectKills(machine) == object.status = "revoked" \/ object.seats[machine] = "gone"
Killed(c, machine) == ObjectKills(machine) \/ c.kill

(* /validate of the machine the device holds a credential for *)
ValidateMachine ==
  LET c == flight.context
      raised == RaisedFloor(c.floor)
      machine == Len(object.seats)
  IN /\ flight.pc = "object" /\ flight.purpose = "validate" /\ machine > 0
     /\ object' = [object EXCEPT !.floor = raised]
     /\ IF ~ObjectKills(machine) /\ ~ObjectActive THEN Reject
        ELSE Move("sign", [c EXCEPT !.floor = raised, !.kill = Killed(c, machine)])
     /\ UNCHANGED <<rows, artifact, edits, requests>>

AskObject == ReserveSeat \/ ValidateMachine

-----------------------------------------------------------------------------
(* preload_offline_keks: the newest siblings, then the keys of each *)

NewestSiblings(current, n) ==
  LET all == {r \in ZRelease : registry[r].st = "active" /\ r # current}
  IN {r \in all : Cardinality({s \in all : s > r}) < n}

ListSiblings ==
  /\ flight.pc = "list"
  /\ flight' = [flight EXCEPT !.pc = "preload",
       !.siblings = NewestSiblings(flight.context.release, flight.context.policy.preload)]
  /\ UNCHANGED artifact /\ Local

EntitledKeys(keys, features) == {k \in keys : k.feature \in features}

(* One sibling, newest first; a later one of the same variant replaces the *)
(* entry of an earlier one.                                                *)
PreloadOne ==
  LET r == CHOOSE x \in flight.siblings : \A y \in flight.siblings : x >= y
      v == registry[r].variant
      wrapped == EntitledKeys(Registered(r), flight.context.features)
      skip == v = registry[flight.context.release].variant \/ wrapped = {}
  IN /\ flight.pc = "preload" /\ flight.siblings # {}
     /\ flight' = [flight EXCEPT
          !.siblings = @ \ {r},
          !.preloaded = IF skip THEN @
                        ELSE [w \in DOMAIN @ \cup {v} |-> IF w = v THEN wrapped ELSE @[w]]]
     /\ UNCHANGED artifact /\ Local

PreloadDone ==
  /\ flight.pc = "preload" /\ flight.siblings = {}
  /\ flight' = [flight EXCEPT !.pc = "sign"]
  /\ UNCHANGED artifact /\ Local

-----------------------------------------------------------------------------
(* The artifact *)

Ticket(c) ==
  [kind |-> "ticket", features |-> c.features, keys |-> EntitledKeys(c.keys, c.features),
   preloaded |-> NoKeys, floor |-> c.floor, verdict |-> c.verdict,
   end |-> NotAfter(c.policy.term, c.license.expires), reserved |-> flight.began,
   signed |-> flight.began]

(* A credential takes its floor and end from the reservation, the rest     *)
(* from the context of the request at hand.                                *)
MachineCredential(c) ==
  [Ticket(c) EXCEPT !.kind = "credential", !.preloaded = flight.preloaded, !.floor = c.row.floor,
                    !.end = c.row.end, !.reserved = c.row.reserved]

SignArtifact ==
  LET c == flight.context
  IN /\ flight.pc = "sign"
     /\ artifact' = IF c.kill THEN [NoArtifact EXCEPT !.kind = "kill"]
                    ELSE IF flight.purpose = "validate" THEN Ticket(c) ELSE MachineCredential(c)
     /\ flight' = [flight EXCEPT !.pc = IF flight.purpose = "activate" THEN "complete" ELSE "answered"]
     /\ Local

(* /complete stores the envelope in the reservation's row. *)
CompleteReservation ==
  LET m == flight.context.row.machine
  IN /\ flight.pc = "complete"
     /\ IF m \in Occupied
        THEN /\ object' = [object EXCEPT !.rows[flight.idem].envelope = artifact, !.seats[m] = "active"]
             /\ flight' = [flight EXCEPT !.pc = "answered"]
             /\ UNCHANGED artifact
        ELSE Reject /\ artifact' = NoArtifact /\ UNCHANGED object
     /\ UNCHANGED <<rows, edits, requests>>

(* The handler dies.  Before /reserve it leaves nothing behind but the     *)
(* expiry it sent to /init.                                                *)
HandlerDies ==
  /\ flight.pc \in {"object", "list", "preload", "sign", "complete"}
  /\ flight' = NoFlight
  /\ artifact' = NoArtifact
  /\ Local

Deliver ==
  /\ flight.pc = "answered"
  /\ flight' = NoFlight
  /\ artifact' = NoArtifact
  /\ Local

-----------------------------------------------------------------------------
(* Administrators and the LicenseDO change rows at any time *)

Edit == edits < ZMaxChange /\ edits' = edits + 1
Waiting == flight.pc # "idle"
HeldToo(policy, license) ==
  flight' = IF Waiting THEN [flight EXCEPT !.began.policies = @ \cup {policy},
                                           !.began.licenses = @ \cup {license}]
            ELSE flight

PatchPolicy(p) ==
  /\ Edit
  /\ p # policyRow
  /\ policyRow' = p
  /\ HeldToo(p, licenseRow)
  /\ UNCHANGED <<licenseRow, catalog, registry, kekRow, floorLog, object, artifact, requests>>

Entitlement == {[glob |-> TRUE, ids |-> {}]} \cup {[glob |-> FALSE, ids |-> g] : g \in SUBSET ZFeature}

PolicyEdits ==
  {[policyRow EXCEPT !.entitlement = e] : e \in Entitlement}
    \cup {[policyRow EXCEPT !.enforced = ~@]}
    \cup {[policyRow EXCEPT !.newest = r] : r \in ZRelease}
    \cup {[policyRow EXCEPT !.preload = n] : n \in 0..1}
    \cup {[policyRow EXCEPT !.term = t] : t \in {2, Forever}}

(* A new catalog version with one more feature. *)
PublishCatalog(f) ==
  /\ Edit
  /\ f \notin catalog[Len(catalog)]
  /\ catalog' = Append(catalog, catalog[Len(catalog)] \cup {f})
  /\ UNCHANGED <<licenseRow, policyRow, registry, kekRow, floorLog, object, flight, artifact,
                 requests>>

(* PATCH /v1/licenses: the row first, the LicenseDO in a later call. *)
PatchLicense(l) ==
  /\ Edit
  /\ licenseRow.status # "revoked"
  /\ l # licenseRow
  /\ licenseRow' = l
  /\ HeldToo(policyRow, licenseRow')
  /\ UNCHANGED <<policyRow, catalog, registry, kekRow, floorLog, object, artifact, requests>>

LicenseEdits ==
  {[licenseRow EXCEPT !.status = s, !.expires = x] : s \in {"active", "suspended"}, x \in Expiry}
    \cup {[licenseRow EXCEPT !.own = {[glob |-> FALSE, ids |-> {f}]}] : f \in ZFeature}
    \cup {[licenseRow EXCEPT !.scope = {1}]}
    \cup {[licenseRow EXCEPT !.own = {}, !.scope = {}]}

SyncObject ==
  /\ object.status # "revoked" /\ licenseRow.status # "revoked"
  /\ object' = [object EXCEPT !.status = licenseRow.status, !.expires = licenseRow.expires]
  /\ object' # object
  /\ UNCHANGED <<rows, flight, artifact, edits, requests>>

(* A revocation: the LicenseDO first, the row when its projection arrives. *)
RevokeObject ==
  /\ Edit
  /\ object.status # "revoked"
  /\ object' = [object EXCEPT !.status = "revoked"]
  /\ UNCHANGED <<rows, flight, artifact, requests>>

(* The device deactivates, an administrator revokes the machine, or the    *)
(* alarm releases the seat.                                                *)
FreeSeat(m) ==
  /\ Edit
  /\ m \in Occupied
  /\ object' = [object EXCEPT !.seats[m] = "gone"]
  /\ UNCHANGED <<rows, flight, artifact, requests>>

ProjectRow ==
  /\ object.status = "revoked" /\ licenseRow.status # "revoked"
  /\ licenseRow' = [licenseRow EXCEPT !.status = "revoked"]
  /\ HeldToo(policyRow, licenseRow')
  /\ UNCHANGED <<policyRow, catalog, registry, kekRow, floorLog, object, artifact, edits, requests>>

(* Registration, deprecation and compromise, the last with or without a new floor. *)
TransitionRelease(r, st, action, bump) ==
  /\ Edit
  /\ <<registry[r].st, st>> \in {<<"none", "active">>, <<"active", "deprecated">>, <<"active", "compromised">>,
                                 <<"deprecated", "compromised">>}
  /\ registry' = [registry EXCEPT ![r].st = st, ![r].action = action]
  /\ bump => st = "compromised" /\ floorLog < ZMaxFloor
  /\ floorLog' = IF bump THEN floorLog + 1 ELSE floorLog
  /\ UNCHANGED <<licenseRow, policyRow, catalog, kekRow, object, flight, artifact, requests>>

ReplaceKek(r, f, version) ==
  /\ Edit
  /\ version \in {0, kekRow[r][f] + 1} /\ version # kekRow[r][f] /\ version <= 2
  /\ kekRow' = [kekRow EXCEPT ![r][f] = version]
  /\ UNCHANGED <<licenseRow, policyRow, catalog, registry, floorLog, object, flight, artifact, requests>>

-----------------------------------------------------------------------------
AuthorizationInit ==
  /\ licenseRow = [status |-> "active", expires |-> Forever, own |-> {}, scope |-> {}]
  /\ policyRow = [entitlement |-> [glob |-> TRUE, ids |-> {}], enforced |-> FALSE, newest |-> 2, preload |-> 2,
                  term |-> Forever]
  /\ \E shared \in BOOLEAN :      \* releases after the first share a variant, or none do
       registry = [r \in ZRelease |-> [st |-> IF r = 3 /\ ~shared THEN "none" ELSE "active",
                                       action |-> "warn",
                                       variant |-> IF shared /\ r > 1 THEN 2 ELSE r]]
  /\ kekRow = [r \in ZRelease |-> [f \in ZFeature |-> 1]]
  /\ catalog = <<{CHOOSE f \in ZFeature : TRUE}>>
  /\ floorLog = 0
  /\ \E seats \in {<<>>, <<"active">>} :
       object = [status |-> "active", expires |-> Forever, floor |-> 0, seats |-> seats,
                 rows |-> [i \in 1..ZMaxRequest |-> NoRow]]
  /\ flight = NoFlight
  /\ artifact = NoArtifact
  /\ edits = 0 /\ requests = <<>>

Handle ==
  \/ \E r \in ZRelease : object.seats # <<>> /\ Arrive("validate", FALSE, r, 0)
  \/ \E key \in BOOLEAN, r \in ZRelease, i \in 1..ZMaxRequest : Arrive("activate", key, r, i)
  \/ ReadLicense \/ ReadPolicy \/ ReadCatalog \/ ReadRegistry \/ ReadKeks \/ ReadFloor
  \/ InitObject \/ AskObject
  \/ ListSiblings \/ PreloadOne \/ PreloadDone
  \/ SignArtifact \/ CompleteReservation \/ Deliver

PolicyChanges == \E p \in PolicyEdits : PatchPolicy(p)
CatalogChanges == \E f \in ZFeature : PublishCatalog(f)
LicenseChanges == \E l \in LicenseEdits : PatchLicense(l)
ObjectChanges == RevokeObject \/ \E m \in DOMAIN object.seats : FreeSeat(m)
ReleaseChanges ==
  \/ \E r \in ZRelease, action \in {"warn", "force", "revoke"}, bump \in BOOLEAN :
       TransitionRelease(r, "compromised", action, bump)
  \/ \E r \in ZRelease, st \in {"active", "deprecated"} : TransitionRelease(r, st, "warn", FALSE)
KekChanges == \E r \in ZRelease, f \in ZFeature, version \in 0..2 : ReplaceKek(r, f, version)

Administer == \/ PolicyChanges \/ CatalogChanges \/ LicenseChanges
              \/ ObjectChanges \/ ReleaseChanges \/ KekChanges

(* What follows a change on its own *)
Follow == SyncObject \/ ProjectRow

AuthorizationNext == Handle \/ HandlerDies \/ Administer \/ Follow
AuthorizationSpec == AuthorizationInit /\ [][AuthorizationNext]_authorizationVars

-----------------------------------------------------------------------------
(* Properties of every signed answer, whatever changes while it is built *)

ArtifactSigned == flight.pc = "answered"
Handed == artifact.keys \cup UNION {artifact.preloaded[v] : v \in DOMAIN artifact.preloaded}

(* wrap_release_keks and wrap_online_keks hand out keys only for features  *)
(* the same artifact entitles, and all were entitled while it was signed,  *)
(* by the policy or by the license's own entitlement.                      *)
KeysEntitled ==
  ArtifactSigned => \A k \in Handed :
    /\ k.feature \in artifact.features
    /\ \E p \in artifact.signed.policies, l \in artifact.signed.licenses :
         k.feature \in Granted(Effective(p, l).entitlement, catalog[Pinned])

(* A feature added to the catalog after the license was issued is neither  *)
(* entitled nor unlocked, even by a policy whose patterns match it:        *)
(* load_context resolves against the version the license is pinned to.    *)
PinnedFeatures ==
  ArtifactSigned => artifact.features \cup {k.feature : k \in Handed} \subseteq catalog[Pinned]

(* A release withdrawn before the request arrived (compromised, with       *)
(* force_upgrade or revoke) gets no key, not even by the replay of an      *)
(* activation signed before; no release that was deprecated or compromised *)
(* before the signing request arrived is preloaded.                        *)
WithdrawnGetsNoKeys ==
  ArtifactSigned => /\ \A k \in artifact.keys : k.release \notin flight.began.withdrawn
            /\ \A v \in DOMAIN artifact.preloaded : \A k \in artifact.preloaded[v] :
                 k.release \notin artifact.signed.retired

(* A license the LicenseDO had revoked before the request arrived is never *)
(* answered with a credential or a ticket, stored or new, although the D1  *)
(* row the handler reads may still say active.                             *)
RevokedGetsKill == ArtifactSigned /\ flight.began.dead => artifact.kind = "kill"

(* A kill order has a cause that lasts: the LicenseDO revoked the license, *)
(* the machine's seat is gone, or its release is compromised with revoke.  *)
KillHasCause ==
  (ArtifactSigned /\ artifact.kind = "kill")
     => \/ ObjectKills(Len(object.seats))
        \/ registry[flight.release].st = "compromised" /\ registry[flight.release].action = "revoke"

(* Every ticket and every new credential carries at least the security     *)
(* floor that was in the log when its request arrived.  A replay carries   *)
(* that of the request that made the reservation, and only a repeat of     *)
(* that request is replayed.                                               *)
FloorIsCurrent ==
  (ArtifactSigned /\ artifact.kind # "kill")
     => /\ artifact.floor >= artifact.reserved.floor
        /\ ~flight.replayed => artifact.floor >= flight.began.floor

(* No ticket or credential outlives every expiry the license row had while *)
(* it was built, for a credential while its seat was reserved              *)
(* (AuthorizationContext::not_after), and no credential, stored or new, is *)
(* handed out on a license that was out of time throughout the request.    *)
EndsWithLicense ==
  (ArtifactSigned /\ artifact.kind # "kill")
     => /\ \E l \in artifact.reserved.licenses : artifact.end <= l.expires
        /\ artifact.kind = "credential" => \E l \in flight.began.licenses : Now < l.expires

(* A license key alone never activates a policy that was enforced-online   *)
(* for the whole request, not even by a replay.                            *)
EnforcedNeedsAccount ==
  (ArtifactSigned /\ artifact.kind = "credential" /\ flight.key)
     => \E p \in flight.began.policies : ~p.enforced

(* For every preloaded variant the keys are those of its newest sibling,   *)
(* "so a device that upgrades while offline can still open the new build's *)
(* assets".  Only an administrator's change in the meantime excuses.       *)
PreloadIsNewest ==
  (ArtifactSigned /\ edits = 0) => \A v \in DOMAIN artifact.preloaded : \A k \in artifact.preloaded[v] :
    \A r \in ZRelease : (registry[r].st = "active" /\ registry[r].variant = v
                          /\ r # flight.release) => r <= k.release

(* However administrators change the rows between its reads, a request     *)
(* signs nothing that no state of them during the request warrants: keys,  *)
(* features, end, floor, kill and account are each those of a moment it    *)
(* has seen, or for a repeated activation of a moment the request it       *)
(* repeats has seen (authorize_activation, issue_activation, validate).    *)
GrantsWarranted ==
  /\ KeysEntitled
  /\ PinnedFeatures
  /\ WithdrawnGetsNoKeys
  /\ RevokedGetsKill
  /\ KillHasCause
  /\ FloorIsCurrent
  /\ EndsWithLicense
  /\ EnforcedNeedsAccount
=============================================================================
