--------------------------- MODULE ProductRegistry ---------------------------
(***************************************************************************)
(* The Admin resources of one product that live in D1 alone: the feature   *)
(* catalog with its immutable snapshots, a policy, the release registry    *)
(* with its variants and the security floor, the asset keys, the manifest  *)
(* signing key and the batches of licenses issued                          *)
(* (admin_resources.rs and admin_resources/).  Every handler reads D1, with *)
(* awaits between its reads, and then commits one batch that holds the      *)
(* journal row (unique per Idempotency-Key), the new entity version where   *)
(* the resource has one, and the business rows: the batch is applied whole  *)
(* or not at all.  Handlers of concurrent requests interleave.              *)
(***************************************************************************)
EXTENDS Integers, Sequences, FiniteSets

LOCAL INSTANCE FiniteSetsExt

CONSTANTS Handler,   \* requests being served at a time
          ReqKey,    \* Idempotency-Keys, numbers from 1
          Feature,   \* catalog features
          Build      \* build fingerprints

VARIABLES journalRow,  \* admin_operations: key -> the request committed under it
          items,       \* features rows: 0 absent, else the revision
          catalogs,    \* catalog_versions: the snapshot of each version
          policy,      \* the policies row: features it grants, variant_stable
          policyVer,   \* newest admin_entity_versions of the policy
          releases,    \* releases rows by build fingerprint
          registryVer, \* newest admin_entity_versions of the release registry
          floor,       \* newest security_floor_log entry
          keks,        \* release_feature_keks rows
          signer,      \* integrity_signer_keys row of the configured key
          issued,      \* licenses rows by the key of their batch: catalog_version, the
                       \* entitlement_override, and (history) the policy version read
          hnd          \* each handler: its request and what it has read

registryVars == <<journalRow, items, catalogs, policy, policyVer, releases, registryVer, floor,
                  keks, signer, issued, hnd>>
catalogVars == <<items, catalogs>>
policyVars == <<policy, policyVer>>
releaseVars == <<releases, registryVer, floor>>
otherVars == <<keks, signer, issued>>

NoFeature == [f \in Feature |-> 0]
NoRelease == [st |-> "none", variant |-> 0, seed |-> "none"]
NoRegistryReq == [kind |-> "none", key |-> 0, f |-> "none", b |-> "none", flag |-> FALSE]
NoIssue == [cat |-> 0, own |-> {}, pol |-> 0]
Resting == [pc |-> "idle", req |-> NoRegistryReq, ver |-> 0, cat |-> <<>>, row |-> "none", variant |-> 0, pol |-> 0]

\* A product whose catalog has one feature and whose policy was created, with
\* or without variant_stable.
RegistryInit ==
  /\ journalRow = [k \in ReqKey |-> NoRegistryReq]
  /\ \E f \in Feature, stable \in BOOLEAN :
       /\ items = [NoFeature EXCEPT ![f] = 1]
       /\ policy = [grants |-> {f}, stable |-> stable]
  /\ catalogs = <<items>> /\ policyVer = 1
  /\ releases = [b \in Build |-> NoRelease] /\ registryVer = 0 /\ floor = 0
  /\ keks = {} /\ signer = "none" /\ issued = [k \in ReqKey |-> NoIssue]
  /\ hnd = [h \in Handler |-> Resting]

(***************************************************************************)
(* The common frame of the handlers.                                       *)
(***************************************************************************)
\* read_json, require_idempotency_key and replay_operation: a key already in
\* the journal is answered from it (or refused, for another request).
Accept(h, r, pc) ==
  /\ hnd[h].pc = "idle"
  /\ journalRow[r.key] = NoRegistryReq
  /\ hnd' = [hnd EXCEPT ![h] = [Resting EXCEPT !.pc = pc, !.req = r]]

\* What the handler reads at an await, and where it stands after it.
Reads(h, from, r) == hnd[h].pc = from /\ hnd' = [hnd EXCEPT ![h] = r]

\* A check that fails ends the request with a 4xx and no effect.
Refuse(h, from) == Reads(h, from, Resting)

\* The batch: the journal row is unique, so a second request with the same key
\* is answered from the journal; lock is what else the batch inserts uniquely.
KeyIsFree(h) == journalRow[hnd[h].req.key] = NoRegistryReq

Batch(h, kind, lock) ==
  /\ hnd[h].pc = "ready" /\ hnd[h].req.kind = kind
  /\ KeyIsFree(h) /\ lock
  /\ journalRow' = [journalRow EXCEPT ![hnd[h].req.key] = hnd[h].req]
  /\ hnd' = [hnd EXCEPT ![h] = Resting]

\* The batch fails: the caller gets the stored answer of its key, or 409.
Rejected(h, lock) == /\ hnd[h].pc = "ready" /\ ~(KeyIsFree(h) /\ lock)
                     /\ Refuse(h, "ready")
                     /\ UNCHANGED <<journalRow, catalogVars, policyVars, releaseVars, otherVars>>

(***************************************************************************)
(* The catalog: mutate_catalog.                                            *)
(***************************************************************************)
MutateCatalog(h, k, f) ==
  /\ Accept(h, [NoRegistryReq EXCEPT !.kind = "catalog", !.key = k, !.f = f], "load")
  /\ UNCHANGED <<journalRow, catalogVars, policyVars, releaseVars, otherVars>>

LoadCatalog(h) ==
  /\ hnd[h].req.kind = "catalog"
  /\ Reads(h, "load", [hnd[h] EXCEPT !.pc = "ready", !.ver = Len(catalogs), !.cat = catalogs[Len(catalogs)]])
  /\ UNCHANGED <<journalRow, catalogVars, policyVars, releaseVars, otherVars>>

\* Variant: two mutations may write the same version.
CatalogUnlocked(h) == TRUE

\* catalog_versions(product_id, version) is unique.
CatalogUnchanged(h) == hnd[h].ver = Len(catalogs)

CommitCatalog(h) ==
  LET f == hnd[h].req.f
  IN /\ Batch(h, "catalog", CatalogUnchanged(h))
     /\ items' = [items EXCEPT ![f] = @ + 1]
     /\ catalogs' = Append(catalogs, [hnd[h].cat EXCEPT ![f] = @ + 1])
     /\ UNCHANGED <<policyVars, releaseVars, otherVars>>

(***************************************************************************)
(* The policy: mutate_policy.  Its entitlement must resolve against the    *)
(* current catalog; the version is read after the row.                     *)
(***************************************************************************)
MutatePolicy(h, k, f, stable) ==
  /\ Accept(h, [NoRegistryReq EXCEPT !.kind = "policy", !.key = k, !.f = f, !.flag = stable], "load")
  /\ UNCHANGED <<journalRow, catalogVars, policyVars, releaseVars, otherVars>>

Resolves(grants, cat) == \A f \in grants : cat[f] > 0

LoadPolicy(h) ==
  /\ hnd[h].req.kind = "policy"
  /\ IF Resolves({hnd[h].req.f}, catalogs[Len(catalogs)])
     THEN Reads(h, "load", [hnd[h] EXCEPT !.pc = "ready", !.ver = policyVer])
     ELSE Refuse(h, "load")
  /\ UNCHANGED <<journalRow, catalogVars, policyVars, releaseVars, otherVars>>

CommitPolicy(h) ==
  /\ Batch(h, "policy", hnd[h].ver = policyVer)
  /\ policyVer' = policyVer + 1
  /\ policy' = [grants |-> {hnd[h].req.f}, stable |-> hnd[h].req.flag]
  /\ UNCHANGED <<catalogVars, releaseVars, otherVars>>

(***************************************************************************)
(* Releases: register, deprecate, mark_compromised.  The registry version  *)
(* is read BEFORE any release state and inserted with the batch.           *)
(***************************************************************************)
RegisterRelease(h, k, b) ==
  /\ Accept(h, [NoRegistryReq EXCEPT !.kind = "release", !.key = k, !.b = b], "version")
  /\ UNCHANGED <<journalRow, catalogVars, policyVars, releaseVars, otherVars>>

TransitionRelease(h, k, kind, b, bump) ==
  /\ kind \in {"deprecate", "compromise"} /\ (bump => kind = "compromise")
  /\ Accept(h, [NoRegistryReq EXCEPT !.kind = kind, !.key = k, !.b = b, !.flag = bump], "version")
  /\ UNCHANGED <<journalRow, catalogVars, policyVars, releaseVars, otherVars>>

RegistryVersion(h) ==
  /\ Reads(h, "version", [hnd[h] EXCEPT !.pc = "load", !.ver = registryVer])
  /\ UNCHANGED <<journalRow, catalogVars, policyVars, releaseVars, otherVars>>

Registered == {b \in Build : releases[b].st # "none"}
ActiveBuilds == {b \in Build : releases[b].st = "active"}
NextVariantId == Max({0} \cup {releases[b].variant : b \in Build}) + 1

\* A known build is answered as already registered.  A variant_stable product
\* reuses the variant of an active release; any other build gets its own seed
\* and the next variant id.
LoadRegister(h) ==
  LET b == hnd[h].req.b
  IN /\ hnd[h].req.kind = "release"
     /\ IF b \in Registered THEN Refuse(h, "load")
        ELSE IF policy.stable /\ ActiveBuilds # {}
        THEN \E s \in ActiveBuilds :
               Reads(h, "load", [hnd[h] EXCEPT !.pc = "ready", !.row = releases[s].seed,
                                               !.variant = releases[s].variant])
        ELSE Reads(h, "load", [hnd[h] EXCEPT !.pc = "ready", !.row = b, !.variant = NextVariantId])
     /\ UNCHANGED <<journalRow, catalogVars, policyVars, releaseVars, otherVars>>

RegistryUnchanged(h) == hnd[h].ver = registryVer

CommitRegister(h) ==
  /\ Batch(h, "release", RegistryUnchanged(h) /\ hnd[h].req.b \notin Registered)
  /\ registryVer' = registryVer + 1
  /\ releases' = [releases EXCEPT ![hnd[h].req.b] =
                    [st |-> "active", variant |-> hnd[h].variant, seed |-> hnd[h].row]]
  /\ UNCHANGED <<catalogVars, policyVars, floor, otherVars>>

\* transition_context and the state checks of deprecate and mark_compromised.
LoadTransition(h) ==
  LET st == releases[hnd[h].req.b].st
  IN /\ hnd[h].req.kind \in {"deprecate", "compromise"}
     /\ IF st \in (IF hnd[h].req.kind = "deprecate" THEN {"active"} ELSE {"active", "deprecated"})
        THEN Reads(h, "load", [hnd[h] EXCEPT !.pc = "ready", !.variant = floor])
        ELSE Refuse(h, "load")
     /\ UNCHANGED <<journalRow, catalogVars, policyVars, releaseVars, otherVars>>

CommitDeprecate(h) ==
  /\ Batch(h, "deprecate", RegistryUnchanged(h))
  /\ registryVer' = registryVer + 1
  /\ releases' = [releases EXCEPT ![hnd[h].req.b].st = IF @ = "active" THEN "deprecated" ELSE @]
  /\ UNCHANGED <<catalogVars, policyVars, floor, otherVars>>

CommitCompromise(h) ==
  /\ Batch(h, "compromise", RegistryUnchanged(h))
  /\ registryVer' = registryVer + 1
  /\ releases' = [releases EXCEPT ![hnd[h].req.b].st = "compromised"]
  /\ floor' = IF hnd[h].req.flag THEN hnd[h].variant + 1 ELSE floor
  /\ UNCHANGED <<catalogVars, policyVars, otherVars>>

(***************************************************************************)
(* Asset keys: register and delete.  There is no version: the primary key  *)
(* alone keeps two registrations apart.                                    *)
(***************************************************************************)
KekRequest(h, k, kind, b, f) ==
  /\ kind \in {"kek", "kek_delete"}
  /\ Accept(h, [NoRegistryReq EXCEPT !.kind = kind, !.key = k, !.b = b, !.f = f], "load")
  /\ UNCHANGED <<journalRow, catalogVars, policyVars, releaseVars, otherVars>>

LoadKek(h) ==
  LET r == hnd[h].req
  IN /\ r.kind \in {"kek", "kek_delete"}
     /\ IF (r.kind = "kek" /\ r.b \in Registered /\ items[r.f] > 0 /\ <<r.b, r.f>> \notin keks)
           \/ (r.kind = "kek_delete" /\ <<r.b, r.f>> \in keks)
        THEN Reads(h, "load", [hnd[h] EXCEPT !.pc = "ready"])
        ELSE Refuse(h, "load")
     /\ UNCHANGED <<journalRow, catalogVars, policyVars, releaseVars, otherVars>>

CommitKek(h) ==
  LET pair == <<hnd[h].req.b, hnd[h].req.f>>
  IN /\ Batch(h, "kek", pair \notin keks)
     /\ keks' = keks \cup {pair}
     /\ UNCHANGED <<catalogVars, policyVars, releaseVars, signer, issued>>

CommitKekDelete(h) ==
  /\ Batch(h, "kek_delete", TRUE)
  /\ keks' = keks \ {<<hnd[h].req.b, hnd[h].req.f>>}
  /\ UNCHANGED <<catalogVars, policyVars, releaseVars, signer, issued>>

(***************************************************************************)
(* The manifest signing key: register, revoke, sign.  A signature is       *)
(* journaled under a key derived from the manifest.                        *)
(***************************************************************************)
SignerRequest(h, k, kind) ==
  /\ kind \in {"key_register", "key_revoke", "sign"}
  /\ Accept(h, [NoRegistryReq EXCEPT !.kind = kind, !.key = k], "load")
  /\ UNCHANGED <<journalRow, catalogVars, policyVars, releaseVars, otherVars>>

LoadSigner(h) ==
  LET kind == hnd[h].req.kind
  IN /\ kind \in {"key_register", "key_revoke", "sign"}
     /\ IF signer = (IF kind = "key_register" THEN "none" ELSE "active")
        THEN Reads(h, "load", [hnd[h] EXCEPT !.pc = "ready"])
        ELSE Refuse(h, "load")
     /\ UNCHANGED <<journalRow, catalogVars, policyVars, releaseVars, otherVars>>

CommitSigner(h) ==
  LET kind == hnd[h].req.kind
  IN /\ kind \in {"key_register", "key_revoke", "sign"}
     /\ Batch(h, kind, kind = "key_register" => signer = "none")
     /\ signer' = CASE kind = "key_register" -> "active" [] kind = "key_revoke" -> "revoked"
                    [] OTHER -> signer
     /\ UNCHANGED <<catalogVars, policyVars, releaseVars, keks, issued>>

(***************************************************************************)
(* License batches: issue.  Policy and catalog are read in turn; the ids   *)
(* and keys derive from the operation id, so a repeat yields the same.  A   *)
(* row keeps the catalog version and the entitlement of its own, if any:   *)
(* a license without one follows its policy (authorization.rs).            *)
(***************************************************************************)
IssueLicenses(h, k, own) ==
  /\ Accept(h, [NoRegistryReq EXCEPT !.kind = "issue", !.key = k, !.f = own], "policy")
  /\ UNCHANGED <<journalRow, catalogVars, policyVars, releaseVars, otherVars>>

IssuePolicy(h) ==
  /\ hnd[h].req.kind = "issue"
  /\ Reads(h, "policy", [hnd[h] EXCEPT !.pc = "load", !.row = policy.grants, !.pol = policyVer])
  /\ UNCHANGED <<journalRow, catalogVars, policyVars, releaseVars, otherVars>>

\* entitlement_override, or nothing
Own(r) == {r.f} \cap Feature
Entitlement(own, grants) == IF own = {} THEN grants ELSE own

IssueCatalog(h) ==
  /\ hnd[h].req.kind = "issue" /\ hnd[h].pc = "load"
  /\ IF Resolves(Entitlement(Own(hnd[h].req), hnd[h].row), catalogs[Len(catalogs)])
     THEN Reads(h, "load", [hnd[h] EXCEPT !.pc = "ready", !.ver = Len(catalogs)])
     ELSE Refuse(h, "load")
  /\ UNCHANGED <<journalRow, catalogVars, policyVars, releaseVars, otherVars>>

CommitIssue(h) ==
  /\ Batch(h, "issue", TRUE)
  /\ issued' = [issued EXCEPT ![hnd[h].req.key] =
                  [cat |-> hnd[h].ver, own |-> Own(hnd[h].req), pol |-> hnd[h].pol]]
  /\ UNCHANGED <<catalogVars, policyVars, releaseVars, keks, signer>>

\* What each kind of batch inserts uniquely besides its journal row.
Lock(h) ==
  LET r == hnd[h].req
  IN CASE r.kind = "catalog" -> CatalogUnchanged(h)
       [] r.kind = "policy" -> hnd[h].ver = policyVer
       [] r.kind = "release" -> RegistryUnchanged(h) /\ r.b \notin Registered
       [] r.kind \in {"deprecate", "compromise"} -> RegistryUnchanged(h)
       [] r.kind = "kek" -> <<r.b, r.f>> \notin keks
       [] r.kind = "key_register" -> signer = "none"
       [] OTHER -> TRUE

Kinds == {"catalog", "policy", "release", "deprecate", "compromise", "kek", "kek_delete",
          "key_register", "key_revoke", "sign", "issue"}

\* A step of handler h, for callers that ask for these kinds under these keys.
RegistryStep(h, kinds, keys) ==
  \/ /\ hnd[h].pc = "idle"
     /\ \E k \in keys :
         \/ "catalog" \in kinds /\ \E f \in Feature : MutateCatalog(h, k, f)
         \/ "policy" \in kinds /\ \E f \in Feature, stable \in BOOLEAN : MutatePolicy(h, k, f, stable)
         \/ "release" \in kinds /\ \E b \in Build : RegisterRelease(h, k, b)
         \/ \E kind \in kinds \cap {"deprecate", "compromise"}, b \in Build, bump \in BOOLEAN :
              TransitionRelease(h, k, kind, b, bump)
         \/ \E kind \in kinds \cap {"kek", "kek_delete"}, b \in Build, f \in Feature :
              KekRequest(h, k, kind, b, f)
         \/ \E kind \in kinds \cap {"key_register", "key_revoke", "sign"} : SignerRequest(h, k, kind)
         \/ "issue" \in kinds /\ \E own \in Feature \cup {"none"} : IssueLicenses(h, k, own)
  \/ LoadCatalog(h) \/ LoadPolicy(h) \/ RegistryVersion(h) \/ LoadRegister(h) \/ LoadTransition(h)
  \/ LoadKek(h) \/ LoadSigner(h) \/ IssuePolicy(h) \/ IssueCatalog(h)
  \/ CommitCatalog(h) \/ CommitPolicy(h) \/ CommitRegister(h) \/ CommitDeprecate(h)
  \/ CommitCompromise(h) \/ CommitKek(h) \/ CommitKekDelete(h) \/ CommitSigner(h) \/ CommitIssue(h)
  \/ Rejected(h, Lock(h))

RegistryNext == \E h \in Handler : RegistryStep(h, Kinds, ReqKey)

RegistrySpec == RegistryInit /\ [][RegistryNext]_registryVars

(***************************************************************************)
(* Properties.                                                             *)
(***************************************************************************)

Journaled(kind) == {k \in ReqKey : journalRow[k].kind = kind}

\* A request takes effect exactly once however often it is repeated, also when
\* two copies are served at the same time: the versions count the journal rows
\* (the unique journal row of every batch).
EffectsMatchJournal ==
  /\ Len(catalogs) - 1 = Cardinality(Journaled("catalog"))
  /\ policyVer - 1 = Cardinality(Journaled("policy"))
  /\ registryVer = Cardinality(Journaled("release") \cup Journaled("deprecate") \cup Journaled("compromise"))
  /\ floor = Cardinality({k \in Journaled("compromise") : journalRow[k].flag})

\* The newest immutable snapshot is the catalog, although it is built from what
\* the handler loaded before its batch (mutate_catalog).
SnapshotIsCatalog == catalogs[Len(catalogs)] = items

\* Releases with different variant seeds have different variant ids: two
\* registrations never allocate the same MAX + 1 (register reads the registry
\* version before the releases).
VariantIsolation ==
  \A b, c \in Registered : releases[b].variant = releases[c].variant <=> releases[b].seed = releases[c].seed

\* A request can resolve what a license entitles to against the catalog version
\* of its row, whatever was committed between the reads of issue: for ever where
\* the license has an entitlement of its own, and until the policy is next
\* changed where it follows the policy (issue, load_context).
IssuedResolves ==
  \A k \in ReqKey :
    issued[k].cat > 0 /\ (issued[k].own # {} \/ issued[k].pol = policyVer) =>
      Resolves(Entitlement(issued[k].own, policy.grants), catalogs[issued[k].cat])

\* Handlers that commit between each other's reads leave the registry
\* consistent: an operation takes effect exactly once, the newest snapshot
\* is the catalog, a variant has one owner, and a license resolves until its
\* policy is changed (the journal row of every batch).
RegistryConsistent ==
  /\ EffectsMatchJournal
  /\ SnapshotIsCatalog
  /\ VariantIsolation
  /\ IssuedResolves
=============================================================================
