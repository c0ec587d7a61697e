---------------------------- MODULE LicenseRecord ----------------------------
(***************************************************************************)
(* The D1 record of one license and of its machines, and everything that   *)
(* writes it: the projections of the LicenseDO that arrive over the EVENTS *)
(* queue (projection.rs, consumer.rs), the Admin PATCH and change-tier     *)
(* handlers (admin_resources/licenses.rs) whose side effect is sent to the *)
(* LicenseDO afterwards, and the erasure of a machine                      *)
(* (admin_resources/dsr.rs, machines.rs), whose cascade deletes the D1 row *)
(* first and the activation and the raw analytics records later.           *)
(* The LicenseDO is kept to what its projections show; LicenseDO.tla has   *)
(* its inside.  The queue delivers in any order and more than once.        *)
(***************************************************************************)
EXTENDS Integers, FiniteSets

CONSTANTS RecordMachine,    \* machine ids; the LicenseDO mints an id once
          Patch,      \* Admin requests that change the license
          Erasure,    \* Admin requests that erase machines
          MaxProj     \* bound: projections the LicenseDO appends

VARIABLES licDO,      \* LicenseDO: status, admin_version, proj_version, activations
          events,     \* messages of the EVENTS queue not yet acknowledged
          row,        \* the licenses row
          machineRow, \* the machines rows
          rawStore,   \* machines with a raw analytics record in R2
          entityVer,  \* newest version in admin_entity_versions of the license
          req         \* each Admin request: where it stands, what it read

recordVars == <<licDO, events, row, machineRow, rawStore, entityVer, req>>

NoRow == [st |-> "none", proj |-> 0]

\* What a PATCH asks for: a new status, or a new seat override.
Change == [field : {"status"}, to : {"active", "suspended"}]
          \cup [field : {"seats"}, to : {2}]

NoWork == [pc |-> "idle", chg |-> [field |-> "seats", to |-> 2],
         st |-> "active", seats |-> 1, ver |-> 0, ms |-> {}]

RecordInit ==
  /\ licDO = [st |-> "active", admin |-> 0, proj |-> 0,
              act |-> [m \in RecordMachine |-> "none"]]
  /\ events = {}
  /\ row = [st |-> "active", seats |-> 1, proj |-> 0]
  /\ machineRow = [m \in RecordMachine |-> NoRow]
  /\ rawStore = {}
  /\ entityVer = 0
  /\ req = [o \in Patch \cup Erasure |-> NoWork]

(***************************************************************************)
(* The LicenseDO: every change of status or of an activation appends a     *)
(* projection with the next proj_version; the outbox hands it to the queue.*)
(***************************************************************************)
Projection(d, m) ==
  [kind |-> "projection", ver |-> d.proj, st |-> d.st, m |-> m,
   mst |-> IF m = "none" THEN "none" ELSE d.act[m]]

\* append_projection: the DO state d of the next version, with its message.
AppendProjection(d, m) ==
  LET n == [d EXCEPT !.proj = @ + 1]
  IN /\ licDO.proj < MaxProj
     /\ licDO' = n
     /\ events' = events \cup {Projection(n, m)}

Activate(m) ==
  /\ licDO.st = "active" /\ licDO.act[m] = "none"
  /\ \A o \in Erasure : m \notin req[o].ms      \* ids are minted once
  /\ machineRow[m] = NoRow
  /\ \A e \in events : e.m # m
  /\ AppendProjection([licDO EXCEPT !.act[m] = "active"], m)
  /\ UNCHANGED <<row, machineRow, rawStore, entityVer, req>>

Deactivate(m) ==
  /\ licDO.act[m] = "active"
  /\ AppendProjection([licDO EXCEPT !.act[m] = "released"], m)
  /\ UNCHANGED <<row, machineRow, rawStore, entityVer, req>>

\* The license is revoked (/revoke), or the alarm finds it past its expiry.
EndLicense(st) ==
  /\ licDO.st \in IF st = "revoked" THEN {"active", "suspended", "expired"} ELSE {"active"}
  /\ AppendProjection([licDO EXCEPT !.st = st], "none")
  /\ UNCHANGED <<row, machineRow, rawStore, entityVer, req>>

\* A validation of an active machine sends an analytics detail event.
ReportDetail(m) ==
  /\ licDO.act[m] = "active"
  /\ events' = events \cup {[kind |-> "detail", ver |-> 0, st |-> "none", m |-> m, mst |-> "none"]}
  /\ UNCHANGED <<licDO, row, machineRow, rawStore, entityVer, req>>

(***************************************************************************)
(* The queue consumer.  A message is acknowledged, or is delivered again   *)
(* although its batch committed (the worker died before the ack).          *)
(***************************************************************************)
MachineStatement(e) ==
  IF e.m # "none" /\ (machineRow[e.m] = NoRow \/ machineRow[e.m].proj < e.ver)
  THEN [machineRow EXCEPT ![e.m] = [st |-> e.mst, proj |-> e.ver]]
  ELSE machineRow

LicenseStatement(e) ==
  IF row.proj < e.ver THEN [row EXCEPT !.st = e.st, !.proj = e.ver] ELSE row

Acknowledged(e) == events' \in {events, events \ {e}}

ConsumeProjection(e) ==
  /\ e.kind = "projection"
  /\ machineRow' = MachineStatement(e)
  /\ row' = LicenseStatement(e)
  /\ Acknowledged(e)
  /\ UNCHANGED <<licDO, rawStore, entityVer, req>>

ConsumeDetail(e) ==
  /\ e.kind = "detail"
  /\ rawStore' = rawStore \cup {e.m}
  /\ Acknowledged(e)
  /\ UNCHANGED <<licDO, row, machineRow, entityVer, req>>

(***************************************************************************)
(* PATCH /v1/admin/licenses/{id} and change-tier.  The row is loaded, then *)
(* the entity version is read, then one batch writes the journal entry,    *)
(* the next version (unique) and the whole row; each is an await.          *)
(***************************************************************************)
Proposed(r) ==
  IF r.chg.field = "status" THEN [st |-> r.chg.to, seats |-> r.seats]
  ELSE [st |-> r.st, seats |-> r.chg.to]

LoadLicense(o, c) ==
  /\ req[o].pc = "idle" /\ row.st # "revoked"
  /\ req' = [req EXCEPT ![o] = [@ EXCEPT !.pc = "loaded", !.chg = c,
                                         !.st = row.st, !.seats = row.seats]]
  /\ UNCHANGED <<licDO, events, row, machineRow, rawStore, entityVer>>

ReadVersion(o) ==
  /\ req[o].pc = "loaded"
  /\ req' = [req EXCEPT ![o] =
       IF Proposed(@) = [st |-> @.st, seats |-> @.seats]
       THEN [@ EXCEPT !.pc = "no_change"]
       ELSE [@ EXCEPT !.pc = "versioned", !.ver = entityVer + 1]]
  /\ UNCHANGED <<licDO, events, row, machineRow, rawStore, entityVer>>

PersistUpdate(o) ==
  /\ req[o].pc = "versioned"
  /\ IF req[o].ver = entityVer + 1
     THEN /\ entityVer' = req[o].ver
          /\ row' = [row EXCEPT !.st = Proposed(req[o]).st, !.seats = Proposed(req[o]).seats]
          /\ req' = [req EXCEPT ![o].pc = "journaled"]
     ELSE /\ req' = [req EXCEPT ![o].pc = "conflict"]
          /\ UNCHANGED <<entityVer, row>>
  /\ UNCHANGED <<licDO, events, machineRow, rawStore>>

\* AdminUpdate without the version guard.
AdminUpdateAnyVersion(o) ==
  /\ req[o].pc = "journaled" /\ o \in Patch
  /\ licDO.st # "revoked"
  /\ AppendProjection([licDO EXCEPT !.st = Proposed(req[o]).st,
                                     !.admin = IF @ < req[o].ver THEN req[o].ver ELSE @], "none")
  /\ req' = [req EXCEPT ![o].pc = "synced"]
  /\ UNCHANGED <<row, machineRow, rawStore, entityVer>>

\* admin_update of the LicenseDO; a revoked license refuses, and the side
\* effect stays pending.
AdminUpdate(o) ==
  /\ req[o].pc = "journaled" /\ o \in Patch
  /\ \/ /\ licDO.admin >= req[o].ver
        /\ UNCHANGED <<licDO, events>>
     \/ /\ licDO.admin < req[o].ver /\ licDO.st # "revoked"
        /\ AppendProjection([licDO EXCEPT !.st = Proposed(req[o]).st, !.admin = req[o].ver], "none")
  /\ req' = [req EXCEPT ![o].pc = "synced"]
  /\ UNCHANGED <<row, machineRow, rawStore, entityVer>>

\* The checkpoint side_effect_at; a crash before it makes the minute cron
\* send the effect again.
MarkSideEffect(o) ==
  /\ req[o].pc = "synced"
  /\ \E pc \in {"done", "journaled"} : req' = [req EXCEPT ![o].pc = pc]
  /\ UNCHANGED <<licDO, events, row, machineRow, rawStore, entityVer>>

(***************************************************************************)
(* Erasure: resolve the subject's machines, delete their rows with the     *)
(* journal entry in one batch, then forget each activation and delete the  *)
(* raw records.                                                            *)
(***************************************************************************)
ResolveSubject(o, ms) ==
  /\ req[o].pc = "idle"
  /\ ms # {} /\ \A m \in ms : machineRow[m] # NoRow
  /\ req' = [req EXCEPT ![o] = [@ EXCEPT !.pc = "resolved", !.ms = ms]]
  /\ UNCHANGED <<licDO, events, row, machineRow, rawStore, entityVer>>

DeleteConfirmed(o) ==
  /\ req[o].pc = "resolved"
  /\ machineRow' = [m \in RecordMachine |-> IF m \in req[o].ms THEN NoRow ELSE machineRow[m]]
  /\ req' = [req EXCEPT ![o].pc = "journaled"]
  /\ UNCHANGED <<licDO, events, row, rawStore, entityVer>>

\* admin_forget deletes the activation and appends no projection.
ForgetActivation(o, m) ==
  /\ req[o].pc = "journaled" /\ m \in req[o].ms
  /\ licDO.act[m] # "none"
  /\ licDO' = [licDO EXCEPT !.act[m] = "none"]
  /\ UNCHANGED <<events, row, machineRow, rawStore, entityVer, req>>

\* Every activation is forgotten; the raw records of the window are deleted.
DeleteRawKeys(o) ==
  /\ req[o].pc = "journaled" /\ o \in Erasure
  /\ \A m \in req[o].ms : licDO.act[m] = "none"
  /\ rawStore' = rawStore \ req[o].ms
  /\ req' = [req EXCEPT ![o].pc = "synced"]
  /\ UNCHANGED <<licDO, events, row, machineRow, entityVer>>

RecordNext ==
  \/ \E m \in RecordMachine : Activate(m) \/ Deactivate(m) \/ ReportDetail(m)
  \/ \E st \in {"revoked", "expired"} : EndLicense(st)
  \/ \E e \in events : ConsumeProjection(e) \/ ConsumeDetail(e)
  \/ \E o \in Patch : \E c \in Change : LoadLicense(o, c)
  \/ \E o \in Patch : ReadVersion(o) \/ PersistUpdate(o) \/ AdminUpdate(o)
  \/ \E o \in Patch \cup Erasure : MarkSideEffect(o)
  \/ \E o \in Erasure : \E ms \in SUBSET RecordMachine : ResolveSubject(o, ms)
  \/ \E o \in Erasure : DeleteConfirmed(o) \/ DeleteRawKeys(o)
  \/ \E o \in Erasure : \E m \in RecordMachine : ForgetActivation(o, m)

RecordSpec == RecordInit /\ [][RecordNext]_recordVars

(***************************************************************************)
(* Properties.                                                             *)
(***************************************************************************)
Erased == UNION {req[o].ms : o \in {p \in Erasure : req[p].pc \in {"journaled", "synced", "done"}}}

\* Whatever order the queue delivers in, and however often, once every message
\* is acknowledged and no Admin request is under way, the licenses row shows
\* the status of the LicenseDO and every machine row that was not erased shows
\* its activation (projection.rs machine_statement, license_statement;
\* license.rs admin_update appends a projection after the row was patched).
RecordConverges ==
  (events = {} /\ \A o \in Patch \cup Erasure : req[o].pc \in {"idle", "no_change", "conflict", "done"})
  => /\ row.st = licDO.st
     /\ \A m \in RecordMachine \ Erased : machineRow[m].st = licDO.act[m]

\* The LicenseDO holds the status of the newest Admin version it was sent, or
\* a later revocation or expiry: a side effect that arrives late never
\* restores the settings of an older PATCH (license.rs admin_update).
NewestPatchWins ==
  \A o \in Patch : req[o].ver = licDO.admin /\ req[o].pc \in {"journaled", "synced", "done"}
    => \/ licDO.st = Proposed(req[o]).st
       \/ licDO.st = "revoked"
       \/ licDO.st = "expired" /\ Proposed(req[o]).st = "active"

\* No two committed Admin changes share an entity version, and none is skipped
\* (the UNIQUE version row of persist_update's batch).
VersionsAreUnique ==
  LET committed == {o \in Patch : req[o].pc \in {"journaled", "synced", "done"}}
  IN {req[o].ver : o \in committed} = 1..Cardinality(committed)

\* When the erasure is checkpointed as done, the LicenseDO serves none of the
\* erased machines (dsr.rs apply_side_effect forgets every one of them first).
ErasedNotServed ==
  \A o \in Erasure : req[o].pc \in {"synced", "done"} => \A m \in req[o].ms : licDO.act[m] = "none"

\* What the comment on admin_forget (license.rs) promises: an erased machine's
\* D1 row is not resurrected.
ErasedStaysErased ==
  \A o \in Erasure : req[o].pc = "done" => \A m \in req[o].ms : machineRow[m] = NoRow

\* What migration 0007 says of admin_entity_versions, "an optimistic lock for
\* mutable entities": a PATCH of the status leaves a seat override that another
\* PATCH committed in the meantime alone.
PatchKeepsOtherFields ==
  [][\A o \in Patch :
       req[o].pc = "versioned" /\ req'[o].pc = "journaled" /\ req[o].chg.field = "status"
       => row'.seats = row.seats]_recordVars

\* After concurrent updates, projections in any order and erasures, D1 and
\* the License object agree: every version is one update's, the newest one
\* wins in both, and no erased machine is served (persist_update,
\* admin_update, apply, apply_side_effect).
RecordFaithful == RecordConverges /\ NewestPatchWins /\ VersionsAreUnique /\ ErasedNotServed
=============================================================================
