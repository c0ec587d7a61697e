----------------------------- MODULE MCServices -----------------------------
(***************************************************************************)
(* The request services of the Worker, checked together: focus picks one   *)
(* of them, or one group of its operations, and the others stand still.    *)
(***************************************************************************)
EXTENDS Issuance, AccountSessions, EpochAdmin, Authorization

CONSTANT Focus

VARIABLE focus

servicesVars == <<focus, issuanceVars, acctVars, epochVars, authorizationVars>>

ServicesInit ==
  /\ focus \in Focus
  /\ IssuanceInit /\ AccountInit /\ AuthorizationInit
  /\ focus # "grant" => registry[3].st = "none"
  /\ object.seats = IF focus = "grant" THEN <<"active">> ELSE <<>>
  /\ focus # "gate" => account = "active"
  /\ IF focus = "publish" THEN EpochInitRevoked(1) ELSE EpochInit
  /\ secretEpoch = 1

\* Two attempts with every key and rows that expire, three with the relay's key,
\* three with one online key whose row expires, two with the archive.
IssuanceFocus ==
  \/ /\ focus = "request"
     /\ RequestStep(IssueKey \ BatchKeys) \/ RotateStep \/ ForgetStep
     /\ att'[3].pc = "idle"
  \/ focus = "relay" /\ RequestStep(RelayKeys)
  \/ focus = "forget" /\ (RequestStep(IssueKey \ (RelayKeys \union BatchKeys)) \/ ForgetStep)
  \/ focus = "batch" /\ BatchStep
  \/ /\ focus = "archive"
     /\ RequestStep(IssueKey \ (RelayKeys \union BatchKeys)) \/ ValidateStep \/ ArchiveStep
     /\ att'[3].pc = "idle"
  \/ focus = "alert" /\ (RequestStep(IssueKey \ (RelayKeys \union BatchKeys)) \/ ValidateStep)

AccountFocus ==
  \/ /\ focus = "gate"
     /\ (\E h \in SignIn : LoginStep(h, BOOLEAN, BOOLEAN))
          \/ AccountAlarm \/ AccountChange \/ AccountTick
  \/ /\ focus = "session"
     /\ \/ \E h \in SignIn : LoginStep(h, {TRUE}, {TRUE}) \/ SessionStep(h)
        \/ AccountAlarm \/ AccountTick
        \/ (\A h \in SignIn : sign[h] = NoSign) /\ AccountChange

\* Approvals of one epoch by two handlers; the publication of one revocation
\* beside the approval of a second one; uploads.
EpochFocus ==
  \/ /\ focus = "approve"
     /\ \/ \E h \in EpochHandler : ApprovalStep(h) \/ EpochHandlerDies(h)
        \/ LicenseRevoked \/ LicensePublished \/ EpochTick
     /\ \A h \in EpochHandler : eh'[h].epoch \in {0, 1}
  \/ /\ focus = "publish"
     /\ \/ \E h \in EpochHandler : \/ EffectStep(h)
                                   \/ h = 1 /\ ApprovalStep(h)
                                   \/ h = 2 /\ EpochHandlerDies(h)
        \/ KeyStep
  \/ /\ focus = "upload"
     /\ \E h \in EpochHandler : EffectStep(h) \/ EpochHandlerDies(h)

\* One request of a device with a seat.  A row changes only before a step that reads
\* it, or before the request where a property remembers what it was then: an
\* earlier change commutes with the steps in between, a later one is never read.
GrantFocus ==
  /\ focus = "grant"
  /\ \/ Handle \/ Follow
     \/ flight.pc = "policy" /\ PolicyChanges
     \/ flight.pc = "catalog" /\ CatalogChanges
     \/ flight.pc \in {"license", "init", "object"} /\ LicenseChanges
     \/ flight.pc \in {"license", "object", "complete"} /\ ObjectChanges
     \/ flight.pc \in {"registry", "floor", "list"} /\ ReleaseChanges
     \/ flight.pc \in {"keks", "preload"} /\ KekChanges
     \/ requests = <<>> /\ (ReleaseChanges \/ ObjectChanges)
  /\ Len(requests') <= 1 /\ flight'.idem <= 1

\* Two activations of a new device, the second a repeat of the first or not.
RetryFocus ==
  /\ focus = "retry"
  /\ \/ Handle \/ HandlerDies \/ Follow
     \/ edits = 0 /\ Administer
     \/ edits = 1 /\ \E m \in Occupied : FreeSeat(m)
  /\ flight'.purpose # "validate"
  /\ \A n \in DOMAIN requests' : requests'[n].release = 1 /\ requests'[n].idem <= n

ServicesNext ==
  /\ UNCHANGED focus
  /\ \/ IssuanceFocus /\ UNCHANGED <<acctVars, epochVars, authorizationVars>>
     \/ AccountFocus /\ UNCHANGED <<issuanceVars, epochVars, authorizationVars>>
     \/ EpochFocus /\ UNCHANGED <<issuanceVars, acctVars, authorizationVars>>
     \/ (GrantFocus \/ RetryFocus) /\ UNCHANGED <<issuanceVars, acctVars, epochVars>>

ServicesSpec == ServicesInit /\ [][ServicesNext]_servicesVars
=============================================================================
