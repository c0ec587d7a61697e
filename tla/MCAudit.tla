------------------------------ MODULE MCAudit ------------------------------
(***************************************************************************)
(* Revocations under the cron, and beside them the archive of the audit    *)
(* records, the paged lists and the calendar they are filed under: focus   *)
(* picks one of them and the others stand still.                           *)
(***************************************************************************)
EXTENDS MCRevocationLog, AuditArchive, Listing, Calendar

CONSTANT Focus

VARIABLE focus

sideVars == <<archiveVars, listingVars, calendarVars>>
auditRunVars == <<focus, vars, sideVars>>

\* 1970 to 2001, and across the ends of February 2100 and 2400, of parse_date's
\* last year and of the last year that has an archive key.
Stretches ==
  {[day |-> 0, date |-> [y |-> 1970, m |-> 1, d |-> 1], weekday |-> 4, length |-> 11400],
   [day |-> 47451, date |-> [y |-> 2099, m |-> 12, d |-> 1], weekday |-> 2, length |-> 440],
   [day |-> 157023, date |-> [y |-> 2399, m |-> 12, d |-> 1], weekday |-> 3, length |-> 100],
   [day |-> 2932866, date |-> [y |-> 9999, m |-> 12, d |-> 1], weekday |-> 3, length |-> 40]}

AuditInit ==
  /\ focus \in Focus
  /\ Init /\ ArchiveInit /\ ListingInit /\ CalendarInit
  /\ focus # "calendar" => today = 0
  /\ focus \notin {"archive", "issued"} => Mirrored = {}

\* Filters are interchangeable, and no list reads the other one's table.
AuditNext ==
  /\ UNCHANGED focus
  /\ \/ focus = "revoke" /\ Next /\ UNCHANGED sideVars
     \/ /\ focus = "archive" /\ ArchiveNext
        /\ issueLog' = issueLog
        /\ UNCHANGED <<vars, listingVars, calendarVars>>
     \/ /\ focus = "issued" /\ ArchiveNext
        /\ auditChain' = auditChain /\ harms' = harms
        /\ UNCHANGED <<vars, listingVars, calendarVars>>
     \/ /\ focus = "listing" /\ ListingNext
        /\ reader'.filter # "released" /\ (machineList' = {} \/ eventList' = {})
        /\ UNCHANGED <<vars, archiveVars, calendarVars>>
     \/ /\ focus = "calendar" /\ CalendarNext
        /\ UNCHANGED <<vars, archiveVars, listingVars>>

\* The fairness of CronSpec, where the cron runs.
AuditSpec ==
  /\ AuditInit /\ [][AuditNext]_auditRunVars
  /\ \A c \in Cron : WF_vars(focus = "revoke" /\ Step(c)) /\ WF_vars(focus = "revoke" /\ Resume(c))
  /\ WF_vars(focus = "revoke" /\ ForeignMirror)
=============================================================================
