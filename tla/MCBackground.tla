---------------------------- MODULE MCBackground ----------------------------
(***************************************************************************)
(* What is to be finished without any request: the work of the License     *)
(* object's alarm, and of the minute cron on the Admin journal.  focus     *)
(* picks one of them and the other stands still.                           *)
(***************************************************************************)
EXTENDS MCLicenseDO, MCAdminJournal

VARIABLE focus

BackgroundInit == focus \in {"license", "journal"} /\ Init /\ JournalInit

BackgroundNext ==
    /\ UNCHANGED focus
    /\ \/ focus = "license" /\ Next /\ UNCHANGED journalVars
       \/ focus = "journal" /\ JournalNext /\ UNCHANGED vars

\* The fairness of FairSpec and of CronSpec, each where its system runs.
BackgroundSpec ==
    /\ BackgroundInit /\ [][BackgroundNext]_<<focus, vars, journalVars>>
    /\ WF_vars(focus = "license" /\ Tick) /\ WF_vars(focus = "license" /\ AlarmFire)
    /\ WF_vars(focus = "license" /\ FlushEnd) /\ SF_vars(focus = "license" /\ FlushSend)
    /\ \A p \in Worker : WF_journalVars(focus = "journal" /\ Step(p))
    /\ \A c \in Cron : /\ WF_journalVars(focus = "journal" /\ CronSide(c))
                       /\ WF_journalVars(focus = "journal" /\ CronPending(c))
    /\ WF_journalVars(focus = "journal" /\ \E r \in queue : Archive(r, 3))
=============================================================================
