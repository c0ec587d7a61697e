---------------------------- MODULE SecureStore ----------------------------
(***************************************************************************)
(* The desktop store (crates/copylocker-store): one sealed record kept in  *)
(* two places, a protected replica (the keyring, or on a Linux without one *)
(* a private file) and a backup file, both sealed under a root secret that *)
(* lives in the same protected storage.  Every access to a place is a step *)
(* of its own: it may fail, and the process may die before the next one.   *)
(***************************************************************************)
EXTENDS Integers, FiniteSets, Sequences

CONSTANTS
  SPayload,     \* application states a client saves
  SMaxMark,     \* bound: largest high-water mark
  SMaxSave,     \* bound: calls of save_record
  SMaxFault,    \* bound: failing accesses to the keyring or to a file
  SMaxCrash,    \* bound: deaths of the process
  SMaxWipe      \* bound: calls of wipe

ASSUME SBounds == {SMaxMark, SMaxSave, SMaxFault, SMaxCrash, SMaxWipe} \subseteq Nat

VARIABLES
  secret,       \* root secret per protected place, 0 when absent
  replica,      \* sealed record per place
  task,         \* the one call in progress: the store's lock admits no second
  active,       \* LinuxProtectedStorage.active of this process
  minted, saves, faults, crashes, wipes,   \* counters under the bounds
  may,          \* payloads an undisturbed reader may find
  kept,         \* marks of every acknowledged save since the last wipe
  torn          \* a wipe has been left unfinished

storeVars == <<secret, replica, task, active, minted, saves, faults, crashes, wipes,
               may, kept, torn>>

Nothing == "nothing"
Truncated == -1                       \* a root secret file of zero length

(* MonotonicState: five marks merged the same way, two of them related. *)
Marks == {m \in [seen : 0..SMaxMark, server : 0..SMaxMark] : m.seen >= m.server}
NoMarks == [seen |-> 0, server |-> 0]
LargerOf(a, b) == IF a >= b THEN a ELSE b
MergeMarks(a, b) == [seen |-> LargerOf(a.seen, b.seen), server |-> LargerOf(a.server, b.server)]
CoversMarks(a, b) == a.seen >= b.seen /\ a.server >= b.server

(* A place holds a sealed record, nothing, or the noise of an unfinished   *)
(* secure_remove; a read of it can also fail.                              *)
Copy(key, gen, payload, marks) == [key |-> key, gen |-> gen, payload |-> payload, marks |-> marks]
NoReplica == Copy(0, 0, Nothing, NoMarks)
Noise == Copy(-1, 0, Nothing, NoMarks)
Unread == Copy(-2, 0, Nothing, NoMarks)

Idle == [op |-> "idle", at |-> "idle", root |-> 0, prot |-> NoReplica, file |-> NoReplica,
         new |-> NoReplica, stage |-> 0, ok |-> TRUE, hit |-> FALSE]

-----------------------------------------------------------------------------
(* Faults and the calls' shape *)

(* An access succeeds, or fails within the budget and marks the call. *)
Access(ok) ==
  /\ ~ok => faults < SMaxFault
  /\ faults' = IF ok THEN faults ELSE faults + 1

Goto(at) == task' = [task EXCEPT !.at = at]
Answer(result, found) ==
  task' = [Idle EXCEPT !.at = result, !.op = task.op, !.new = found,
                       !.hit = task.hit \/ faults' # faults]

Counters == <<minted, saves, crashes, wipes>>
Ghosts == <<may, kept, torn>>

-----------------------------------------------------------------------------
(* The protected storage of Linux: the keyring, or the files beside it *)

(* load_root: the keyring's secret, else the file's; an unreachable keyring *)
(* without a file secret, or a file that cannot be read either, is an       *)
(* error, not an empty store.                                               *)
RootError == [root |-> -2, active |-> active]
RootsFound(ok) ==
  IF ok /\ secret["keyring"] # 0 THEN {[root |-> secret["keyring"], active |-> "keyring"]}
  ELSE LET file == IF secret["file"] # 0 THEN {[root |-> secret["file"], active |-> "file"]} ELSE {}
       IN IF ~ok THEN file \cup {RootError}
          ELSE IF file = {} THEN {[root |-> 0, active |-> active]} ELSE file

(* load(Replica): of the active backend; before one is known, of either. *)
ReplicasFound(ok) ==
  CASE active \in {"keyring", "file"} -> {IF ok THEN replica[active] ELSE Unread}
    [] OTHER -> IF ok THEN {IF replica["keyring"] # NoReplica THEN replica["keyring"] ELSE replica["file"]}
                ELSE {Unread} \cup ({replica["file"]} \ {NoReplica})

-----------------------------------------------------------------------------
(* resolve_replicas *)

(* classify_replica *)
Valid(root, copies) == {c \in copies : c.key = root}
Unreadable(root, copies) == \E c \in copies : c.key \notin {0, -2, root}

MergedMarks(copies) ==
  CHOOSE m \in {MergeMarks(c.marks, d.marks) : c, d \in copies} :
    \A c \in copies : CoversMarks(m, c.marks)

(* The newest generation wins and takes the larger of all marks. *)
Winner(copies) ==
  [(CHOOSE c \in copies : \A d \in copies : c.gen >= d.gen) EXCEPT !.marks = MergedMarks(copies)]

Conflicting(copies) == \E c, d \in copies : c.gen = d.gen /\ c.payload # d.payload

ResolveOutcome(root, copies) ==
  IF Valid(root, copies) # {}
  THEN IF Conflicting(Valid(root, copies)) THEN "conflict" ELSE "found"
  ELSE IF Unreadable(root, copies) THEN "integrity"
  ELSE IF Unread \in copies THEN "error"
  ELSE "none"

-----------------------------------------------------------------------------
(* Begin of a call: validation, then the lock *)

LoadBegin ==
  /\ task.op = "idle"
  /\ task' = [Idle EXCEPT !.op = "load", !.at = "root"]
  /\ UNCHANGED <<secret, replica, active, faults, Counters, Ghosts>>

SaveBegin(payload, marks) ==
  /\ task.op = "idle"
  /\ saves < SMaxSave
  /\ task' = [Idle EXCEPT !.op = "save", !.at = "root", !.new = Copy(0, 0, payload, marks)]
  /\ saves' = saves + 1
  /\ UNCHANGED <<secret, replica, active, faults, minted, crashes, wipes, Ghosts>>

-----------------------------------------------------------------------------
(* load_root, and root_for_save when there is none *)

LoadRoot(ok) ==
  /\ task.op \in {"load", "save"} /\ task.at \in {"root", "reread"}
  /\ Access(ok)
  /\ \E found \in RootsFound(ok) :
       /\ active' = found.active
       /\ CASE found.root \in {-2, Truncated} -> Answer("error", NoReplica)
            [] found.root = 0 /\ task.at = "reread" -> Answer("error", NoReplica)
            [] found.root = 0 /\ task.at = "root" -> Goto("empty")
            [] OTHER -> task' = [task EXCEPT !.root = found.root, !.at = "prot",
                                             !.hit = task.hit \/ ~ok]
  /\ UNCHANGED <<secret, replica, Counters, Ghosts>>

(* Without a root secret any ciphertext left is an error, never overwritten. *)
CheckEmpty(ok) ==
  /\ task.op \in {"load", "save"} /\ task.at = "empty"
  /\ Access(ok)
  /\ IF ReplicasFound(ok) # {NoReplica} \/ replica["backup"] # NoReplica
     THEN Answer("error", NoReplica)
     ELSE IF task.op = "load" THEN Answer("none", NoReplica)
     ELSE task' = [task EXCEPT !.at = "mint", !.hit = task.hit \/ ~ok]
  /\ UNCHANGED <<secret, replica, active, Counters, Ghosts>>

(* store_root: the keyring, or the file when the keyring refuses; when the  *)
(* file cannot be written the save fails.                                   *)
MintRoot(ok) ==
  LET place == IF active = "file" \/ ~ok THEN "file" ELSE "keyring"
  IN /\ task.op = "save" /\ task.at = "mint"
     /\ Access(ok)
     /\ \/ /\ ok \/ active # "file"
           /\ minted' = minted + 1
           /\ secret' = [secret EXCEPT ![place] = minted + 1]
           /\ active' = place
           /\ task' = [task EXCEPT !.at = "reread", !.hit = task.hit \/ ~ok]
        \/ ~ok /\ Answer("error", NoReplica) /\ UNCHANGED <<minted, secret, active>>
     /\ UNCHANGED <<replica, saves, crashes, wipes, Ghosts>>

-----------------------------------------------------------------------------
(* The two reads of resolve_replicas, and what load and save make of them *)

ReadProtected(ok) ==
  /\ task.op \in {"load", "save"} /\ task.at = "prot"
  /\ Access(ok)
  /\ \E copy \in ReplicasFound(ok) :
       task' = [task EXCEPT !.prot = copy, !.at = "file", !.hit = task.hit \/ ~ok]
  /\ UNCHANGED <<secret, replica, active, Counters, Ghosts>>

(* What save seals: the next generation, with every mark seen so far. *)
NextCopy(old, new) == Copy(task.root, old.gen + 1, new.payload, MergeMarks(old.marks, new.marks))

ReadBackup(ok) ==
  LET copies == {task.prot, IF ok THEN replica["backup"] ELSE Unread}
      outcome == ResolveOutcome(task.root, copies)
      winner == Winner(Valid(task.root, copies))
      put(c) == task' = [task EXCEPT !.new = c, !.at = "put", !.hit = task.hit \/ ~ok]
  IN /\ task.op \in {"load", "save"} /\ task.at = "file"
     /\ Access(ok)
     /\ CASE outcome \in {"conflict", "integrity", "error"} -> Answer(outcome, NoReplica)
          [] outcome = "none" /\ task.op = "load" -> Answer("none", NoReplica)
          [] outcome = "none" /\ task.op = "save" -> put(NextCopy(NoReplica, task.new))
          [] outcome = "found" /\ task.op = "save" -> put(NextCopy(winner, task.new))
          [] outcome = "found" /\ task.op = "load" /\ copies = {winner} ->
               Answer("found", winner)
          [] OTHER -> put(winner)
     /\ UNCHANGED <<secret, replica, active, Counters, Ghosts>>

-----------------------------------------------------------------------------
(* The two writes: of a save in this order, each fatal to it; of a load's  *)
(* repair best effort                                                      *)

Put(place, ok) == replica' = IF ok THEN [replica EXCEPT ![place] = task.new] ELSE replica

PutProtected(ok) ==
  /\ task.op \in {"load", "save"} /\ task.at = "put"
  /\ Access(ok)
  /\ Put(active, ok)
  /\ IF task.op = "save" /\ ~ok THEN Answer("error", NoReplica)
     ELSE task' = [task EXCEPT !.at = "backup", !.hit = task.hit \/ ~ok]
  /\ may' = IF task.op = "save" /\ ok THEN may \cup {task.new.payload} ELSE may
  /\ UNCHANGED <<secret, active, Counters, kept, torn>>

BackupOptional(ok) == FALSE

(* write_atomic's error ends the save although the protected copy is new. *)
BackupFails(ok) == task.op = "save" /\ ~ok

PutBackup(ok) ==
  /\ task.op \in {"load", "save"} /\ task.at = "backup"
  /\ Access(ok)
  /\ Put("backup", ok)
  /\ IF BackupFails(ok) THEN Answer("error", NoReplica) ELSE Answer("found", task.new)
  /\ IF task.op = "save" /\ ~BackupFails(ok)
     THEN may' = {task.new.payload} /\ kept' = MergeMarks(kept, task.new.marks)
     ELSE UNCHANGED <<may, kept>>
  /\ UNCHANGED <<secret, active, Counters, torn>>

-----------------------------------------------------------------------------
(* wipe: both copies of the replica, the backup, then the secret; every    *)
(* deletion is tried, and a file is overwritten before it is unlinked      *)

WipeOrder == <<[slot |-> "replica", at |-> "keyring"], [slot |-> "replica", at |-> "file"],
               [slot |-> "replica", at |-> "backup"], [slot |-> "secret", at |-> "keyring"],
               [slot |-> "secret", at |-> "file"]>>

WipeBegin ==
  /\ task.op = "idle"
  /\ wipes < SMaxWipe
  /\ task' = [Idle EXCEPT !.op = "wipe", !.at = "delete", !.stage = 1]
  /\ wipes' = wipes + 1
  /\ may' = may \cup {Nothing}
  /\ kept' = NoMarks
  /\ torn' = TRUE
  /\ UNCHANGED <<secret, replica, active, faults, minted, saves, crashes>>

Slot(s) == WipeOrder[s]
Holds(s) == IF Slot(s).slot = "replica" THEN replica[Slot(s).at] # NoReplica ELSE secret[Slot(s).at] # 0
Erase(s) ==
  IF Slot(s).slot = "replica"
  THEN replica' = [replica EXCEPT ![Slot(s).at] = NoReplica] /\ UNCHANGED secret
  ELSE secret' = [secret EXCEPT ![Slot(s).at] = 0] /\ UNCHANGED replica

(* secure_remove's overwriting: random bytes, which for a secret are just *)
(* another secret, then a file of length zero.                            *)
Scrub ==
  /\ task.op = "wipe" /\ task.at = "delete" /\ task.stage <= Len(WipeOrder)
  /\ Slot(task.stage).at # "keyring" /\ Holds(task.stage)
  /\ IF Slot(task.stage).slot = "replica"
     THEN /\ replica' = [replica EXCEPT ![Slot(task.stage).at] = Noise]
          /\ UNCHANGED <<secret, minted>>
     ELSE \/ /\ secret' = [secret EXCEPT !["file"] = minted + 1]
             /\ minted' = minted + 1
             /\ UNCHANGED replica
          \/ /\ secret' = [secret EXCEPT !["file"] = Truncated]
             /\ UNCHANGED <<replica, minted>>
  /\ Goto("unlink")
  /\ UNCHANGED <<active, faults, saves, crashes, wipes, Ghosts>>

WipeStage(ok) ==
  LET s == task.stage
  IN /\ task.op = "wipe" /\ s <= Len(WipeOrder)
     /\ task.at = "unlink" \/ (task.at = "delete" /\ (~Holds(s) \/ Slot(s).at = "keyring" \/ ~ok))
     /\ Access(ok)
     /\ IF ok THEN Erase(s) ELSE UNCHANGED <<secret, replica>>
     /\ task' = [task EXCEPT !.at = "delete", !.stage = s + 1, !.ok = @ /\ ok,
                             !.hit = @ \/ ~ok]
     /\ UNCHANGED <<active, Counters, Ghosts>>

(* protected_replica.and(file).and(root): one failure fails the wipe. *)
WipeResult(ok, gone) == ok

WipeEnd ==
  LET done == WipeResult(task.ok, secret["keyring"] = 0 /\ secret["file"] = 0)
  IN /\ task.op = "wipe" /\ task.stage > Len(WipeOrder)
     /\ active' = "unknown"
     /\ task' = [Idle EXCEPT !.op = "wipe", !.at = IF done THEN "wiped" ELSE "error",
                             !.hit = task.hit]
     /\ may' = IF done THEN {Nothing} ELSE may
     /\ torn' = ~done
     /\ UNCHANGED <<secret, replica, faults, Counters, kept>>

-----------------------------------------------------------------------------
(* The caller takes the answer; the process may die at any point of a call *)

Take ==
  /\ task.at \in {"found", "none", "conflict", "integrity", "error", "wiped"}
  /\ task' = Idle
  /\ UNCHANGED <<secret, replica, active, faults, Counters, Ghosts>>

Die ==
  /\ task # Idle
  /\ crashes < SMaxCrash
  /\ crashes' = crashes + 1
  /\ task' = Idle
  /\ active' = "unknown"
  /\ UNCHANGED <<secret, replica, minted, saves, faults, wipes, Ghosts>>

StoreInit ==
  /\ secret = [p \in {"keyring", "file"} |-> 0]
  /\ replica = [p \in {"keyring", "file", "backup"} |-> NoReplica]
  /\ task = Idle
  /\ active = "unknown"
  /\ minted = 0 /\ saves = 0 /\ faults = 0 /\ crashes = 0 /\ wipes = 0
  /\ may = {Nothing}
  /\ kept = NoMarks
  /\ torn = FALSE

StoreNext ==
  \/ LoadBegin
  \/ \E payload \in SPayload, marks \in Marks : SaveBegin(payload, marks)
  \/ WipeBegin
  \/ \E ok \in BOOLEAN :
       \/ LoadRoot(ok)
       \/ CheckEmpty(ok)
       \/ MintRoot(ok)
       \/ ReadProtected(ok)
       \/ ReadBackup(ok)
       \/ PutProtected(ok)
       \/ PutBackup(ok)
       \/ WipeStage(ok)
  \/ Scrub
  \/ WipeEnd
  \/ Take
  \/ Die

StoreSpec == StoreInit /\ [][StoreNext]_storeVars

-----------------------------------------------------------------------------
(* Properties *)

Returned(results) == task.at \in results

(* A load answers with the payload of the last acknowledged save or of one *)
(* that was interrupted after it, and with nothing only after a wipe has   *)
(* begun, whichever accesses fail and wherever the process dies in         *)
(* save_record, load_record and wipe.                                      *)
AckedSurvives ==
  task.op = "load" => /\ Returned({"found"}) => task.new.payload \in may
                      /\ Returned({"none"}) => Nothing \in may

(* The high-water marks a load returns cover those of every save that was  *)
(* acknowledged since the last wipe: resolve_replicas and save_record      *)
(* merge marks instead of taking the newest record's.                      *)
MarksNeverBack ==
  (task.op = "load" /\ Returned({"found"})) => CoversMarks(task.new.marks, kept)

(* Unless an access fails during the call itself, or a wipe was left       *)
(* unfinished, load and save never answer with an error: no interruption   *)
(* of save_record, root_for_save or a repair locks the store.              *)
NoLockout ==
  (task.op \in {"load", "save"} /\ Returned({"conflict", "integrity", "error"}))
     => task.hit \/ torn

(* A wipe that answers Ok left no copy and no secret, in the keyring, in   *)
(* the fallback files or in the backup.                                    *)
WipedIsGone ==
  Returned({"wiped"}) => /\ \A p \in DOMAIN replica : replica[p] = NoReplica
                         /\ \A p \in DOMAIN secret : secret[p] = 0

(* Whatever access fails or wherever the process dies, a save that was     *)
(* acknowledged is what the next load returns, the marks never go back, a  *)
(* sound record is never locked out and a wiped one is gone (save_record,  *)
(* load_record, wipe).                                                     *)
StoreKeeps == AckedSurvives /\ MarksNeverBack /\ NoLockout /\ WipedIsGone
=============================================================================
