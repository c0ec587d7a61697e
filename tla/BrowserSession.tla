---------------------------- MODULE BrowserSession ----------------------------
(***************************************************************************)
(* The web client: the session core compiled to wasm                       *)
(* (copylocker-wasm/src/session.rs), the TypeScript shell around it        *)
(* (packages/web/src/index.ts), its scheduler, its Worker bridge and the   *)
(* snapshot store in IndexedDB.                                            *)
(*                                                                         *)
(* A core operation is atomic: the Worker runs one at a time and the shell *)
(* adopts the answers in that order, so the operation and its adoption are *)
(* one step.  Between two awaits of the shell everything else may run: the *)
(* host's calls, the validation in flight, timers, network events, writes  *)
(* to the store, the failure of the Worker and a reload of the page.       *)
(*                                                                         *)
(* The server is the Worker as a browser sees it.  Certificate windows and *)
(* a clock that goes back are in module Client, over the same core.        *)
(***************************************************************************)
EXTENDS Integers, Sequences

CONSTANTS
    BRefresh,       \* refresh_after and grace_seconds of a credential
    BGrace,
    BEnd,           \* not_after, 0: none
    BMaxTime,       \* bound: the time horizon
    BMaxEpoch,      \* bound: signing epochs the server rotates through
    BMaxRev,        \* bound: revocations the server publishes
    BMaxSeat,       \* bound: activations
    BMaxReload,     \* bound: loads of the page after the first
    BMaxQueue       \* bound: writes waiting in the queue

ASSUME BrowserAssumption ==
    /\ {BRefresh, BGrace, BMaxEpoch} \subseteq Nat \ {0}
    /\ {BEnd, BMaxTime, BMaxRev, BMaxSeat, BMaxReload, BMaxQueue} \subseteq Nat

VARIABLES
    btime,      \* unixNow()
    bserver,    \* signing epoch, revocations, key set's and license's level, verdict, seats
    bcore,      \* Session: state machine, credential, ticket, chain and watermark
    bcall,      \* what activate(), validateNow() and deactivate() are waiting for
    bwrites,    \* writeQueue, with the snapshot a save has exported
    bstore,     \* the snapshot in IndexedDB
    bpage       \* a Worker that died, writes that failed, loads so far

bvars == <<btime, bserver, bcore, bcall, bwrites, bstore, bpage>>

NoCred == [m |-> 0, e |-> 0, rev |-> 0, at |-> 0]
NoTicket == [m |-> 0, e |-> 0, rev |-> 0, at |-> 0, verdict |-> "none"]
NoSnapshot == [saved |-> FALSE, cred |-> NoCred, ticket |-> NoTicket, certs |-> {}, max |-> 0]
Waiting == [pc |-> "idle", m |-> 0, ans |-> NoTicket, certs |-> {}, rev |-> 0]
Quiet == [activate |-> Waiting, validate |-> Waiting, deactivate |-> Waiting]

\* Session::new: nothing verified, nothing held.
NewSession == [state |-> "unlicensed", cred |-> NoCred, ticket |-> NoTicket, chain |-> FALSE,
               certs |-> {}, max |-> 0, pending |-> FALSE, refresh |-> 0, grace |-> 0]

BLater(a, b) == IF a > b THEN a ELSE b
BSooner(a, b) == IF a < b THEN a ELSE b

-----------------------------------------------------------------------------
(* The core: its state machine and what it verifies.                       *)

Held == {"active", "needs-revalidation", "grace", "locked"}
Permits(c) == c.cred # NoCred /\ c.state \in {"active", "needs-revalidation", "grace"}

BHard(t) == BEnd # 0 /\ t >= BEnd
BGraceOver(c, t) == t >= c.grace \/ BHard(t)

\* Event::Tick and Event::AppResumed.
BTick(c, t) ==
    [c EXCEPT !.state =
        CASE @ = "active" /\ BHard(t) -> "locked"
          [] @ = "active" /\ ~BHard(t) /\ t >= c.refresh -> "needs-revalidation"
          [] @ \in {"needs-revalidation", "grace"} /\ BGraceOver(c, t) -> "locked"
          [] OTHER -> @]
\* The tick that finds a refresh due, and network events, ask for a validation.
BTickAsks(c, t) == c.state = "active" /\ BTick(c, t).state = "needs-revalidation"
BNetworkAsks(c, t) ==
    \/ c.state \in {"needs-revalidation", "grace", "locked"}
    \/ c.state = "active" /\ t >= c.refresh

BNetworkFailed(c, t) ==
    [c EXCEPT !.state = CASE @ = "needs-revalidation" /\ BGraceOver(c, t) -> "locked"
                          [] @ = "needs-revalidation" /\ ~BGraceOver(c, t) -> "grace"
                          [] OTHER -> @]

\* The deadlines of a credential or of a ticket.
BDeadlines(c, at) ==
    LET refresh == at + BRefresh
        grace == refresh + BGrace
    IN  [c EXCEPT !.refresh = refresh,
                  !.grace = IF BEnd = 0 THEN grace ELSE BSooner(grace, BEnd)]

\* wipe_material: every secret and verified structure goes, the watermark stays.
WipeMaterial(c) ==
    [NewSession EXCEPT !.state = c.state, !.max = c.max, !.refresh = c.refresh, !.grace = c.grace]

\* fail_closed; a session that was revoked before stays revoked.
BFailClosed(c) ==
    WipeMaterial([c EXCEPT !.state = IF @ = "revoked" THEN @ ELSE "tampered"])

BVerifyKeyset(rev, known) == rev >= known

BVerifies(c, art) == art.e \in c.certs

\* open_machine_credential, for a credential of this device and this build.
BOpens(c, cred, t) ==
    /\ BVerifies(c, cred)
    /\ cred.rev >= c.max
    /\ cred.at <= t
    /\ ~BHard(t)

\* check_ticket and the semantic checks of a kill order.
BTicketOk(c, art) ==
    /\ BVerifies(c, art)
    /\ art.m = c.cred.m
    /\ art.rev >= c.max

\* ingest_ticket: watermark, deadlines, then the verdict's event.
BAcceptTicket(c, art) ==
    LET noted == BDeadlines([c EXCEPT !.max = BLater(@, art.rev), !.ticket = art], art.at)
    IN  [noted EXCEPT !.state = IF @ \notin Held THEN @
                                ELSE IF art.verdict = "ok" THEN "active" ELSE "locked"]

\* ingest_kill_order.
BKilled(c) ==
    WipeMaterial([c EXCEPT !.state = IF @ \in {"revoked", "tampered"} THEN @ ELSE "revoked"])

-----------------------------------------------------------------------------
(* Snapshots.                                                              *)

Export(c) ==
    [saved |-> TRUE, cred |-> c.cred, ticket |-> c.ticket, certs |-> c.certs, max |-> c.max]

\* op_snapshot_import and restore_ticket: nothing in the blob is trusted without
\* verification, and a ticket that denied use denies it again.
Import(s, t) ==
    LET blank == [NewSession EXCEPT !.certs = s.certs, !.max = s.max]
        held == BDeadlines([blank EXCEPT !.cred = s.cred, !.chain = TRUE, !.state = "active"], s.cred.at)
        noted == IF s.ticket = NoTicket THEN held
                 ELSE BDeadlines([held EXCEPT !.ticket = s.ticket], s.ticket.at)
        ticked == BTick(noted, t)
    IN  IF s.cred = NoCred THEN blank
        ELSE IF ~BOpens(blank, s.cred, t) THEN BFailClosed(blank)
        ELSE IF s.ticket # NoTicket /\ ~BTicketOk(held, s.ticket) THEN BFailClosed(held)
        ELSE IF s.ticket.verdict = "denied" THEN [ticked EXCEPT !.state = "locked"]
        ELSE ticked

-----------------------------------------------------------------------------
(* The shell's own steps.                                                  *)

Alive == ~bpage.dead
idle == <<btime, bserver, bstore>>

\* adopt: what the core reports is displayed, its effects enter the write queue.
Enqueue(kinds) ==
    /\ Len(bwrites.todo) + Len(kinds) <= BMaxQueue
    /\ bwrites' = [bwrites EXCEPT !.todo = @ \o kinds]
Return(call) == bcall' = [bcall EXCEPT ![call] = Waiting]
Await(call, pc) == bcall' = [bcall EXCEPT ![call] = [@ EXCEPT !.pc = pc]]

\* validateNow, when the core asks for it or unseal() finds the session stale:
\* one at a time, and without a credential no request is built.
Validates(c, asks) == asks /\ bcall.validate.pc = "idle" /\ c.cred # NoCred
Asked(c, asks) == IF Validates(c, asks) THEN [c EXCEPT !.pending = TRUE] ELSE c
Called(c, asks) ==
    IF Validates(c, asks)
    THEN [bcall EXCEPT !.validate = [Waiting EXCEPT !.pc = "post", !.m = c.cred.m]]
    ELSE bcall
Step(c, asks) ==
    /\ Alive
    /\ bcore' = Asked(c, asks) /\ bcall' = Called(c, asks)
    /\ UNCHANGED <<idle, bwrites, bpage>>

\* The recursive timer, a wake-up and visibilitychange.
BrowserTick == Step(BTick(bcore, btime), BTickAsks(bcore, btime))

\* The `online` event and hintOnline().
BrowserOnline == Step(bcore, BNetworkAsks(bcore, btime))

\* unseal() and loadSealed(): a stale session revalidates in the background;
\* the derivation runs the clock guard first.
Unseal == Step(BTick(bcore, btime), bcore.refresh > 0 /\ btime >= bcore.refresh)

\* activate(): the key set first.  The page awaits a call before it makes the next
\* of the same kind; nothing in the session enforces it.
ActivateCall ==
    /\ Alive /\ bcall.activate.pc = "idle"
    /\ Await("activate", "keys")
    /\ UNCHANGED <<idle, bcore, bwrites, bpage>>

IngestKeyset ==
    LET call == bcall.activate
    IN  /\ Alive /\ call.pc = "keyset"
        /\ IF BVerifyKeyset(call.rev, bcore.max)
           THEN /\ bcore' = [bcore EXCEPT !.certs = call.certs, !.chain = TRUE,
                                          !.max = BLater(@, call.rev)]
                /\ Await("activate", "build")
           ELSE bcore' = BFailClosed(bcore) /\ Return("activate")
        /\ UNCHANGED <<idle, bwrites, bpage>>

\* op_build_activate_request: an installed credential refuses it.
BuildActivate ==
    /\ Alive /\ bcall.activate.pc = "build"
    /\ IF bcore.cred = NoCred THEN Await("activate", "post") ELSE Return("activate")
    /\ UNCHANGED <<idle, bcore, bwrites, bpage>>

\* op_ingest_activate_response, then the explicit save.
IngestActivate ==
    LET cred == [m |-> bcall.activate.ans.m, e |-> bcall.activate.ans.e,
                 rev |-> bcall.activate.ans.rev, at |-> bcall.activate.ans.at]
    IN  /\ Alive /\ bcall.activate.pc = "answer"
        /\ Return("activate")
        /\ \/ /\ bcore.cred # NoCred \/ ~bcore.chain
              /\ UNCHANGED <<bcore, bwrites>>
           \/ /\ bcore.cred = NoCred /\ bcore.chain /\ BOpens(bcore, cred, btime)
              /\ bcore' = BDeadlines([bcore EXCEPT !.cred = cred, !.state = "active",
                                                   !.max = BLater(@, cred.rev)], cred.at)
              /\ Enqueue(<<"save">>)
           \/ /\ bcore.cred = NoCred /\ bcore.chain /\ ~BOpens(bcore, cred, btime)
              /\ bcore' = BFailClosed(bcore) /\ UNCHANGED bwrites
        /\ UNCHANGED <<idle, bpage>>

\* op_ingest_validate_response, by the answer: a ticket, a kill order, or an
\* error of the transport, which the core hears of as a network failure.
IngestValidate ==
    LET art == bcall.validate.ans
        taken == [bcore EXCEPT !.pending = FALSE]
        usable == bcore.pending /\ bcore.cred # NoCred /\ bcore.chain
    IN  /\ Alive /\ bcall.validate.pc = "answer"
        /\ Return("validate")
        /\ \/ /\ art.verdict = "none"
              /\ bcore' = BNetworkFailed(bcore, btime) /\ UNCHANGED bwrites
           \/ /\ art.verdict # "none" /\ ~usable
              /\ bcore' = taken /\ UNCHANGED bwrites
           \/ /\ art.verdict # "none" /\ usable /\ ~BTicketOk(bcore, art)
              /\ bcore' = BFailClosed(bcore) /\ UNCHANGED bwrites
           \/ /\ art.verdict \in {"ok", "denied"} /\ usable /\ BTicketOk(bcore, art)
              /\ bcore' = BAcceptTicket(taken, art) /\ Enqueue(<<"save">>)
           \/ /\ art.verdict = "kill" /\ usable /\ BTicketOk(bcore, art)
              /\ bcore' = BKilled(bcore) /\ Enqueue(<<"clear", "save">>)
        /\ UNCHANGED <<idle, bpage>>

\* deactivate(): the server's acknowledgement first, then the local wipe.
DeactivateCall ==
    /\ Alive /\ bcall.deactivate.pc = "idle" /\ bcore.cred # NoCred
    /\ bcall' = [bcall EXCEPT !.deactivate = [Waiting EXCEPT !.pc = "post", !.m = bcore.cred.m]]
    /\ UNCHANGED <<idle, bcore, bwrites, bpage>>

UserDeactivate ==
    /\ Alive /\ bcall.deactivate.pc = "answer"
    /\ Return("deactivate")
    /\ bcore' = WipeMaterial([bcore EXCEPT !.state = IF @ \in Held THEN "unlicensed" ELSE @])
    /\ IF bcore.state \in Held THEN Enqueue(<<"clear">>) ELSE UNCHANGED bwrites
    /\ UNCHANGED <<idle, bpage>>

-----------------------------------------------------------------------------
(* The store: one write at a time, in the order they were asked for.       *)

\* persistSnapshot: the task exports when its turn comes.
WriteExport ==
    /\ bwrites.todo # <<>> /\ Head(bwrites.todo) = "save" /\ ~bwrites.blob.saved /\ Alive
    /\ bwrites' = [bwrites EXCEPT !.blob = Export(bcore)]
    /\ UNCHANGED <<idle, bcore, bcall, bpage>>

Written == [todo |-> Tail(bwrites.todo), blob |-> NoSnapshot]

\* Variant: a write does not wait for the ones before it.
WriteLandsUnordered ==
    /\ \E i \in 1..Len(bwrites.todo) :
        LET rest == SubSeq(bwrites.todo, 1, i - 1) \o SubSeq(bwrites.todo, i + 1, Len(bwrites.todo))
        IN  \/ /\ bwrites.todo[i] = "save" /\ bwrites.blob.saved /\ bstore' = bwrites.blob
               /\ bwrites' = [todo |-> rest, blob |-> NoSnapshot]
            \/ /\ bwrites.todo[i] = "clear" /\ bstore' = NoSnapshot
               /\ bwrites' = [bwrites EXCEPT !.todo = rest]
    /\ UNCHANGED <<btime, bserver, bcore, bcall, bpage>>

WriteLands ==
    /\ bwrites.todo # <<>>
    /\ \/ Head(bwrites.todo) = "save" /\ bwrites.blob.saved /\ bstore' = bwrites.blob
       \/ Head(bwrites.todo) = "clear" /\ bstore' = NoSnapshot
    /\ bwrites' = Written
    /\ UNCHANGED <<btime, bserver, bcore, bcall, bpage>>

\* A failing store, or a dead Worker that cannot export, is never fatal.
WriteFails ==
    /\ bwrites.todo # <<>>
    /\ bwrites' = Written
    /\ bpage' = [bpage EXCEPT !.failed = TRUE]
    /\ UNCHANGED <<idle, bcore, bcall>>

-----------------------------------------------------------------------------
(* The page and the network.                                               *)

\* WorkerSessionClient.failAll: every operation from now on is rejected.
WorkerDies ==
    /\ Alive /\ bpage' = [bpage EXCEPT !.dead = TRUE]
    /\ UNCHANGED <<idle, bcore, bcall, bwrites>>

Rejected(call) ==
    /\ ~Alive /\ bcall[call].pc \in {"answer", "keyset", "build"}
    /\ Return(call)
    /\ UNCHANGED <<idle, bcore, bwrites, bpage>>

\* create() and restore(): an unusable snapshot is wiped and a fresh device saved.
Reload ==
    LET c == IF bstore.saved THEN Import(bstore, btime) ELSE NewSession
        fresh == ~bstore.saved \/ c.state = "tampered"
        asks == ~fresh /\ c.cred # NoCred /\ btime >= c.refresh /\ ~BHard(btime)
    IN  /\ bpage.loads < BMaxReload
        /\ bpage' = [dead |-> FALSE, failed |-> bpage.failed, loads |-> bpage.loads + 1]
        /\ bcore' = IF asks THEN [c EXCEPT !.pending = TRUE] ELSE c
        /\ bcall' = IF asks THEN [Quiet EXCEPT !.validate = [Waiting EXCEPT !.pc = "post", !.m = c.cred.m]]
                    ELSE Quiet
        /\ bstore' = IF fresh THEN NoSnapshot ELSE bstore
        /\ bwrites' = [todo |-> IF fresh THEN <<"save">> ELSE <<>>, blob |-> NoSnapshot]
        /\ UNCHANGED <<btime, bserver>>

BrowserClock ==
    /\ btime < BMaxTime /\ btime' = btime + 1
    /\ UNCHANGED <<bserver, bcore, bcall, bwrites, bstore, bpage>>

\* The server's side of the calls; an answer may be lost after it took effect.
Answered(call, art) ==
    \/ bcall' = [bcall EXCEPT ![call] = [@ EXCEPT !.pc = "answer", !.ans = art]]
    \/ bcall' = [bcall EXCEPT ![call] = IF call = "validate" THEN [@ EXCEPT !.pc = "answer"] ELSE Waiting]

Unserved == <<btime, bcore, bwrites, bstore, bpage>>

ServeKeyset ==
    /\ bcall.activate.pc = "keys"
    /\ bcall' = [bcall EXCEPT !.activate = [@ EXCEPT !.pc = "keyset", !.certs = 1..bserver.epoch,
                                                     !.rev = bserver.keysetRev]]
    /\ UNCHANGED <<Unserved, bserver>>

\* reserve and complete: the same device keeps the seat it holds.
ServeActivation ==
    LET m == IF bserver.held # 0 THEN bserver.held ELSE bserver.seats + 1
    IN  /\ bcall.activate.pc = "post"
        /\ bserver.verdict # "kill"
        /\ m <= BMaxSeat
        /\ bserver' = [bserver EXCEPT !.held = m, !.seats = BLater(@, m)]
        /\ Answered("activate", [m |-> m, e |-> bserver.epoch, rev |-> bserver.seen,
                                 at |-> btime, verdict |-> "ok"])
        /\ UNCHANGED Unserved

\* A seat that is not held any more is refused, which the shell takes for a
\* transport error.
ServeValidation ==
    LET m == bcall.validate.m
    IN  /\ bcall.validate.pc = "post"
        /\ IF m = bserver.held
           THEN /\ bserver' = [bserver EXCEPT !.seen = bserver.rev]
                /\ Answered("validate", [m |-> m, e |-> bserver.epoch, rev |-> bserver.rev,
                                         at |-> btime, verdict |-> bserver.verdict])
           ELSE bserver' = bserver /\ Answered("validate", NoTicket)
        /\ UNCHANGED Unserved

ServeDeactivation ==
    /\ bcall.deactivate.pc = "post"
    /\ bserver' = [bserver EXCEPT !.held = IF @ = bcall.deactivate.m THEN 0 ELSE @]
    /\ Answered("deactivate", NoTicket)
    /\ UNCHANGED Unserved

\* The transport gives up: activate() and deactivate() throw to the host, a
\* validation reports a network failure.
Unreachable(call) ==
    /\ bcall[call].pc \in {"keys", "post"}
    /\ bcall' = [bcall EXCEPT ![call] = IF call = "validate" THEN [@ EXCEPT !.pc = "answer"] ELSE Waiting]
    /\ UNCHANGED <<Unserved, bserver>>

\* The server rotates its signing epoch, publishes a revocation of someone
\* else, or changes what it thinks of the license.
Rotate ==
    /\ bserver.epoch < BMaxEpoch
    /\ bserver' = [bserver EXCEPT !.epoch = @ + 1, !.keysetRev = bserver.rev]
    /\ UNCHANGED <<Unserved, bcall>>
Publish ==
    /\ bserver.rev < BMaxRev
    /\ bserver' = [bserver EXCEPT !.rev = @ + 1]
    /\ UNCHANGED <<Unserved, bcall>>
Judge(verdict) ==
    /\ bserver.verdict \notin {verdict, "kill"}
    /\ bserver' = [bserver EXCEPT !.verdict = verdict]
    /\ UNCHANGED <<Unserved, bcall>>

BrowserInit ==
    /\ btime = 0
    /\ bserver = [epoch |-> 1, rev |-> 0, keysetRev |-> 0, seen |-> 0, verdict |-> "ok",
                  held |-> 0, seats |-> 0]
    /\ bcore = NewSession /\ bcall = Quiet
    /\ bwrites = [todo |-> <<"save">>, blob |-> NoSnapshot]
    /\ bstore = NoSnapshot
    /\ bpage = [dead |-> FALSE, failed |-> FALSE, loads |-> 0]

Shell ==
    \/ BrowserTick \/ BrowserOnline \/ Unseal
    \/ ActivateCall \/ IngestKeyset \/ BuildActivate \/ IngestActivate
    \/ IngestValidate \/ DeactivateCall \/ UserDeactivate
Serving == ServeKeyset \/ ServeActivation \/ ServeValidation \/ ServeDeactivation
Operating == Rotate \/ Publish \/ \E v \in {"ok", "denied", "kill"} : Judge(v)
Writing == WriteExport \/ WriteLands

BrowserNext ==
    \/ Shell \/ Serving \/ Operating \/ Writing
    \/ WriteFails \/ WorkerDies \/ Reload \/ BrowserClock
    \/ \E call \in DOMAIN Quiet : Rejected(call) \/ Unreachable(call)

BrowserSpec == BrowserInit /\ [][BrowserNext]_bvars

-----------------------------------------------------------------------------
(* Properties.                                                             *)

\* No epoch was rotated and no revocation published.
Settled == bserver.epoch = 1 /\ bserver.rev = 0

\* Store writes land in the order they were asked for: once the queue is empty,
\* the snapshot on disk belongs to the session in memory, so a slow save never
\* brings back what a deactivation or a kill order wiped (writeQueue).  A failed
\* write, a dead Worker and a session that failed closed are the exceptions the
\* shell accepts.
NoResurrection ==
    (bwrites.todo = <<>> /\ Alive /\ ~bpage.failed /\ bcore.state # "tampered")
        => bstore.cred \in {NoCred, bcore.cred}

\* A ticket that denied productive use keeps denying it, whatever ticks, network
\* events and reloads follow, until another ticket or a new activation
\* (op_snapshot_import replays the verdict).
DeniedStaysDenied == bcore.ticket.verdict = "denied" => ~Permits(bcore)

\* Against a server that changed nothing, no interleaving of activation,
\* validation, deactivation, lost answers and reloads makes the core fail
\* closed: a late answer finds its nonce wiped (pending_validate_nonce).
LateAnswersHarmless == Settled => bcore.state # "tampered"

\* A page that reloads comes back with the credential its snapshot holds,
\* whatever the server did meanwhile (persistSnapshot, op_snapshot_import).
ReloadAlwaysKeepsLicense ==
    [][(bpage'.loads > bpage.loads /\ bstore.cred # NoCred /\ ~BHard(btime))
            => bcore'.cred = bstore.cred]_bvars

\* An answer or a save that comes late neither brings a wiped session back
\* nor turns a sound one into a tampered one, and a denial lasts over a
\* reload (pending_validate_nonce, writeQueue, op_snapshot_import).
WipedStaysWiped == LateAnswersHarmless /\ DeniedStaysDenied /\ NoResurrection
=============================================================================
