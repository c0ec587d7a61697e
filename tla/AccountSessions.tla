--------------------------- MODULE AccountSessions ---------------------------
(***************************************************************************)
(* Mode E sign-in: the login, refresh and logout handlers of account.rs,   *)
(* the per-account Durable Object behind them (durable/account.rs), the    *)
(* account row in D1 and the activation that resolves an access token.     *)
(*                                                                         *)
(* A handler's calls to the object are separate steps; each call is atomic.*)
(* Tokens are the numbers of the pairs that were issued: a pair is one     *)
(* access and one refresh token.  `family` remembers the sign-in a pair    *)
(* descends from.                                                          *)
(***************************************************************************)
EXTENDS Naturals, FiniteSets

CONSTANTS SignIn,        \* handlers, as numbers from 1
          MaxPairs,      \* bound on the pairs issued
          MaxAttempts,   \* bound on the attempts recorded
          AccountTime,   \* bound on the clock
          MAX_FAILED_ATTEMPTS, FAILURE_WINDOW, ATTEMPT_RETENTION,
          ACCESS_TTL, REFRESH_TTL,
          MaxDevices     \* the account's max_devices; 0 is unlimited

ASSUME AccountAssumption ==
    /\ SignIn \subseteq Nat /\ IsFiniteSet(SignIn)
    /\ MaxPairs \in Nat /\ MaxAttempts \in Nat /\ AccountTime \in Nat /\ MaxDevices \in Nat
    /\ MAX_FAILED_ATTEMPTS \in Nat \ {0}
    /\ FAILURE_WINDOW \in Nat \ {0}
    /\ ATTEMPT_RETENTION \in Nat /\ ATTEMPT_RETENTION >= FAILURE_WINDOW
    /\ ACCESS_TTL \in Nat \ {0}
    /\ REFRESH_TTL \in Nat /\ REFRESH_TTL > ACCESS_TTL

VARIABLES
    acctNow,      \* the clock
    account,      \* the D1 row: "absent", "active" or "disabled"
    attempts,     \* login_attempts per object: [n, at, ok]; the unknown identity
                  \* has an object of its own
    sessions,     \* sessions rows of the account's object
    pairs,        \* number of pairs issued
    family,       \* history: pair -> the sign-in it descends from
    rotations,    \* history: pair -> how often its refresh token was exchanged
    sign          \* the handlers

acctVars == <<acctNow, account, attempts, sessions, pairs, family, rotations, sign>>

Object == {"unknown", "account"}
NoSign == [pc |-> "idle", kind |-> "none", object |-> "unknown", known |-> FALSE,
           ok |-> FALSE, token |-> 0, at |-> 0]

AccountInit ==
    /\ acctNow = 0 /\ account \in {"absent", "active"}
    /\ attempts = [o \in Object |-> {}]
    /\ sessions = {} /\ pairs = 0
    /\ family = << >> /\ rotations = << >>
    /\ sign = [h \in SignIn |-> NoSign]

-----------------------------------------------------------------------------
(* The Durable Object. *)

(* recent_failures and the gate: failed attempts inside the window.         *)
Failures(object, t) == {x \in attempts[object] : ~x.ok /\ x.at + FAILURE_WINDOW > t}
GateOpen(object, t) == Cardinality(Failures(object, t)) < MAX_FAILED_ATTEMPTS

Pair(p, t) ==
    {[token |-> p, kind |-> "access", pair |-> p, expires |-> t + ACCESS_TTL, revoked |-> FALSE],
     [token |-> p, kind |-> "refresh", pair |-> p, expires |-> t + REFRESH_TTL, revoked |-> FALSE]}

(* session_is_active. *)
Active(s, t) == ~s.revoked /\ s.expires > t
ActiveTokenUnexpired(p, kind, t) ==
    \E s \in sessions : s.token = p /\ s.kind = kind /\ s.expires > t
ActiveToken(p, kind, t) == \E s \in sessions : s.token = p /\ s.kind = kind /\ Active(s, t)

(* Revocation by the pair link takes the access and the refresh token.      *)
RevokedPair(p) == {IF s.pair = p THEN [s EXCEPT !.revoked = TRUE] ELSE s : s \in sessions}

(* session_issue counts the access sessions that are active now.            *)
DeviceFree(t) ==
    MaxDevices = 0
    \/ Cardinality({s \in sessions : s.kind = "access" /\ Active(s, t)}) < MaxDevices

(* alarm: expired sessions and old attempts go.                             *)
AccountAlarm ==
    /\ sessions' = {s \in sessions : s.expires > acctNow}
    /\ attempts' = [o \in Object |->
                      {x \in attempts[o] : x.at + ATTEMPT_RETENTION > acctNow}]
    /\ <<sessions', attempts'>> # <<sessions, attempts>>
    /\ UNCHANGED <<acctNow, account, pairs, family, rotations, sign>>

-----------------------------------------------------------------------------
(* The handlers. *)

(* login: the account row decides the object that keeps the attempts.       *)
LoginStart(h) ==
    /\ sign[h].pc = "idle"
    /\ sign' = [sign EXCEPT ![h] =
         [NoSign EXCEPT !.pc = "gate", !.kind = "login", !.at = acctNow,
            !.known = account = "active",
            !.object = IF account = "absent" THEN "unknown" ELSE "account"]]
    /\ UNCHANGED <<acctNow, account, attempts, sessions, pairs, family, rotations>>

(* login-gate, then the password check: only a known account can succeed.   *)
LoginGate(h, right) ==
    /\ sign[h].pc = "gate" /\ sign[h].kind = "login"
    /\ sign' = [sign EXCEPT ![h] = IF GateOpen(sign[h].object, sign[h].at)
                                   THEN [@ EXCEPT !.pc = "record", !.ok = right /\ sign[h].known]
                                   ELSE NoSign]
    /\ UNCHANGED <<acctNow, account, attempts, sessions, pairs, family, rotations>>

(* login-record; when it fails the login goes on.                           *)
LoginRecord(h, lost) ==
    LET n == Cardinality(attempts["unknown"]) + Cardinality(attempts["account"]) + 1 IN
    /\ sign[h].pc = "record"
    /\ lost \/ n <= MaxAttempts
    /\ attempts' = IF lost THEN attempts
                   ELSE [attempts EXCEPT ![sign[h].object] =
                           @ \union {[n |-> n, at |-> sign[h].at, ok |-> sign[h].ok]}]
    /\ sign' = [sign EXCEPT ![h] = IF sign[h].ok THEN [@ EXCEPT !.pc = "issue"]
                                   ELSE NoSign]
    /\ UNCHANGED <<acctNow, account, sessions, pairs, family, rotations>>

NewPair(from) ==
    /\ pairs' = pairs + 1
    /\ family' = [p \in 1..(pairs + 1) |-> IF p <= pairs THEN family[p] ELSE from]
    /\ rotations' = [p \in 1..(pairs + 1) |-> IF p <= pairs THEN rotations[p] ELSE 0]

(* session_issue at the end of the login.                                   *)
SessionIssue(h) ==
    /\ sign[h].pc = "issue" /\ pairs < MaxPairs
    /\ IF DeviceFree(sign[h].at)
       THEN /\ sessions' = sessions \union Pair(pairs + 1, sign[h].at)
            /\ NewPair(pairs + 1)
            /\ sign' = [sign EXCEPT ![h] = NoSign]
       ELSE /\ sign' = [sign EXCEPT ![h] = NoSign]
            /\ UNCHANGED <<sessions, pairs, family, rotations>>
    /\ UNCHANGED <<acctNow, account, attempts>>

(* refresh: the account must be active in D1, then session_refresh.         *)
RefreshStart(h, p) ==
    /\ sign[h].pc = "idle" /\ account = "active"
    /\ sign' = [sign EXCEPT ![h] = [NoSign EXCEPT !.pc = "refresh", !.kind = "refresh",
                                                  !.token = p, !.at = acctNow]]
    /\ UNCHANGED <<acctNow, account, attempts, sessions, pairs, family, rotations>>
SessionRefresh(h) ==
    LET p == sign[h].token IN
    /\ sign[h].pc = "refresh" /\ pairs < MaxPairs
    /\ IF ActiveToken(p, "refresh", sign[h].at)
       THEN /\ sessions' = RevokedPair(p) \union Pair(pairs + 1, sign[h].at)
            /\ pairs' = pairs + 1
            /\ family' = [q \in 1..(pairs + 1) |-> IF q <= pairs THEN family[q] ELSE family[p]]
            /\ rotations' = [q \in 1..(pairs + 1) |->
                               IF q > pairs THEN 0 ELSE rotations[q] + IF q = p THEN 1 ELSE 0]
            /\ sign' = [sign EXCEPT ![h] = NoSign]
       ELSE /\ sign' = [sign EXCEPT ![h] = NoSign]
            /\ UNCHANGED <<sessions, pairs, family, rotations>>
    /\ UNCHANGED <<acctNow, account, attempts>>

(* logout: session_revoke by the refresh token, known or not.               *)
Logout(p) ==
    /\ sessions' = RevokedPair(p) /\ sessions' # sessions
    /\ UNCHANGED <<acctNow, account, attempts, pairs, family, rotations, sign>>

(* accounts.rs create; an operator disables the account in D1.              *)
AccountChange ==
    /\ account' = CASE account = "absent" -> "active"
                    [] account = "active" -> "disabled"
                    [] OTHER -> "active"
    /\ UNCHANGED <<acctNow, attempts, sessions, pairs, family, rotations, sign>>

AccountTick ==
    /\ acctNow < AccountTime
    /\ \A h \in SignIn : sign[h].pc = "idle" \/ sign[h].at = acctNow
    /\ acctNow' = acctNow + 1
    /\ UNCHANGED <<account, attempts, sessions, pairs, family, rotations, sign>>

(* The steps that matter to the gate, and those that matter to sessions;    *)
(* `lost` and `right` range over what may happen to a record and be typed.  *)
LoginStep(h, lost, right) ==
    \/ LoginStart(h)
    \/ \E b \in right : LoginGate(h, b)
    \/ \E b \in lost : LoginRecord(h, b)
SessionStep(h) ==
    SessionIssue(h) \/ SessionRefresh(h) \/ \E p \in 1..pairs : RefreshStart(h, p) \/ Logout(p)

AccountNext ==
    \/ \E h \in SignIn : LoginStep(h, BOOLEAN, BOOLEAN) \/ SessionStep(h)
    \/ AccountAlarm \/ AccountChange \/ AccountTick

AccountSpec == AccountInit /\ [][AccountNext]_acctVars

-----------------------------------------------------------------------------
(* Properties. *)

(* A sign-in has at most one usable access token and one usable refresh     *)
(* token at any time, however refreshes with old and new tokens overlap:    *)
(* session_refresh revokes the presented pair before it inserts the next.   *)
OneLivePerSignIn ==
    \A s, u \in sessions :
        (/\ Active(s, acctNow) /\ Active(u, acctNow)
         /\ s.kind = u.kind /\ family[s.pair] = family[u.pair]) => s = u

(* "a replayed refresh token can never extend a session": a refresh token   *)
(* is exchanged at most once.                                               *)
RefreshedOnce == \A p \in 1..pairs : rotations[p] <= 1

(* The gate is read before the attempt is recorded, so handlers that passed *)
(* it together may record together: the failures inside one window exceed   *)
(* the limit by less than the number of handlers.                           *)
FailuresBounded ==
    \A o \in Object :
        Cardinality(Failures(o, acctNow)) < MAX_FAILED_ATTEMPTS + Cardinality(SignIn)

(* Without refreshes the cap on devices holds: as many access sessions are  *)
(* usable at once as the account allows.  (A refresh is not counted; see    *)
(* DeviceCap.)                                                              *)
SignInCap ==
    MaxDevices > 0 =>
        Cardinality({s \in sessions : /\ s.kind = "access" /\ family[s.pair] = s.pair
                                      /\ Active(s, acctNow)}) <= MaxDevices

(* "max_devices caps the number of concurrent access sessions for the       *)
(* account" (session_issue): violated, since a session whose access token   *)
(* has run out is not counted when another is issued and is then refreshed. *)
DeviceCap ==
    MaxDevices > 0 =>
        Cardinality({s \in sessions : s.kind = "access" /\ Active(s, acctNow)}) <= MaxDevices

(* "Only failed attempts count, so a successful login immediately restores  *)
(* access for a legitimate user" (login_gate): violated, since a success    *)
(* does not reset the failures before it.                                   *)
SuccessRestores ==
    \A o \in Object : \A x \in attempts[o] :
        (/\ x.ok /\ x.at + FAILURE_WINDOW > acctNow
         /\ \A y \in attempts[o] : y.n > x.n => y.ok)
        => GateOpen(o, acctNow)

(* A sign-in has one live token pair, a refresh token works once, and      *)
(* sign-ins and failed attempts stay within their limits, whichever        *)
(* requests overlap (session_issue, session_refresh, login_gate).          *)
SessionsBounded == OneLivePerSignIn /\ RefreshedOnce /\ FailuresBounded /\ SignInCap

-----------------------------------------------------------------------------
(* What SessionsBounded rests on. *)

SessionRow == [token : 1..pairs, kind : {"access", "refresh"}, pair : 1..pairs,
               expires : Nat, revoked : BOOLEAN]
SignInHandler == [pc : {"idle", "gate", "record", "issue", "refresh"},
                  kind : {"none", "login", "refresh"}, object : Object, known : BOOLEAN,
                  ok : BOOLEAN, token : Nat, at : Nat]

(* The shape of the rows and of the handlers; a handler read the clock      *)
(* before, and a pair descends from itself or from an older one.            *)
AccountTypes ==
    /\ acctNow \in Nat /\ pairs \in Nat
    /\ attempts \in [Object -> SUBSET [n : Nat, at : Nat, ok : BOOLEAN]]
    /\ \A o \in Object : IsFiniteSet(attempts[o])
    /\ sessions \subseteq SessionRow /\ IsFiniteSet(sessions)
    /\ family \in [1..pairs -> 1..pairs]
    /\ rotations \in [1..pairs -> Nat]
    /\ sign \in [SignIn -> SignInHandler]
    /\ \A h \in SignIn : sign[h].at <= acctNow

(* Of all pairs that descend from one sign-in only one has tokens that are  *)
(* not revoked, expired or not; and a pair whose refresh token was          *)
(* exchanged is revoked.                                                    *)
Lineage ==
    /\ \A s \in sessions : s.token = s.pair
    /\ \A s, u \in sessions : s.pair = u.pair /\ s.kind = u.kind => s = u
    /\ \A s, u \in sessions :
          ~s.revoked /\ ~u.revoked /\ family[s.pair] = family[u.pair] => s.pair = u.pair
    /\ \A s \in sessions : rotations[s.pair] > 0 => s.revoked
    /\ RefreshedOnce

(* The logins past the gate whose failure is still to be recorded: with     *)
(* them the failures inside the window stay within the bound.               *)
Recording(o) == {h \in SignIn : sign[h].pc = "record" /\ sign[h].object = o /\ ~sign[h].ok}
GateInv ==
    \A o \in Object : Cardinality(Failures(o, acctNow)) + Cardinality(Recording(o))
                         < MAX_FAILED_ATTEMPTS + Cardinality(SignIn)

SessionsInv == AccountTypes /\ Lineage /\ GateInv /\ SignInCap
=============================================================================
