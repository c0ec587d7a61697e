--------------------------- MODULE AccountProofs ---------------------------
(***************************************************************************)
(* Sessions and failed attempts stay bounded for any number of handlers    *)
(* that overlap between the gate, the record and the issue.  The inductive *)
(* invariant is SessionsInv.                                               *)
(***************************************************************************)
EXTENDS AccountSessions, FiniteSetTheorems, TLAPS

USE AccountAssumption DEF Object

(* A subset has no more elements than the finite set it is taken from: what *)
(* an alarm, an expiry or a revocation leaves is counted with this.         *)
LEMMA Fewer ==
    ASSUME NEW S, IsFiniteSet(S), NEW T, T \subseteq S
    PROVE  IsFiniteSet(T) /\ Cardinality(T) \in Nat /\ Cardinality(S) \in Nat
           /\ Cardinality(T) <= Cardinality(S)
<1>1. T \in SUBSET S  OBVIOUS
<1>. QED  BY <1>1, FS_Subset, FS_CardinalityType, Zenon

(* One more element adds at most one (login-record, session_issue).         *)
LEMMA OneMore ==
    ASSUME NEW S, IsFiniteSet(S), NEW x, NEW T, T \subseteq S \union {x}
    PROVE  IsFiniteSet(T) /\ Cardinality(T) \in Nat /\ Cardinality(S) \in Nat
           /\ Cardinality(T) <= Cardinality(S) + 1
<1>1. IsFiniteSet(S \union {x})  BY FS_AddElement, Zenon
<1>2. Cardinality(S \union {x}) = Cardinality(S) \/ Cardinality(S \union {x}) = Cardinality(S) + 1
  BY FS_AddElement, Zenon
<1>3. Cardinality(S) \in Nat  BY FS_CardinalityType, Zenon
<1>4. IsFiniteSet(T) /\ Cardinality(T) \in Nat /\ Cardinality(T) <= Cardinality(S \union {x})
  BY <1>1, Fewer, Zenon
<1>. QED  BY <1>2, <1>3, <1>4

(* Revocation by the pair link keeps the rows' number finite.               *)
LEMMA RevokedFinite ==
    ASSUME IsFiniteSet(sessions), NEW p
    PROVE  IsFiniteSet(RevokedPair(p))
<1>. DEFINE R == {[s EXCEPT !.revoked = TRUE] : s \in sessions}
<1>. DEFINE f == [s \in sessions |-> [s EXCEPT !.revoked = TRUE]]
<1>1. f \in Surjection(sessions, R)  BY Zenon DEF Surjection
<1>. HIDE DEF f, R
<1>2. IsFiniteSet(R)  BY <1>1, FS_Surjection
<1>3. IsFiniteSet(sessions \union R)  BY <1>2, FS_Union, Zenon
<1>4. RevokedPair(p) \subseteq sessions \union R  BY DEF RevokedPair, R
<1>. QED  BY <1>3, <1>4, Fewer, Zenon

(* A row after the revocation of a pair is a row from before, revoked if it *)
(* is one of that pair.                                                     *)
LEMMA RevokedRow ==
    ASSUME AccountTypes, NEW p, NEW s \in RevokedPair(p)
    PROVE  /\ s \in SessionRow
           /\ \E u \in sessions : /\ s.token = u.token /\ s.kind = u.kind /\ s.pair = u.pair
                                  /\ s.expires = u.expires
                                  /\ u.revoked => s.revoked
                                  /\ s.pair = p => s.revoked
                                  /\ ~s.revoked => s = u
                                  /\ s.pair # p => s = u
<1>1. PICK u \in sessions : s = IF u.pair = p THEN [u EXCEPT !.revoked = TRUE] ELSE u
  BY DEF RevokedPair
<1>2. u \in SessionRow  BY DEF AccountTypes
<1>3. CASE u.pair = p
  <2>1. s = [u EXCEPT !.revoked = TRUE]  BY <1>1, <1>3
  <2>2. s \in SessionRow /\ s.revoked = TRUE /\ s.token = u.token /\ s.kind = u.kind
        /\ s.pair = u.pair /\ s.expires = u.expires
    BY <1>2, <2>1, Zenon DEF SessionRow
  <2>. QED  BY <2>2, <1>3
<1>4. CASE u.pair # p
  <2>1. s = u  BY <1>1, <1>4
  <2>. QED  BY <2>1, <1>2, <1>4
<1>. QED  BY <1>3, <1>4

(* Revocation keeps a pair's rows apart by their kind.                      *)
LEMMA RevokedAlike ==
    ASSUME AccountTypes, Lineage, NEW p, NEW s \in RevokedPair(p), NEW v \in RevokedPair(p),
           s.pair = v.pair, s.kind = v.kind
    PROVE  s = v
<1>. DEFINE rev(x) == IF x.pair = p THEN [x EXCEPT !.revoked = TRUE] ELSE x
<1>1. PICK x \in sessions : s = rev(x)  BY DEF RevokedPair
<1>2. PICK y \in sessions : v = rev(y)  BY DEF RevokedPair
<1>3. x \in SessionRow /\ y \in SessionRow  BY DEF AccountTypes
<1>4. s.pair = x.pair /\ s.kind = x.kind  BY <1>1, <1>3 DEF SessionRow
<1>5. v.pair = y.pair /\ v.kind = y.kind  BY <1>2, <1>3 DEF SessionRow
<1>6. x = y  BY <1>4, <1>5, Zenon DEF Lineage
<1>. QED  BY <1>1, <1>2, <1>6

(* The two rows session_issue and session_refresh insert.                   *)
LEMMA PairRows ==
    ASSUME NEW p \in Nat \ {0}, NEW t \in Nat
    PROVE  /\ IsFiniteSet(Pair(p, t))
           /\ \A s \in Pair(p, t) :
                /\ s \in [token : 1..p, kind : {"access", "refresh"}, pair : 1..p,
                          expires : Nat, revoked : BOOLEAN]
                /\ s.token = p /\ s.pair = p /\ s.revoked = FALSE
           /\ \A s, u \in Pair(p, t) : s.kind = u.kind => s = u
<1>1. \A x, y : IsFiniteSet({x, y})
  <2>1. SUFFICES ASSUME NEW x, NEW y PROVE IsFiniteSet({x, y})  OBVIOUS
  <2>2. {x, y} = {x} \union {y}  OBVIOUS
  <2>3. IsFiniteSet({x})  BY FS_Singleton, Zenon
  <2>4. IsFiniteSet({x} \union {y})  BY <2>3, FS_AddElement, Zenon
  <2>. QED  BY <2>2, <2>4, Zenon
<1>2. IsFiniteSet(Pair(p, t))  BY <1>1, Zenon DEF Pair
<1>. QED  BY <1>2 DEF Pair

-----------------------------------------------------------------------------
(* Sessions and their lineage. *)

(* A step that leaves the rows' part of the state alone keeps what is said  *)
(* of it; expiry may only take rows away.                                   *)
LEMMA RowsStay ==
    ASSUME SessionsInv, UNCHANGED <<pairs, family, rotations>>, sessions' \subseteq sessions,
           acctNow' \in Nat, acctNow' >= acctNow
    PROVE  /\ Lineage' /\ SignInCap'
           /\ sessions' \subseteq SessionRow' /\ IsFiniteSet(sessions')
           /\ (family \in [1..pairs -> 1..pairs])' /\ (rotations \in [1..pairs -> Nat])'
<1>. DEFINE roots == {s \in sessions : s.kind = "access" /\ family[s.pair] = s.pair
                                       /\ Active(s, acctNow)}
<1>. USE DEF SessionsInv, AccountTypes
<1>1. IsFiniteSet(sessions')  BY Fewer, Zenon
<1>2. sessions' \subseteq SessionRow'  BY DEF SessionRow
<1>3. Lineage'  BY DEF Lineage, RefreshedOnce
<1>4. roots' \subseteq roots
  <2>1. SUFFICES ASSUME NEW s \in roots' PROVE s \in roots  BY Zenon
  <2>2. s \in sessions /\ s.kind = "access" /\ family[s.pair] = s.pair /\ ~s.revoked
        /\ s.expires > acctNow'
    BY <2>1 DEF Active
  <2>3. s.expires \in Nat  BY <2>2 DEF SessionRow
  <2>. QED  BY <2>2, <2>3 DEF Active
<1>5. SignInCap'
  <2>1. IsFiniteSet(roots)  BY Fewer, Zenon
  <2>2. Cardinality(roots') <= Cardinality(roots) /\ Cardinality(roots') \in Nat
        /\ Cardinality(roots) \in Nat
    BY <2>1, <1>4, Fewer, Zenon
  <2>3. MaxDevices > 0 => Cardinality(roots) <= MaxDevices  BY DEF SignInCap
  <2>4. MaxDevices > 0 => Cardinality(roots') <= MaxDevices  BY <2>2, <2>3
  <2>. QED  BY <2>4 DEF SignInCap
<1>. QED  BY <1>1, <1>2, <1>3, <1>5, Zenon

(* A pair is drawn once: the tables of the history grow by one entry.       *)
LEMMA Grown ==
    ASSUME AccountTypes, pairs' = pairs + 1, NEW from \in 1..(pairs + 1),
           family' = [q \in 1..(pairs + 1) |-> IF q <= pairs THEN family[q] ELSE from]
    PROVE  /\ pairs' \in Nat /\ (family \in [1..pairs -> 1..pairs])'
           /\ family'[pairs + 1] = from
           /\ \A q \in 1..pairs : family'[q] = family[q] /\ family[q] \in 1..pairs
<1>1. pairs \in Nat /\ \A q \in 1..pairs : family[q] \in 1..pairs  BY Zenon DEF AccountTypes
<1>2. \A q \in 1..pairs : family'[q] = family[q]  BY <1>1
<1>3. family'[pairs + 1] = from  BY <1>1
<1>4. \A q \in 1..(pairs + 1) : family'[q] \in 1..(pairs + 1)
  <2>1. SUFFICES ASSUME NEW q \in 1..(pairs + 1) PROVE family'[q] \in 1..(pairs + 1)  OBVIOUS
  <2>2. CASE q <= pairs  BY <1>1, <1>2, <2>2
  <2>3. CASE q > pairs  BY <1>1, <1>3, <2>3
  <2>. QED  BY <2>2, <2>3, <1>1
<1>5. family' \in [1..pairs' -> 1..pairs']  BY <1>4
<1>. QED  BY <1>1, <1>2, <1>3, <1>5

(* A new pair's refresh token has not been exchanged.                       *)
LEMMA Zeroed ==
    ASSUME AccountTypes,
           rotations' = [q \in 1..(pairs + 1) |-> IF q <= pairs THEN rotations[q] ELSE 0]
    PROVE  /\ \A q \in 1..pairs : rotations'[q] = rotations[q] /\ rotations[q] \in Nat
           /\ rotations'[pairs + 1] = 0
           /\ rotations' \in [1..(pairs + 1) -> Nat]
<1>1. pairs \in Nat /\ \A q \in 1..pairs : rotations[q] \in Nat  BY DEF AccountTypes
<1>2. \A q \in 1..pairs : rotations'[q] = rotations[q]  BY <1>1
<1>3. rotations'[pairs + 1] = 0  BY <1>1
<1>4. \A q \in 1..(pairs + 1) : rotations'[q] \in Nat
  <2>1. SUFFICES ASSUME NEW q \in 1..(pairs + 1) PROVE rotations'[q] \in Nat  OBVIOUS
  <2>. QED  BY <1>1
<1>. QED  BY <1>1, <1>2, <1>3, <1>4

(* What session_issue and session_refresh have in common: one pair is added *)
(* to rows that are not younger, and its family has no other row that is    *)
(* not revoked.                                                             *)
LEMMA NewRows ==
    ASSUME SessionsInv, NEW t \in Nat, NEW from \in 1..(pairs + 1), NEW rows,
           \A s \in rows : s \in SessionRow /\ s.token = s.pair,
           \A s, u \in rows : s.pair = u.pair /\ s.kind = u.kind => s = u,
           \A s, u \in rows :
              ~s.revoked /\ ~u.revoked /\ family[s.pair] = family[u.pair] => s.pair = u.pair,
           \A s \in rows : ~s.revoked => family[s.pair] # from,
           pairs' = pairs + 1,
           family' = [q \in 1..(pairs + 1) |-> IF q <= pairs THEN family[q] ELSE from],
           rotations' \in [1..(pairs + 1) -> Nat],
           \A q \in 1..(pairs + 1) : rotations'[q] <= 1,
           rotations'[pairs + 1] = 0,
           \A s \in rows : rotations'[s.pair] > 0 => s.revoked,
           sessions' = rows \union Pair(pairs + 1, t)
    PROVE  Lineage'
<1>. DEFINE new == Pair(pairs + 1, t)
<1>0. pairs \in Nat  BY DEF SessionsInv, AccountTypes
<1>1. /\ pairs' \in Nat /\ family'[pairs + 1] = from
      /\ \A q \in 1..pairs : family'[q] = family[q] /\ family[q] \in 1..pairs
  BY Grown DEF SessionsInv
<1>2. /\ \A s \in new : s.token = pairs + 1 /\ s.pair = pairs + 1 /\ s.revoked = FALSE
      /\ \A s, u \in new : s.kind = u.kind => s = u
  <2>1. pairs + 1 \in Nat \ {0}  BY <1>0
  <2>2. t \in Nat  OBVIOUS
  <2>3. /\ \A s \in new :
             /\ s \in [token : 1..(pairs + 1), kind : {"access", "refresh"},
                      pair : 1..(pairs + 1), expires : Nat, revoked : BOOLEAN]
             /\ s.token = pairs + 1 /\ s.pair = pairs + 1 /\ s.revoked = FALSE
        /\ \A s, u \in new : s.kind = u.kind => s = u
    BY <2>1, <2>2, PairRows, Zenon
  <2>. QED  BY <2>3, Zenon
<1>3. \A s \in rows : s.pair \in 1..pairs /\ s.token = s.pair  BY DEF SessionRow
<1>. HIDE DEF new
<1>4. sessions' = rows \union new  BY DEF new
<1>5. \A s \in rows, u \in new : s.pair # u.pair  BY <1>0, <1>2, <1>3
<1>6. \A s \in sessions' : s.token = s.pair  BY <1>2, <1>3, <1>4
<1>7. \A s, u \in sessions' : s.pair = u.pair /\ s.kind = u.kind => s = u
  BY <1>2, <1>4, <1>5
<1>8. \A s, u \in sessions' :
         ~s.revoked /\ ~u.revoked /\ family'[s.pair] = family'[u.pair] => s.pair = u.pair
  BY <1>1, <1>2, <1>3, <1>4
<1>9. \A s \in sessions' : rotations'[s.pair] > 0 => s.revoked
  BY <1>0, <1>2, <1>4
<1>10. RefreshedOnce'  BY DEF RefreshedOnce
<1>. QED  BY <1>6, <1>7, <1>8, <1>9, <1>10 DEF Lineage

(* session_issue starts a family of its own.                                *)
LEMMA IssueKeeps ==
    ASSUME SessionsInv, NEW h \in SignIn, SessionIssue(h), DeviceFree(sign[h].at)
    PROVE  /\ Lineage' /\ SignInCap'
           /\ pairs' \in Nat /\ sessions' \subseteq SessionRow' /\ IsFiniteSet(sessions')
           /\ (family \in [1..pairs -> 1..pairs])' /\ (rotations \in [1..pairs -> Nat])'
<1>. DEFINE t == sign[h].at
            new == Pair(pairs + 1, t)
            live == {s \in sessions : s.kind = "access" /\ Active(s, t)}
            roots == {s \in sessions : s.kind = "access" /\ family[s.pair] = s.pair
                                       /\ Active(s, acctNow)}
<1>0. pairs \in Nat /\ t \in Nat /\ t <= acctNow /\ acctNow \in Nat
  BY DEF SessionsInv, AccountTypes, SignInHandler
<1>1. /\ pairs' = pairs + 1 /\ acctNow' = acctNow
      /\ family' = [q \in 1..(pairs + 1) |-> IF q <= pairs THEN family[q] ELSE pairs + 1]
      /\ rotations' = [q \in 1..(pairs + 1) |-> IF q <= pairs THEN rotations[q] ELSE 0]
      /\ sessions' = sessions \union new
  BY DEF SessionIssue, NewPair
<1>2. /\ pairs' \in Nat /\ (family \in [1..pairs -> 1..pairs])'
      /\ \A q \in 1..pairs : family[q] \in 1..pairs
  <2>1. pairs + 1 \in 1..(pairs + 1)  BY <1>0
  <2>. QED  BY <1>1, <2>1, Grown, Zenon DEF SessionsInv
<1>3. /\ \A q \in 1..pairs : rotations'[q] = rotations[q] /\ rotations[q] \in Nat
      /\ rotations'[pairs + 1] = 0
      /\ rotations' \in [1..(pairs + 1) -> Nat]
  BY <1>1, Zeroed, Zenon DEF SessionsInv
<1>5. \A q \in 1..(pairs + 1) : rotations'[q] <= 1
  <2>1. \A q \in 1..pairs : rotations[q] <= 1  BY DEF SessionsInv, Lineage, RefreshedOnce
  <2>2. SUFFICES ASSUME NEW q \in 1..(pairs + 1) PROVE rotations'[q] <= 1  OBVIOUS
  <2>3. CASE q <= pairs  BY <1>0, <1>3, <2>1, <2>3
  <2>4. CASE q > pairs  BY <1>0, <1>3, <2>4
  <2>. QED  BY <1>0, <2>3, <2>4
<1>6. \A s \in sessions : s \in SessionRow /\ s.pair \in 1..pairs
  BY DEF SessionsInv, AccountTypes, SessionRow
<1>7. Lineage'
  <2>1. \A s \in sessions : s \in SessionRow /\ s.token = s.pair
    BY <1>6 DEF SessionsInv, Lineage
  <2>2. \A s, u \in sessions : s.pair = u.pair /\ s.kind = u.kind => s = u
    BY DEF SessionsInv, Lineage
  <2>3. \A s, u \in sessions :
           ~s.revoked /\ ~u.revoked /\ family[s.pair] = family[u.pair] => s.pair = u.pair
    BY DEF SessionsInv, Lineage
  <2>4. \A s \in sessions : ~s.revoked => family[s.pair] # pairs + 1  BY <1>0, <1>2, <1>6
  <2>5. \A s \in sessions : rotations'[s.pair] > 0 => s.revoked
    BY <1>3, <1>6 DEF SessionsInv, Lineage
  <2>6. pairs + 1 \in 1..(pairs + 1)  BY <1>0
  <2>. HIDE DEF t
  <2>7. sessions' = sessions \union Pair(pairs + 1, t)  BY <1>1
  <2>. QED
    BY <1>0, <1>1, <1>3, <1>5, <2>1, <2>2, <2>3, <2>4, <2>5, <2>6, <2>7, NewRows, Zenon
<1>8. /\ IsFiniteSet(new)
      /\ \A s \in new : /\ s \in [token : 1..(pairs + 1), kind : {"access", "refresh"},
                                   pair : 1..(pairs + 1), expires : Nat, revoked : BOOLEAN]
                        /\ s.pair = pairs + 1
      /\ \A s, u \in new : s.kind = u.kind => s = u
  <2>1. pairs + 1 \in Nat \ {0}  BY <1>0
  <2>. QED  BY <1>0, <2>1, PairRows, Zenon
<1>. HIDE DEF new
<1>9. sessions' \subseteq SessionRow'
  <2>1. \A s \in sessions : s \in SessionRow'
    <3>1. SUFFICES ASSUME NEW s \in SessionRow PROVE s \in SessionRow'  BY <1>6
    <3>2. 1..pairs \subseteq 1..(pairs + 1)  BY <1>0
    <3>. QED  BY <3>1, <3>2, <1>1 DEF SessionRow
  <2>. QED  BY <1>1, <1>8, <2>1 DEF SessionRow
<1>10. IsFiniteSet(sessions')
  BY <1>1, <1>8, FS_Union, Zenon DEF SessionsInv, AccountTypes
<1>11. SignInCap'
  <2>1. SUFFICES ASSUME MaxDevices > 0 PROVE Cardinality(roots') <= MaxDevices
    BY <1>1 DEF SignInCap
  <2>2. Cardinality(live) < MaxDevices  BY <2>1 DEF DeviceFree
  <2>3. IsFiniteSet(live)  BY Fewer, Zenon DEF SessionsInv, AccountTypes
  <2>4. PICK x : \A s \in new : s.kind = "access" => s = x
    BY <1>8
  <2>5. roots' \subseteq live \union {x}
    <3>1. SUFFICES ASSUME NEW s \in roots', s \notin new PROVE s \in live  BY <1>1, <2>4
    <3>2. s \in sessions /\ s.kind = "access" /\ ~s.revoked /\ s.expires > acctNow
      BY <1>1, <3>1 DEF Active
    <3>3. s.expires \in Nat  BY <1>6, <3>2 DEF SessionRow
    <3>4. s.expires > t  BY <1>0, <3>2, <3>3
    <3>. QED  BY <3>2, <3>4 DEF Active
  <2>. HIDE DEF roots, live
  <2>6. Cardinality(roots') \in Nat /\ Cardinality(live) \in Nat
        /\ Cardinality(roots') <= Cardinality(live) + 1
    BY <2>3, <2>5, OneMore, Zenon
  <2>. QED  BY <2>2, <2>6
<1>. QED  BY <1>1, <1>2, <1>3, <1>7, <1>9, <1>10, <1>11

(* session_refresh passes the family on to the new pair and revokes the old *)
(* one, whose refresh token it found active: no other pair of the family    *)
(* was left unrevoked, and the token had not been exchanged before.         *)
LEMMA RefreshKeeps ==
    ASSUME SessionsInv, NEW h \in SignIn, SessionRefresh(h),
           ActiveToken(sign[h].token, "refresh", sign[h].at)
    PROVE  /\ Lineage' /\ SignInCap'
           /\ pairs' \in Nat /\ sessions' \subseteq SessionRow' /\ IsFiniteSet(sessions')
           /\ (family \in [1..pairs -> 1..pairs])' /\ (rotations \in [1..pairs -> Nat])'
<1>. DEFINE t == sign[h].at
            p == sign[h].token
            new == Pair(pairs + 1, t)
            rows == RevokedPair(p)
            roots == {s \in sessions : s.kind = "access" /\ family[s.pair] = s.pair
                                       /\ Active(s, acctNow)}
<1>0. pairs \in Nat /\ t \in Nat
  BY DEF SessionsInv, AccountTypes, SignInHandler
<1>1. /\ pairs' = pairs + 1 /\ acctNow' = acctNow
      /\ family' = [q \in 1..(pairs + 1) |-> IF q <= pairs THEN family[q] ELSE family[p]]
      /\ rotations' = [q \in 1..(pairs + 1) |->
                          IF q > pairs THEN 0 ELSE rotations[q] + IF q = p THEN 1 ELSE 0]
      /\ sessions' = rows \union new
  BY DEF SessionRefresh
<1>2. PICK u \in sessions : u.token = p /\ u.kind = "refresh" /\ ~u.revoked
  BY DEF ActiveToken, Active
<1>. HIDE DEF p, t
<1>3. \A s \in sessions : s \in SessionRow /\ s.pair \in 1..pairs /\ s.token = s.pair
  BY DEF SessionsInv, AccountTypes, SessionRow, Lineage
<1>4. p \in 1..pairs /\ u.pair = p  BY <1>2, <1>3
<1>5. \A q \in 1..pairs : family[q] \in 1..pairs /\ rotations[q] \in Nat /\ rotations[q] <= 1
  BY DEF SessionsInv, AccountTypes, Lineage, RefreshedOnce
<1>6. rotations[p] = 0
  <2>1. ~(rotations[p] > 0)  BY <1>2, <1>4 DEF SessionsInv, Lineage
  <2>. QED  BY <2>1, <1>4, <1>5
<1>7. /\ \A q \in 1..pairs : q # p => rotations'[q] = rotations[q]
      /\ rotations'[p] = 1 /\ rotations'[pairs + 1] = 0
  <2>1. \A q \in 1..pairs : rotations'[q] = rotations[q] + IF q = p THEN 1 ELSE 0
    BY <1>0, <1>1
  <2>2. rotations'[pairs + 1] = 0  BY <1>0, <1>1
  <2>. QED  BY <2>1, <2>2, <1>4, <1>5, <1>6
<1>8. \A q \in 1..(pairs + 1) : rotations'[q] \in Nat /\ rotations'[q] <= 1
  <2>1. SUFFICES ASSUME NEW q \in 1..(pairs + 1)
                 PROVE  rotations'[q] \in Nat /\ rotations'[q] <= 1
    OBVIOUS
  <2>2. CASE q = p  BY <1>7, <2>2
  <2>3. CASE q = pairs + 1  BY <1>7, <2>3
  <2>4. CASE q # p /\ q \in 1..pairs  BY <1>5, <1>7, <2>4
  <2>. QED  BY <1>0, <2>2, <2>3, <2>4
<1>9. rotations' \in [1..(pairs + 1) -> Nat]
  <2>1. DOMAIN rotations' = 1..(pairs + 1) /\ rotations' = [q \in DOMAIN rotations' |-> rotations'[q]]
    BY <1>1
  <2>. QED  BY <1>8, <2>1
<1>10. family[p] \in 1..(pairs + 1) /\ family[p] # pairs + 1  BY <1>0, <1>4, <1>5
<1>11. /\ pairs' \in Nat /\ (family \in [1..pairs -> 1..pairs])'
       /\ family'[pairs + 1] = family[p]
       /\ \A q \in 1..pairs : family'[q] = family[q]
  BY <1>1, <1>10, Grown, Zenon DEF SessionsInv
<1>12. \A s \in rows :
          /\ s \in SessionRow
          /\ \E v \in sessions : /\ s.token = v.token /\ s.kind = v.kind /\ s.pair = v.pair
                                 /\ s.expires = v.expires
                                 /\ v.revoked => s.revoked
                                 /\ s.pair = p => s.revoked
                                 /\ ~s.revoked => s = v
                                 /\ s.pair # p => s = v
  <2>1. AccountTypes  BY DEF SessionsInv
  <2>. QED  BY <2>1, RevokedRow, Zenon
<1>13. Lineage'
  <2>1. \A s \in rows : s \in SessionRow /\ s.token = s.pair  BY <1>3, <1>12
  <2>2. \A s, v \in rows : s.pair = v.pair /\ s.kind = v.kind => s = v
    BY RevokedAlike, Zenon DEF SessionsInv
  <2>3. \A s \in rows : ~s.revoked => s \in sessions /\ s.pair # p
    BY <1>12
  <2>4. \A s, v \in sessions :
           ~s.revoked /\ ~v.revoked /\ family[s.pair] = family[v.pair] => s.pair = v.pair
    BY DEF SessionsInv, Lineage
  <2>5. \A s, v \in rows :
           ~s.revoked /\ ~v.revoked /\ family[s.pair] = family[v.pair] => s.pair = v.pair
    BY <2>3, <2>4, Zenon
  <2>6. \A s \in rows : ~s.revoked => family[s.pair] # family[p]
    BY <1>2, <1>4, <2>3, <2>4, Zenon
  <2>7. \A s \in rows : rotations'[s.pair] > 0 => s.revoked
    <3>1. SUFFICES ASSUME NEW s \in rows, ~s.revoked, rotations'[s.pair] > 0 PROVE FALSE
      OBVIOUS
    <3>2. s \in sessions /\ s.pair # p  BY <2>3, <3>1
    <3>3. rotations[s.pair] > 0  BY <1>3, <1>7, <3>1, <3>2
    <3>. QED  BY <3>1, <3>2, <3>3 DEF SessionsInv, Lineage
  <2>. HIDE DEF rows
  <2>8. \A q \in 1..(pairs + 1) : rotations'[q] <= 1  BY <1>8
  <2>9. sessions' = rows \union Pair(pairs + 1, t)  BY <1>1
  <2>10. rotations'[pairs + 1] = 0  BY <1>7
  <2>. QED
    BY <1>0, <1>1, <1>9, <1>10, <2>1, <2>2, <2>5, <2>6, <2>7, <2>8, <2>9, <2>10, NewRows, Zenon
<1>14. /\ IsFiniteSet(new)
       /\ \A s \in new : /\ s \in [token : 1..(pairs + 1), kind : {"access", "refresh"},
                                    pair : 1..(pairs + 1), expires : Nat, revoked : BOOLEAN]
                         /\ s.pair = pairs + 1
  <2>1. pairs + 1 \in Nat \ {0}  BY <1>0
  <2>. QED  BY <1>0, <2>1, PairRows, Zenon
<1>15. IsFiniteSet(rows)  BY RevokedFinite, Zenon DEF SessionsInv, AccountTypes
<1>. HIDE DEF new, rows
<1>16. sessions' \subseteq SessionRow'
  <2>1. \A s \in rows : s \in SessionRow'
    <3>1. SUFFICES ASSUME NEW s \in SessionRow PROVE s \in SessionRow'  BY <1>12
    <3>2. 1..pairs \subseteq 1..(pairs + 1)  BY <1>0
    <3>. QED  BY <3>1, <3>2, <1>1 DEF SessionRow
  <2>. QED  BY <1>1, <1>14, <2>1 DEF SessionRow
<1>17. IsFiniteSet(sessions')  BY <1>1, <1>14, <1>15, FS_Union, Zenon
<1>18. SignInCap'
  <2>1. roots' \subseteq roots
    <3>1. SUFFICES ASSUME NEW s \in roots' PROVE s \in roots  OBVIOUS
    <3>2. s \in sessions' /\ s.kind = "access" /\ family'[s.pair] = s.pair
          /\ ~s.revoked /\ s.expires > acctNow
      BY <1>1, <3>1 DEF Active
    <3>3. s \notin new  BY <1>10, <1>11, <1>14, <3>2
    <3>4. s \in sessions
      <4>1. s \in rows  BY <1>1, <3>2, <3>3
      <4>. QED  BY <4>1, <1>12, <3>2
    <3>5. family'[s.pair] = family[s.pair]  BY <1>3, <1>11, <3>4, Zenon
    <3>. QED  BY <3>2, <3>4, <3>5, Zenon DEF Active
  <2>2. IsFiniteSet(roots)  BY Fewer, Zenon DEF SessionsInv, AccountTypes
  <2>3. MaxDevices > 0 => Cardinality(roots) <= MaxDevices  BY DEF SessionsInv, SignInCap
  <2>4. SUFFICES MaxDevices > 0 => Cardinality(roots') <= MaxDevices  BY <1>1 DEF SignInCap
  <2>. HIDE DEF roots
  <2>5. Cardinality(roots') <= Cardinality(roots) /\ Cardinality(roots') \in Nat
        /\ Cardinality(roots) \in Nat
    BY <2>1, <2>2, Fewer, Zenon
  <2>. QED  BY <2>3, <2>5
<1>. QED  BY <1>1, <1>9, <1>11, <1>13, <1>16, <1>17, <1>18

-----------------------------------------------------------------------------
(* The gate. *)

(* A step that records no attempt and lets nobody past the gate keeps the   *)
(* bound: failures only leave the window, and nobody joins the recorders.   *)
LEMMA GateStays ==
    ASSUME SessionsInv, acctNow' \in Nat, acctNow' >= acctNow,
           \A o \in Object : attempts'[o] \subseteq attempts[o],
           \A o \in Object : Recording(o)' \subseteq Recording(o)
    PROVE  GateInv'
<1>1. SUFFICES ASSUME NEW o \in Object
               PROVE  Cardinality(Failures(o, acctNow)') + Cardinality(Recording(o)')
                        < MAX_FAILED_ATTEMPTS + Cardinality(SignIn)
  BY DEF GateInv
<1>2. Failures(o, acctNow)' \subseteq Failures(o, acctNow)
  <2>1. SUFFICES ASSUME NEW x \in Failures(o, acctNow)' PROVE x \in Failures(o, acctNow)
    OBVIOUS
  <2>2. x \in attempts[o] /\ ~x.ok /\ x.at + FAILURE_WINDOW > acctNow'  BY <2>1 DEF Failures
  <2>3. x.at \in Nat /\ acctNow \in Nat  BY <2>2 DEF SessionsInv, AccountTypes
  <2>4. x.at + FAILURE_WINDOW > acctNow  BY <2>2, <2>3
  <2>. QED  BY <2>2, <2>4 DEF Failures
<1>3. Failures(o, acctNow) \subseteq attempts[o] /\ IsFiniteSet(attempts[o])
  BY DEF Failures, SessionsInv, AccountTypes
<1>4. Recording(o) \subseteq SignIn /\ IsFiniteSet(SignIn)  BY DEF Recording
<1>5. Cardinality(SignIn) \in Nat  BY <1>4, FS_CardinalityType, Zenon
<1>6. Cardinality(Failures(o, acctNow)) + Cardinality(Recording(o))
        < MAX_FAILED_ATTEMPTS + Cardinality(SignIn)
  BY DEF SessionsInv, GateInv
<1>7. IsFiniteSet(Failures(o, acctNow)) /\ IsFiniteSet(Recording(o))
  BY <1>3, <1>4, Fewer, Zenon
<1>8. /\ Cardinality(Failures(o, acctNow)) \in Nat /\ Cardinality(Failures(o, acctNow)') \in Nat
      /\ Cardinality(Failures(o, acctNow)') <= Cardinality(Failures(o, acctNow))
  BY <1>2, <1>7, Fewer, Zenon
<1>9. /\ Cardinality(Recording(o)) \in Nat /\ Cardinality(Recording(o)') \in Nat
      /\ Cardinality(Recording(o)') <= Cardinality(Recording(o))
  BY <1>7, Fewer, Zenon
<1>. QED  BY <1>5, <1>6, <1>8, <1>9

(* login_gate: whoever passes it saw fewer failures than the limit, and     *)
(* there are no more recorders than handlers.                               *)
LEMMA GateOpens ==
    ASSUME SessionsInv, NEW h \in SignIn, NEW b \in BOOLEAN, LoginGate(h, b)
    PROVE  GateInv'
<1>. DEFINE o == sign[h].object
<1>0. sign \in [SignIn -> SignInHandler] /\ sign[h] \in SignInHandler  BY Zenon DEF SessionsInv, AccountTypes
<1>1. acctNow' = acctNow /\ attempts' = attempts /\ acctNow \in Nat
  BY DEF LoginGate, SessionsInv, AccountTypes
<1>2. \A g \in SignIn : g # h => sign'[g] = sign[g]  BY <1>0 DEF LoginGate
<1>3. CASE ~GateOpen(o, sign[h].at)
  <2>1. sign'[h] = NoSign  BY <1>0, <1>3 DEF LoginGate
  <2>2. \A x \in Object : Recording(x)' \subseteq Recording(x)
    <3>1. sign'[h].pc # "record"  BY <2>1 DEF NoSign
    <3>. QED  BY <1>2, <3>1, Zenon DEF Recording
  <2>. QED  BY <1>1, <2>2, GateStays
<1>4. CASE GateOpen(o, sign[h].at)
  <2>0. PICK k : k = (b /\ sign[h].known)  OBVIOUS
  <2>1. sign'[h] = [sign[h] EXCEPT !.pc = "record", !.ok = k]
    <3>1. sign' = [sign EXCEPT ![h] = [sign[h] EXCEPT !.pc = "record", !.ok = k]]
      BY <1>4, <2>0, Zenon DEF LoginGate
    <3>. QED  BY <1>0, <3>1
  <2>2. sign'[h].object = o  BY <1>0, <2>1 DEF SignInHandler
  <2>3. \A x \in Object : x # o => Recording(x)' \subseteq Recording(x)
    BY <1>2, <2>2, Zenon DEF Recording
  <2>4. SUFFICES ASSUME NEW x \in Object
                 PROVE  Cardinality(Failures(x, acctNow)') + Cardinality(Recording(x)')
                          < MAX_FAILED_ATTEMPTS + Cardinality(SignIn)
    BY DEF GateInv
  <2>5. Failures(x, acctNow)' = Failures(x, acctNow)  BY <1>1 DEF Failures
  <2>6. Recording(x) \subseteq SignIn /\ Recording(x)' \subseteq SignIn /\ IsFiniteSet(SignIn)
    BY DEF Recording
  <2>7. /\ IsFiniteSet(Recording(x))
        /\ Cardinality(SignIn) \in Nat /\ Cardinality(Recording(x)') \in Nat
        /\ Cardinality(Recording(x)') <= Cardinality(SignIn)
    BY <2>6, Fewer, Zenon
  <2>8. Failures(x, acctNow) \subseteq attempts[x] /\ IsFiniteSet(attempts[x])
    BY DEF Failures, SessionsInv, AccountTypes
  <2>9. Cardinality(Failures(x, acctNow)) \in Nat  BY <2>8, Fewer, Zenon
  <2>10. CASE x = o
    <3>1. Failures(o, acctNow) \subseteq Failures(o, sign[h].at)
      <4>1. SUFFICES ASSUME NEW y \in Failures(o, acctNow) PROVE y \in Failures(o, sign[h].at)
        OBVIOUS
      <4>2. y \in attempts[o] /\ ~y.ok /\ y.at + FAILURE_WINDOW > acctNow
        BY <4>1 DEF Failures
      <4>3. y.at \in Nat /\ sign[h].at \in Nat /\ sign[h].at <= acctNow
        BY <1>0, <4>2, <2>10 DEF SessionsInv, AccountTypes, SignInHandler
      <4>4. y.at + FAILURE_WINDOW > sign[h].at  BY <1>1, <4>2, <4>3
      <4>. QED  BY <4>2, <4>4 DEF Failures
    <3>2. Failures(o, sign[h].at) \subseteq attempts[o]  BY DEF Failures
    <3>3. IsFiniteSet(Failures(o, sign[h].at))  BY <3>2, <2>8, <2>10, Fewer, Zenon
    <3>4. /\ Cardinality(Failures(o, acctNow)) <= Cardinality(Failures(o, sign[h].at))
          /\ Cardinality(Failures(o, sign[h].at)) \in Nat
      BY <3>1, <3>3, Fewer, Zenon
    <3>5. Cardinality(Failures(o, sign[h].at)) < MAX_FAILED_ATTEMPTS  BY <1>4 DEF GateOpen
    <3>6. Cardinality(Failures(x, acctNow)) < MAX_FAILED_ATTEMPTS
      BY <2>9, <2>10, <3>4, <3>5
    <3>. QED  BY <2>5, <2>7, <2>9, <3>6
  <2>11. CASE x # o
    <3>1. /\ Cardinality(Recording(x)) \in Nat
          /\ Cardinality(Recording(x)') <= Cardinality(Recording(x))
      BY <2>3, <2>7, <2>11, Fewer, Zenon
    <3>2. Cardinality(Failures(x, acctNow)) + Cardinality(Recording(x))
            < MAX_FAILED_ATTEMPTS + Cardinality(SignIn)
      BY DEF SessionsInv, GateInv
    <3>. QED  BY <2>5, <2>7, <2>9, <3>1, <3>2
  <2>. QED  BY <2>10, <2>11
<1>. QED  BY <1>3, <1>4

(* login-record: a recorder's failure moves from the one count to the other.*)
LEMMA RecordKeeps ==
    ASSUME SessionsInv, NEW h \in SignIn, NEW b \in BOOLEAN, LoginRecord(h, b)
    PROVE  GateInv'
<1>. DEFINE o == sign[h].object
            n == Cardinality(attempts["unknown"]) + Cardinality(attempts["account"]) + 1
            row == [n |-> n, at |-> sign[h].at, ok |-> sign[h].ok]
<1>0. sign \in [SignIn -> SignInHandler] /\ sign[h] \in SignInHandler /\ o \in Object
  BY DEF SessionsInv, AccountTypes, SignInHandler
<1>1. acctNow' = acctNow /\ acctNow \in Nat  BY DEF LoginRecord, SessionsInv, AccountTypes
<1>2. \A g \in SignIn : g # h => sign'[g] = sign[g]  BY <1>0 DEF LoginRecord
<1>3. sign'[h].pc # "record"
  <2>1. sign'[h] = [sign[h] EXCEPT !.pc = "issue"] \/ sign'[h] = NoSign
    BY <1>0 DEF LoginRecord
  <2>. QED  BY <1>0, <2>1 DEF SignInHandler, NoSign
<1>4. \A x \in Object : Recording(x)' \subseteq Recording(x) \ {h}
  BY <1>2, <1>3, Zenon DEF Recording
<1>5. CASE attempts' = attempts
  BY <1>1, <1>4, <1>5, GateStays
<1>6. CASE attempts' = [attempts EXCEPT ![o] = @ \union {row}]
  <2>1. SUFFICES ASSUME NEW x \in Object
                 PROVE  Cardinality(Failures(x, acctNow)') + Cardinality(Recording(x)')
                          < MAX_FAILED_ATTEMPTS + Cardinality(SignIn)
    BY DEF GateInv
  <2>2. Failures(x, acctNow) \subseteq attempts[x] /\ IsFiniteSet(attempts[x])
    BY DEF Failures, SessionsInv, AccountTypes
  <2>3. IsFiniteSet(Failures(x, acctNow))  BY <2>2, Fewer, Zenon
  <2>4. Recording(x) \subseteq SignIn /\ IsFiniteSet(SignIn)  BY DEF Recording
  <2>5. IsFiniteSet(Recording(x)) /\ Cardinality(SignIn) \in Nat  BY <2>4, Fewer, Zenon
  <2>6. Cardinality(Failures(x, acctNow)) + Cardinality(Recording(x))
          < MAX_FAILED_ATTEMPTS + Cardinality(SignIn)
    BY DEF SessionsInv, GateInv
  <2>7. attempts'[x] = IF x = o THEN attempts[x] \union {row} ELSE attempts[x]
    BY <1>0, <1>6, Zenon DEF SessionsInv, AccountTypes
  <2>8. row.ok = sign[h].ok  OBVIOUS
  <2>. HIDE DEF row
  <2>9. CASE x = o /\ ~sign[h].ok
    <3>1. Failures(x, acctNow)' \subseteq Failures(x, acctNow) \union {row}
      BY <1>1, <2>7, <2>9 DEF Failures
    <3>2. /\ Cardinality(Failures(x, acctNow)') \in Nat
          /\ Cardinality(Failures(x, acctNow)) \in Nat
          /\ Cardinality(Failures(x, acctNow)') <= Cardinality(Failures(x, acctNow)) + 1
      BY <2>3, <3>1, OneMore, Zenon
    <3>3. h \in Recording(x)  BY <2>9 DEF LoginRecord, Recording
    <3>4. /\ IsFiniteSet(Recording(x) \ {h})
          /\ Cardinality(Recording(x) \ {h}) = Cardinality(Recording(x)) - 1
      BY <2>5, <3>3, FS_RemoveElement, Zenon
    <3>5. /\ Cardinality(Recording(x)') \in Nat
          /\ Cardinality(Recording(x)') <= Cardinality(Recording(x) \ {h})
      BY <1>4, <3>4, Fewer, Zenon
    <3>6. Cardinality(Recording(x)) \in Nat  BY <2>5, FS_CardinalityType, Zenon
    <3>. QED  BY <2>5, <2>6, <3>2, <3>4, <3>5, <3>6
  <2>10. CASE ~(x = o /\ ~sign[h].ok)
    <3>1. Failures(x, acctNow)' \subseteq Failures(x, acctNow)
      BY <1>1, <2>7, <2>8, <2>10 DEF Failures
    <3>2. /\ Cardinality(Failures(x, acctNow)') \in Nat
          /\ Cardinality(Failures(x, acctNow)) \in Nat
          /\ Cardinality(Failures(x, acctNow)') <= Cardinality(Failures(x, acctNow))
      BY <2>3, <3>1, Fewer, Zenon
    <3>3. Recording(x)' \subseteq Recording(x)  BY <1>4
    <3>4. /\ Cardinality(Recording(x)') \in Nat /\ Cardinality(Recording(x)) \in Nat
          /\ Cardinality(Recording(x)') <= Cardinality(Recording(x))
      BY <2>5, <3>3, Fewer, Zenon
    <3>. QED  BY <2>5, <2>6, <3>2, <3>4
  <2>. QED  BY <2>9, <2>10
<1>. QED  BY <1>5, <1>6 DEF LoginRecord

-----------------------------------------------------------------------------
(* The handlers' records. *)

(* NoSign, and what a handler becomes in each of its steps, is a handler    *)
(* that read the clock no later than now.                                   *)
LEMMA SignTypes ==
    ASSUME SessionsInv, NEW h \in SignIn, NEW x \in SignInHandler, x.at <= acctNow,
           sign' = [sign EXCEPT ![h] = x], acctNow' = acctNow
    PROVE  (sign \in [SignIn -> SignInHandler])' /\ (\A g \in SignIn : sign[g].at <= acctNow)'
BY DEF SessionsInv, AccountTypes

(* The record of a handler that has answered.                               *)
LEMMA NoSignType == NoSign \in SignInHandler /\ NoSign.at = 0
BY DEF NoSign, SignInHandler

(* A handler's next record keeps its shape.                                 *)
LEMMA HandlersType ==
    ASSUME SessionsInv, NEW h \in SignIn,
           \/ LoginStart(h) \/ SessionIssue(h) \/ SessionRefresh(h)
           \/ \E b \in BOOLEAN : LoginGate(h, b) \/ LoginRecord(h, b)
           \/ \E p \in 1..pairs : RefreshStart(h, p)
    PROVE  (sign \in [SignIn -> SignInHandler])' /\ (\A g \in SignIn : sign[g].at <= acctNow)'
<1>0. /\ sign \in [SignIn -> SignInHandler] /\ sign[h] \in SignInHandler /\ sign[h].at <= acctNow
      /\ acctNow \in Nat /\ pairs \in Nat
  BY Zenon DEF SessionsInv, AccountTypes
<1>1. 0 <= acctNow  BY <1>0
<1>2. SUFFICES \E x \in SignInHandler : x.at <= acctNow /\ sign' = [sign EXCEPT ![h] = x]
  <2>1. acctNow' = acctNow
    BY Zenon DEF LoginStart, SessionIssue, SessionRefresh, LoginGate, LoginRecord, RefreshStart
  <2>. QED  BY <2>1, SignTypes, Zenon
<1>3. CASE sign' = [sign EXCEPT ![h] = NoSign]
  BY <1>1, <1>3, NoSignType, Zenon
<1>4. CASE LoginStart(h)
  <2>1. PICK k \in BOOLEAN : k = (account = "active")  BY Zenon
  <2>2. PICK o \in Object : o = IF account = "absent" THEN "unknown" ELSE "account"  OBVIOUS
  <2>. DEFINE x == [NoSign EXCEPT !.pc = "gate", !.kind = "login", !.at = acctNow,
                                  !.known = k, !.object = o]
  <2>3. sign' = [sign EXCEPT ![h] = x]  BY <1>4, <2>1, <2>2, Zenon DEF LoginStart
  <2>4. x \in SignInHandler /\ x.at = acctNow  BY <1>0, Zenon DEF NoSign, SignInHandler
  <2>5. x.at <= acctNow  BY <1>0, <2>4
  <2>. HIDE DEF x
  <2>. QED  BY <2>3, <2>4, <2>5, Zenon
<1>5. ASSUME NEW b \in BOOLEAN, LoginGate(h, b), sign' # [sign EXCEPT ![h] = NoSign]
      PROVE  \E x \in SignInHandler : x.at <= acctNow /\ sign' = [sign EXCEPT ![h] = x]
  <2>1. PICK k \in BOOLEAN : k = (b /\ sign[h].known)  BY Zenon
  <2>. DEFINE x == [sign[h] EXCEPT !.pc = "record", !.ok = k]
  <2>2. sign' = [sign EXCEPT ![h] = x]  BY <1>5, <2>1, Zenon DEF LoginGate
  <2>3. x \in SignInHandler /\ x.at = sign[h].at  BY <1>0, Zenon DEF SignInHandler
  <2>. QED  BY <1>0, <2>2, <2>3, Zenon
<1>6. ASSUME NEW b \in BOOLEAN, LoginRecord(h, b), sign' # [sign EXCEPT ![h] = NoSign]
      PROVE  \E x \in SignInHandler : x.at <= acctNow /\ sign' = [sign EXCEPT ![h] = x]
  <2>. DEFINE x == [sign[h] EXCEPT !.pc = "issue"]
  <2>1. sign' = [sign EXCEPT ![h] = x]  BY <1>6, Zenon DEF LoginRecord
  <2>2. x \in SignInHandler /\ x.at = sign[h].at  BY <1>0 DEF SignInHandler
  <2>. QED  BY <1>0, <2>1, <2>2, Zenon
<1>7. ASSUME NEW p \in 1..pairs, RefreshStart(h, p)
      PROVE  \E x \in SignInHandler : x.at <= acctNow /\ sign' = [sign EXCEPT ![h] = x]
  <2>. DEFINE x == [NoSign EXCEPT !.pc = "refresh", !.kind = "refresh",
                                  !.token = p, !.at = acctNow]
  <2>1. sign' = [sign EXCEPT ![h] = x]  BY <1>7, Zenon DEF RefreshStart
  <2>2. p \in Nat  BY <1>0
  <2>3. x \in SignInHandler /\ x.at = acctNow  BY <1>0, <2>2, Zenon DEF NoSign, SignInHandler
  <2>4. x.at <= acctNow  BY <1>0, <2>3
  <2>. HIDE DEF x
  <2>. QED  BY <2>1, <2>3, <2>4, Zenon
<1>8. CASE SessionIssue(h) \/ SessionRefresh(h)
  BY <1>3, <1>8, Zenon DEF SessionIssue, SessionRefresh
<1>. QED  BY <1>3, <1>4, <1>5, <1>6, <1>7, <1>8, Zenon

(* The attempts stay finite sets of attempts.                               *)
LEMMA AttemptsType ==
    ASSUME SessionsInv, NEW h \in SignIn, NEW b \in BOOLEAN, LoginRecord(h, b)
    PROVE  /\ attempts' \in [Object -> SUBSET [n : Nat, at : Nat, ok : BOOLEAN]]
           /\ \A o \in Object : IsFiniteSet(attempts'[o])
<1>. DEFINE o == sign[h].object
            n == Cardinality(attempts["unknown"]) + Cardinality(attempts["account"]) + 1
            row == [n |-> n, at |-> sign[h].at, ok |-> sign[h].ok]
<1>1. /\ attempts \in [Object -> SUBSET [n : Nat, at : Nat, ok : BOOLEAN]]
      /\ \A x \in Object : IsFiniteSet(attempts[x])
      /\ sign[h] \in SignInHandler
  BY DEF SessionsInv, AccountTypes
<1>2. Cardinality(attempts["unknown"]) \in Nat /\ Cardinality(attempts["account"]) \in Nat
  BY <1>1, FS_CardinalityType
<1>3. n \in Nat  BY <1>2
<1>. HIDE DEF n
<1>4. row \in [n : Nat, at : Nat, ok : BOOLEAN] /\ o \in Object  BY ONLY <1>1, <1>3 DEF SignInHandler
<1>5. attempts' = attempts \/ attempts' = [attempts EXCEPT ![o] = @ \union {row}]
  BY DEF LoginRecord, n
<1>. HIDE DEF row, o
<1>6. CASE attempts' = attempts  BY <1>1, <1>6
<1>7. CASE attempts' = [attempts EXCEPT ![o] = @ \union {row}]
  <2>1. attempts' \in [Object -> SUBSET [n : Nat, at : Nat, ok : BOOLEAN]]  BY <1>1, <1>4, <1>7
  <2>2. attempts'[o] = attempts[o] \union {row} /\ \A x \in Object \ {o} : attempts'[x] = attempts[x]
    BY <1>1, <1>4, <1>7
  <2>3. IsFiniteSet(attempts[o] \union {row})  BY <1>1, <1>4, FS_AddElement, Zenon
  <2>. QED  BY <1>1, <2>1, <2>2, <2>3
<1>. QED  BY <1>5, <1>6, <1>7

(* Logout revokes one pair and adds nothing.                                *)
LEMMA LogoutKeeps ==
    ASSUME SessionsInv, NEW p, Logout(p)
    PROVE  SessionsInv'
<1>. DEFINE rows == RevokedPair(p)
            roots == {s \in sessions : s.kind = "access" /\ family[s.pair] = s.pair
                                       /\ Active(s, acctNow)}
<1>0. acctNow \in Nat /\ AccountTypes  BY Zenon DEF SessionsInv, AccountTypes
<1>1. /\ UNCHANGED <<acctNow, attempts, pairs, family, rotations, sign>> /\ sessions' = rows
  BY DEF Logout
<1>2. \A s \in rows :
         /\ s \in SessionRow
         /\ \E v \in sessions : /\ s.token = v.token /\ s.kind = v.kind /\ s.pair = v.pair
                                /\ s.expires = v.expires
                                /\ v.revoked => s.revoked
                                /\ s.pair = p => s.revoked
                                /\ ~s.revoked => s = v
                                /\ s.pair # p => s = v
  BY <1>0, RevokedRow, Zenon
<1>3. \A s, v \in rows : s.pair = v.pair /\ s.kind = v.kind => s = v
  BY RevokedAlike, Zenon DEF SessionsInv
<1>4. IsFiniteSet(rows)  BY <1>0, RevokedFinite, Zenon DEF AccountTypes
<1>. HIDE DEF rows
<1>5. \A s \in rows : ~s.revoked => s \in sessions  BY <1>2
<1>6. Lineage'
  <2>1. \A s \in rows : s.token = s.pair  BY <1>2 DEF SessionsInv, Lineage
  <2>2. \A s, v \in rows :
           ~s.revoked /\ ~v.revoked /\ family[s.pair] = family[v.pair] => s.pair = v.pair
    BY <1>5, Zenon DEF SessionsInv, Lineage
  <2>3. \A s \in rows : rotations[s.pair] > 0 => s.revoked
    BY <1>5, Zenon DEF SessionsInv, Lineage
  <2>4. RefreshedOnce'  BY <1>1 DEF SessionsInv, Lineage, RefreshedOnce
  <2>. QED  BY ONLY <1>1, <1>3, <2>1, <2>2, <2>3, <2>4 DEF Lineage
<1>7. SignInCap'
  <2>1. roots' \subseteq roots
    <3>1. SUFFICES ASSUME NEW s \in roots' PROVE s \in roots  OBVIOUS
    <3>2. s \in rows /\ s.kind = "access" /\ family[s.pair] = s.pair
          /\ ~s.revoked /\ s.expires > acctNow
      BY <1>1, <3>1 DEF Active
    <3>. QED  BY <1>5, <3>2 DEF Active
  <2>2. IsFiniteSet(roots)  BY <1>0, Fewer, Zenon DEF AccountTypes
  <2>3. MaxDevices > 0 => Cardinality(roots) <= MaxDevices  BY DEF SessionsInv, SignInCap
  <2>4. SUFFICES MaxDevices > 0 => Cardinality(roots') <= MaxDevices  BY <1>1 DEF SignInCap
  <2>. HIDE DEF roots
  <2>5. Cardinality(roots') <= Cardinality(roots) /\ Cardinality(roots') \in Nat
        /\ Cardinality(roots) \in Nat
    BY <2>1, <2>2, Fewer, Zenon
  <2>. QED  BY <2>3, <2>5
<1>8. GateInv'
  <2>1. \A o \in Object : Recording(o)' \subseteq Recording(o)  BY <1>1 DEF Recording
  <2>2. acctNow' \in Nat /\ acctNow' >= acctNow  BY <1>0, <1>1
  <2>3. \A o \in Object : attempts'[o] \subseteq attempts[o]  BY <1>1
  <2>. QED  BY <2>1, <2>2, <2>3, GateStays, Zenon
<1>9. AccountTypes'
  <2>1. sessions' \subseteq SessionRow'  BY <1>1, <1>2 DEF SessionRow
  <2>. QED  BY <1>0, <1>1, <1>4, <2>1, Zenon DEF AccountTypes
<1>. QED  BY <1>6, <1>7, <1>8, <1>9 DEF SessionsInv

-----------------------------------------------------------------------------
(* The induction. *)

(* Nobody has signed in yet.                                                *)
LEMMA SessionsInit == AccountInit => SessionsInv
<1>. SUFFICES ASSUME AccountInit PROVE SessionsInv  OBVIOUS
<1>. USE DEF AccountInit
<1>1. AccountTypes
  BY FS_EmptySet, NoSignType DEF AccountTypes, SessionRow
<1>2. Lineage  BY DEF Lineage, RefreshedOnce
<1>3. GateInv
  <2>1. \A o \in Object : Failures(o, acctNow) = {} /\ Recording(o) = {}
    BY DEF Failures, Recording, NoSign
  <2>2. Cardinality(SignIn) \in Nat  BY FS_CardinalityType
  <2>3. \A o \in Object : Cardinality(Failures(o, acctNow)) = 0 /\ Cardinality(Recording(o)) = 0
    BY <2>1, FS_EmptySet, Zenon
  <2>. QED  BY <2>2, <2>3 DEF GateInv
<1>4. SignInCap
  <2>1. {s \in sessions : s.kind = "access" /\ family[s.pair] = s.pair /\ Active(s, acctNow)} = {}
    OBVIOUS
  <2>. QED  BY <2>1, FS_EmptySet DEF SignInCap
<1>. QED  BY <1>1, <1>2, <1>3, <1>4 DEF SessionsInv

(* Every step of a handler, of the alarm, of an operator and of the clock.  *)
LEMMA SessionsNext == SessionsInv /\ [AccountNext]_acctVars => SessionsInv'
<1>. SUFFICES ASSUME SessionsInv, [AccountNext]_acctVars PROVE SessionsInv'  OBVIOUS
<1>0. /\ acctNow \in Nat /\ acctNow >= acctNow /\ pairs \in Nat
      /\ attempts \in [Object -> SUBSET [n : Nat, at : Nat, ok : BOOLEAN]]
      /\ \A o \in Object : IsFiniteSet(attempts[o])
      /\ sign \in [SignIn -> SignInHandler]
      /\ \A h \in SignIn : sign[h].at \in Nat /\ sign[h].at <= acctNow
  BY DEF SessionsInv, AccountTypes, SignInHandler
<1>1. ASSUME acctNow' \in Nat, acctNow' >= acctNow, sessions' \subseteq sessions,
             UNCHANGED <<pairs, family, rotations>>, GateInv',
             attempts' \in [Object -> SUBSET [n : Nat, at : Nat, ok : BOOLEAN]],
             \A o \in Object : IsFiniteSet(attempts'[o]),
             (sign \in [SignIn -> SignInHandler])', (\A g \in SignIn : sign[g].at <= acctNow)'
      PROVE  SessionsInv'
  <2>1. /\ Lineage' /\ SignInCap'
        /\ sessions' \subseteq SessionRow' /\ IsFiniteSet(sessions')
        /\ (family \in [1..pairs -> 1..pairs])' /\ (rotations \in [1..pairs -> Nat])'
    BY <1>1, RowsStay, Zenon
  <2>2. pairs' \in Nat  BY <1>0, <1>1
  <2>3. AccountTypes'  BY <1>1, <2>1, <2>2, Zenon DEF AccountTypes
  <2>. QED  BY <1>1, <2>1, <2>3 DEF SessionsInv
<1>2. ASSUME UNCHANGED <<sign, pairs, family, rotations>>, acctNow' \in Nat, acctNow' >= acctNow,
             sessions' \subseteq sessions, \A o \in Object : attempts'[o] \subseteq attempts[o],
             attempts' \in [Object -> SUBSET [n : Nat, at : Nat, ok : BOOLEAN]]
      PROVE  SessionsInv'
  <2>1. \A o \in Object : Recording(o)' \subseteq Recording(o)  BY ONLY <1>2 DEF Recording
  <2>2. GateInv'  BY <1>2, <2>1, GateStays
  <2>3. \A o \in Object : IsFiniteSet(attempts'[o])  BY ONLY <1>0, <1>2, Fewer
  <2>4. (sign \in [SignIn -> SignInHandler])' /\ (\A g \in SignIn : sign[g].at <= acctNow)'
    BY <1>0, <1>2
  <2>. QED  BY ONLY <1>1, <1>2, <2>2, <2>3, <2>4
<1>3. ASSUME NEW h \in SignIn,
             LoginStart(h) \/ (\E p \in 1..pairs : RefreshStart(h, p))
               \/ (SessionIssue(h) /\ ~DeviceFree(sign[h].at))
               \/ (SessionRefresh(h) /\ ~ActiveToken(sign[h].token, "refresh", sign[h].at))
      PROVE  SessionsInv'
  <2>1. (sign \in [SignIn -> SignInHandler])' /\ (\A g \in SignIn : sign[g].at <= acctNow)'
    BY <1>3, HandlersType, Zenon
  <2>2. UNCHANGED <<acctNow, attempts, sessions, pairs, family, rotations>>
    BY <1>3, Zenon DEF LoginStart, RefreshStart, SessionIssue, SessionRefresh
  <2>3. \A g \in SignIn : sign'[g] = sign[g] \/ sign'[g].pc # "record"
    <3>1. CASE sign' = [sign EXCEPT ![h] = NoSign]  BY <1>0, <3>1 DEF NoSign
    <3>2. CASE LoginStart(h)
      <4>1. PICK k : k = (account = "active")  OBVIOUS
      <4>2. PICK o : o = IF account = "absent" THEN "unknown" ELSE "account"  OBVIOUS
      <4>3. sign' = [sign EXCEPT ![h] = [NoSign EXCEPT !.pc = "gate", !.kind = "login",
                                            !.at = acctNow, !.known = k, !.object = o]]
        BY <3>2, <4>1, <4>2, Zenon DEF LoginStart
      <4>. QED  BY <1>0, <4>3 DEF NoSign
    <3>3. ASSUME NEW p \in 1..pairs, RefreshStart(h, p)
          PROVE  \A g \in SignIn : sign'[g] = sign[g] \/ sign'[g].pc # "record"
      BY <1>0, <3>3 DEF RefreshStart, NoSign
    <3>. QED  BY ONLY <1>3, <3>1, <3>2, <3>3, Zenon DEF SessionIssue, SessionRefresh
  <2>4. \A o \in Object : Recording(o)' \subseteq Recording(o)  BY <2>3, Zenon DEF Recording
  <2>5. GateInv'  BY <1>0, <2>2, <2>4, GateStays, Zenon
  <2>. QED  BY ONLY <1>0, <1>1, <2>1, <2>2, <2>5, Zenon
<1>4. ASSUME NEW h \in SignIn, NEW b \in BOOLEAN, LoginGate(h, b) PROVE SessionsInv'
  <2>1. (sign \in [SignIn -> SignInHandler])' /\ (\A g \in SignIn : sign[g].at <= acctNow)'
    BY <1>4, HandlersType, Zenon
  <2>2. UNCHANGED <<acctNow, attempts, sessions, pairs, family, rotations>>
    BY <1>4 DEF LoginGate
  <2>3. GateInv'  BY <1>4, GateOpens
  <2>. QED  BY <1>0, <1>1, <2>1, <2>2, <2>3
<1>5. ASSUME NEW h \in SignIn, NEW b \in BOOLEAN, LoginRecord(h, b) PROVE SessionsInv'
  <2>1. (sign \in [SignIn -> SignInHandler])' /\ (\A g \in SignIn : sign[g].at <= acctNow)'
    BY <1>5, HandlersType, Zenon
  <2>2. UNCHANGED <<acctNow, sessions, pairs, family, rotations>>
    BY <1>5 DEF LoginRecord
  <2>3. GateInv'  BY <1>5, RecordKeeps
  <2>4. /\ attempts' \in [Object -> SUBSET [n : Nat, at : Nat, ok : BOOLEAN]]
        /\ \A o \in Object : IsFiniteSet(attempts'[o])
    BY <1>5, AttemptsType, Zenon
  <2>. QED  BY ONLY <1>0, <1>1, <2>1, <2>2, <2>3, <2>4, Zenon
<1>6. ASSUME NEW h \in SignIn,
             \/ SessionIssue(h) /\ DeviceFree(sign[h].at)
             \/ SessionRefresh(h) /\ ActiveToken(sign[h].token, "refresh", sign[h].at)
      PROVE  SessionsInv'
  <2>1. (sign \in [SignIn -> SignInHandler])' /\ (\A g \in SignIn : sign[g].at <= acctNow)'
    BY <1>6, HandlersType, Zenon
  <2>2. UNCHANGED <<acctNow, attempts>>  BY ONLY <1>6 DEF SessionIssue, SessionRefresh
  <2>3. \A g \in SignIn : sign'[g] = sign[g] \/ sign'[g].pc # "record"
    BY ONLY <1>0, <1>6 DEF SessionIssue, SessionRefresh, NoSign
  <2>4. \A o \in Object : Recording(o)' \subseteq Recording(o)  BY <2>3, Zenon DEF Recording
  <2>5. GateInv'  BY <1>0, <2>2, <2>4, GateStays
  <2>6. /\ Lineage' /\ SignInCap'
        /\ pairs' \in Nat /\ sessions' \subseteq SessionRow' /\ IsFiniteSet(sessions')
        /\ (family \in [1..pairs -> 1..pairs])' /\ (rotations \in [1..pairs -> Nat])'
    BY <1>6, IssueKeeps, RefreshKeeps, Zenon
  <2>7. acctNow' \in Nat /\ attempts' \in [Object -> SUBSET [n : Nat, at : Nat, ok : BOOLEAN]]
        /\ \A o \in Object : IsFiniteSet(attempts'[o])
    BY <1>0, <2>2
  <2>8. AccountTypes'  BY <2>1, <2>6, <2>7, Zenon DEF AccountTypes
  <2>. QED  BY <2>5, <2>6, <2>8 DEF SessionsInv
<1>7. ASSUME NEW p \in 1..pairs, Logout(p) PROVE SessionsInv'
  BY <1>7, LogoutKeeps
<1>8. CASE AccountAlarm
  <2>1. /\ UNCHANGED <<acctNow, sign, pairs, family, rotations>> /\ sessions' \subseteq sessions
        /\ \A o \in Object : attempts'[o] \subseteq attempts[o]
        /\ attempts' \in [Object -> SUBSET [n : Nat, at : Nat, ok : BOOLEAN]]
    BY <1>0, <1>8 DEF AccountAlarm
  <2>. QED  BY <1>0, <1>2, <2>1, Zenon
<1>9. CASE AccountChange \/ UNCHANGED acctVars
  <2>1. UNCHANGED <<acctNow, sign, pairs, family, rotations, sessions, attempts>>
    BY <1>9 DEF AccountChange, acctVars
  <2>. QED  BY ONLY <1>0, <1>2, <2>1
<1>10. CASE AccountTick
  <2>1. acctNow' = acctNow + 1 /\ UNCHANGED <<sign, pairs, family, rotations, sessions, attempts>>
    BY <1>10 DEF AccountTick
  <2>2. acctNow' \in Nat /\ acctNow' >= acctNow  BY <1>0, <2>1
  <2>. QED  BY <1>0, <1>2, <2>1, <2>2
<1>. QED
  BY <1>3, <1>4, <1>5, <1>6, <1>7, <1>8, <1>9, <1>10, Zenon DEF AccountNext, LoginStep, SessionStep

(* A sign-in has one live token pair, a refresh token works once, and the   *)
(* sign-ins and failed attempts stay within their limits, for any number of *)
(* overlapping logins, refreshes and logouts and any values of the limits   *)
(* (login, refresh and logout of account.rs, durable/account.rs).           *)
THEOREM SessionsSafe == AccountSpec => []SessionsBounded
<1>1. SessionsInv => SessionsBounded
  <2>. SUFFICES ASSUME SessionsInv PROVE SessionsBounded  OBVIOUS
  <2>1. OneLivePerSignIn
    <3>1. SUFFICES ASSUME NEW s \in sessions, NEW u \in sessions, Active(s, acctNow),
                          Active(u, acctNow), s.kind = u.kind, family[s.pair] = family[u.pair]
                   PROVE  s = u
      BY DEF OneLivePerSignIn
    <3>2. ~s.revoked /\ ~u.revoked  BY <3>1 DEF Active
    <3>3. s.pair = u.pair  BY <3>1, <3>2, Zenon DEF SessionsInv, Lineage
    <3>. QED  BY <3>1, <3>3, Zenon DEF SessionsInv, Lineage
  <2>2. FailuresBounded
    <3>1. SUFFICES ASSUME NEW o \in Object
                   PROVE  Cardinality(Failures(o, acctNow)) < MAX_FAILED_ATTEMPTS + Cardinality(SignIn)
      BY DEF FailuresBounded
    <3>2. Recording(o) \subseteq SignIn  BY DEF Recording
    <3>3. Failures(o, acctNow) \subseteq attempts[o] /\ IsFiniteSet(attempts[o])
      BY DEF Failures, SessionsInv, AccountTypes
    <3>4. Cardinality(Recording(o)) \in Nat /\ Cardinality(SignIn) \in Nat  BY <3>2, Fewer
    <3>5. Cardinality(Failures(o, acctNow)) \in Nat  BY <3>3, Fewer, Zenon
    <3>6. Cardinality(Failures(o, acctNow)) + Cardinality(Recording(o))
            < MAX_FAILED_ATTEMPTS + Cardinality(SignIn)
      BY DEF SessionsInv, GateInv
    <3>. QED  BY <3>4, <3>5, <3>6
  <2>. QED  BY <2>1, <2>2 DEF SessionsBounded, SessionsInv, Lineage
<1>. QED  BY <1>1, SessionsInit, SessionsNext, PTL DEF AccountSpec
=============================================================================
