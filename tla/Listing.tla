------------------------------ MODULE Listing ------------------------------
(***************************************************************************)
(* Reading a table page by page while it changes: GET /v1/admin/machines   *)
(* (admin_resources/machines.rs), in the order of (first_seen_at, id), and *)
(* GET /v1/admin/audit (admin_resources/audit_admin.rs), newest first.     *)
(* The cursor is the place of the last row of the page before.  Between    *)
(* two pages, projections insert machines and change their status, erasure *)
(* deletes them, and Admin operations append events.                       *)
(***************************************************************************)
EXTENDS Integers, FiniteSets

CONSTANTS
  GMachine,     \* machine ids: naturals, ordered as their bytes are
  GMaxSeen,     \* bound: seconds at which machines are first seen
  GMaxEvent,    \* bound: audit events
  GLimit        \* rows of a page

ASSUME GBounds == GMachine \subseteq Nat /\ {GMaxSeen, GMaxEvent} \subseteq Nat /\ GLimit \in Nat \ {0}

VARIABLES
  machineList,  \* D1 machines: [id, seen, status], one per id
  firstSeen,    \* activations.created_at of each id in its LicenseDO, 0 before
  seenNow,      \* the present second
  eventList,    \* D1 admin_audit_events: [id, seen, status]; id is seq, status the target
  reader        \* the caller's walk through the pages

listingVars == <<machineList, firstSeen, seenNow, eventList, reader>>

GStatus == {"active", "released"}

(* The row a page ended with; Nowhere before the first page. *)
Nowhere == [id |-> 0, seen |-> 0, status |-> "none"]

Matching(list, filter) == {r \in list : filter = "any" \/ r.status = filter}

AfterSeen(of, r, c) ==
  c = Nowhere \/ IF of = "machines" THEN r.seen > c.seen ELSE r.id < c.id
(* The cursor's WHERE clause, which is also the ORDER BY of the query. *)
After(of, r, c) ==
  c = Nowhere \/ IF of = "machines" THEN r.seen > c.seen \/ (r.seen = c.seen /\ r.id > c.id)
                                    ELSE r.id < c.id

Before(of, r, c) ==
  IF of = "machines" THEN r.seen < c.seen \/ (r.seen = c.seen /\ r.id < c.id) ELSE r.id > c.id

(* ORDER BY ... LIMIT limit + 1, truncated; the cursor is its last row. *)
PageOf(of, found) == {r \in found : Cardinality({x \in found : Before(of, x, r)}) < GLimit}
LastOf(of, page) == CHOOSE r \in page : \A x \in page \ {r} : Before(of, x, r)

TableOf(of) == IF of = "machines" THEN machineList ELSE eventList

NoWalk == [of |-> "none", filter |-> "any", cursor |-> Nowhere, got |-> {}, twice |-> FALSE,
         due |-> {}, done |-> TRUE]

OpenList(of, filter) ==
  /\ reader.of = "none"
  /\ reader' = [NoWalk EXCEPT !.of = of, !.filter = filter, !.done = FALSE,
                            !.due = {r.id : r \in Matching(TableOf(of), filter)}]
  /\ UNCHANGED <<machineList, firstSeen, seenNow, eventList>>

(* One request: the rows after the cursor; no next_cursor on the last page. *)
FetchPage ==
  LET of == reader.of
      found == {r \in Matching(TableOf(of), reader.filter) : After(of, r, reader.cursor)}
      page == PageOf(of, found)
      ids == {r.id : r \in page}
  IN /\ ~reader.done
     /\ reader' = [reader EXCEPT !.got = @ \cup ids,
                                 !.twice = @ \/ ids \cap reader.got # {},
                                 !.cursor = IF page = found THEN @ ELSE LastOf(of, page),
                                 !.done = page = found]
     /\ UNCHANGED <<machineList, firstSeen, seenNow, eventList>>

(* What the reader can count on: rows that matched all along. *)
Still(of, list) ==
  reader' = [reader EXCEPT !.due = IF reader.of = of
               THEN @ \cap {r.id : r \in Matching(list, reader.filter)} ELSE @]

(* A projection of a machine: first_seen_at is its activation's created_at. *)
ProjectMachine(m, status) ==
  LET seen == IF firstSeen[m] = 0 THEN seenNow ELSE firstSeen[m]
  IN /\ firstSeen' = [firstSeen EXCEPT ![m] = seen]
     /\ machineList' = {r \in machineList : r.id # m} \cup {[id |-> m, seen |-> seen, status |-> status]}
     /\ Still("machines", machineList')
     /\ UNCHANGED <<seenNow, eventList>>

(* DELETE /v1/admin/machines/{id}, or an erasure request *)
EraseMachine(m) ==
  /\ \E r \in machineList : r.id = m
  /\ machineList' = {r \in machineList : r.id # m}
  /\ Still("machines", machineList')
  /\ UNCHANGED <<firstSeen, seenNow, eventList>>

AppendListed(target) ==
  /\ Cardinality(eventList) < GMaxEvent
  /\ eventList' = eventList \cup {[id |-> Cardinality(eventList) + 1, seen |-> 0, status |-> target]}
  /\ Still("events", eventList')
  /\ UNCHANGED <<machineList, firstSeen, seenNow>>

NextSecond ==
  /\ seenNow < GMaxSeen
  /\ seenNow' = seenNow + 1
  /\ UNCHANGED <<machineList, firstSeen, eventList, reader>>

ListingInit ==
  /\ machineList = {} /\ eventList = {}
  /\ firstSeen = [m \in GMachine |-> 0]
  /\ seenNow = 1
  /\ reader = NoWalk

ListingNext ==
  \/ \E of \in {"machines", "events"}, filter \in GStatus \cup {"any"} : OpenList(of, filter)
  \/ FetchPage
  \/ \E m \in GMachine : (\E status \in GStatus : ProjectMachine(m, status)) \/ EraseMachine(m)
  \/ \E target \in GStatus : AppendListed(target)
  \/ NextSecond

(* A walk through the pages returns every row that matched its filter from *)
(* the first request to the last, and none twice, although machines of the *)
(* same second, erasures and insertions fall between its pages (list).     *)
PagedOnce == ~reader.twice /\ (reader.done => reader.due \subseteq reader.got)
=============================================================================
