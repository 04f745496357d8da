------------------------- MODULE ReservationsProofs -------------------------
(***************************************************************************)
(* What holds of the reservation repository for any persons, resources,    *)
(* calls, faults and number of concurrent requests.                        *)
(***************************************************************************)
EXTENDS Reservations, FiniteSetTheorems, TLAPS

USE ReservationConstants

Keys(t) == IF t \in {"resources", "slots"} THEN Resources ELSE Requests

RowsOf(t) == CASE t = "resources"    -> ResourceStatuses \cup {NoRow}
               [] t = "slots"        -> {"generated", NoRow}
               [] t = "bookings"     -> Booking \cup {NoRow}
               [] t = "participants" -> Persons \cup {NoRow}

-----------------------------------------------------------------------------
(* The store, table by table.                                               *)

LEMMA TablesOfStore ==
    ASSUME NEW s \in Store, NEW t \in Tables
    PROVE  s[t] \in [Keys(t) -> RowsOf(t)]
  BY DEF Store, Tables, Keys, RowsOf

LEMMA StoreWithTable ==
    ASSUME NEW s \in Store, NEW t \in Tables, NEW rows \in [Keys(t) -> RowsOf(t)]
    PROVE  [s EXCEPT ![t] = rows] \in Store
<1>1. CASE t = "resources"
  BY <1>1 DEF Store, Keys, RowsOf
<1>2. CASE t = "slots"
  BY <1>2 DEF Store, Keys, RowsOf
<1>3. CASE t = "bookings"
  BY <1>3 DEF Store, Keys, RowsOf
<1>4. CASE t = "participants"
  BY <1>4 DEF Store, Keys, RowsOf
<1> QED
  BY <1>1, <1>2, <1>3, <1>4 DEF Tables

LEMMA NoStoreIsAStore == NoStore \in Store
  BY DEF NoStore, Store

LEMMA UpsertKeepsTable ==
    ASSUME NEW t \in Tables, NEW a \in [Keys(t) -> RowsOf(t)],
           NEW b \in [Keys(t) -> RowsOf(t)]
    PROVE  Upsert(a, b) \in [Keys(t) -> RowsOf(t)]
  BY DEF Upsert

LEMMA VisibleIsATable ==
    ASSUME TypeOK, NEW p, NEW t \in Tables
    PROVE  Visible(p, t) \in [Keys(t) -> RowsOf(t)]
<1>1. db[t] \in [Keys(t) -> RowsOf(t)]
  BY TablesOfStore DEF TypeOK
<1>2. NoRow \in RowsOf(t)
  BY DEF RowsOf, Tables
<1> QED
  BY <1>1, <1>2 DEF Visible

-----------------------------------------------------------------------------

\* A request that has started carries a call, whose kind tells its fields.
LEMMA StartedRequestsHaveCalls ==
    ASSUME TypeOK, NEW q \in Requests, pc[q] # "idle"
    PROVE  /\ call[q] \in Calls
           /\ call[q].kind = "book" => call[q] \in BookCalls
           /\ call[q].kind = "patch" => call[q] \in PatchCalls
           /\ call[q].kind = "manage" => call[q] \in ManageCalls
           /\ call[q].kind = "create" => call[q] \in CreateCalls
<1>1. call[q] \in Calls
  BY DEF TypeOK
<1>2. \/ call[q] \in BookCalls /\ call[q].kind = "book"
      \/ call[q] \in PatchCalls /\ call[q].kind = "patch"
      \/ call[q] \in ManageCalls /\ call[q].kind = "manage"
      \/ call[q] \in CreateCalls /\ call[q].kind = "create"
  BY <1>1 DEF BookCalls, PatchCalls, ManageCalls, CreateCalls
<1> QED
  BY <1>1, <1>2

\* The database, the snapshots and the bookkeeping of the requests keep their
\* types whatever the calls and the failures.
LEMMA TypeStep ==
    ASSUME TypeOK, [Next]_vars
    PROVE  TypeOK'
<1> USE DEF TypeOK
<1>1. ASSUME NEW q \in Requests, NEW c \in Calls, Start(q, c)
      PROVE  TypeOK'
  BY <1>1 DEF Start
<1>2. ASSUME NEW q \in Requests, NEW t \in Tables, Read(q, t)
      PROVE  TypeOK'
  <2>1. [snap[q] EXCEPT ![t] = Visible(call[q].by, t)] \in Store
    BY VisibleIsATable, StoreWithTable
  <2> QED
    BY <1>2, <2>1 DEF Read
<1>3. ASSUME NEW q \in Requests, NEW answer \in {"ok", "rejected", "error", "lost"},
             pc[q] # "idle", End(q, answer), notices' \subseteq Requests, audits' \subseteq Requests
      PROVE  TypeOK'
  BY <1>3, NoStoreIsAStore DEF End
<1>4. ASSUME NEW q \in Requests, NEW t \in Tables, FailRead(q, t)
      PROVE  TypeOK'
  <2>1. CASE t = "resources"
    BY <1>3, <1>4, <2>1 DEF FailRead
  <2>2. CASE t # "resources"
    BY <1>4, <2>2 DEF FailRead
  <2> QED
    BY <2>1, <2>2
<1>5. ASSUME NEW q \in Requests, NEW s \in Store, pc[q] # "idle", Write(q, s)
      PROVE  TypeOK'
  BY <1>5 DEF Write
<1>6. ASSUME NEW q \in Requests, pc[q] # "idle", Reject(q)
      PROVE  TypeOK'
  BY <1>3, <1>6 DEF Reject
<1>7. ASSUME NEW q \in Requests, DecideBook(q)
      PROVE  TypeOK'
  <2> DEFINE c == call[q]
             row == [by |-> c.by, resource |-> c.resource, context |-> c.context,
                     window |-> c.window, party |-> c.party,
                     status |-> IF NeedsApproval[c.resource] THEN "pending" ELSE "confirmed"]
             s == [snap[q] EXCEPT !.bookings[q] = row, !.participants[q] = c.by]
  <2>1. c \in BookCalls
    BY <1>7, StartedRequestsHaveCalls DEF DecideBook, Ready
  <2>2. row \in Booking
    BY <2>1 DEF BookCalls, Booking, BookingStatuses
  <2>3. c.by \in Persons
    BY <2>1 DEF BookCalls
  <2> HIDE DEF row, c
  <2>4. s \in Store
    BY <2>2, <2>3 DEF Store
  <2> HIDE DEF s
  <2>5. Write(q, s) \/ Reject(q)
    BY <1>7 DEF DecideBook, s, row, c
  <2> QED
    BY <1>5, <1>6, <1>7, <2>4, <2>5 DEF DecideBook, Ready
<1>8. ASSUME NEW q \in Requests, DecidePatch(q)
      PROVE  TypeOK'
  <2> DEFINE c == call[q]
             k == c.target
             b == Patched(snap[q].bookings[k], c)
             s == [snap[q] EXCEPT !.bookings[k] = b]
  <2>1. c \in PatchCalls
    BY <1>8, StartedRequestsHaveCalls DEF DecidePatch, Ready
  <2>2. CASE MayPatch(snap[q], c)
    <3>1. snap[q].bookings[k] \in Booking
      BY <2>1, <2>2 DEF MayPatch, Store, PatchCalls
    <3>2. b \in Booking
      BY <2>1, <3>1 DEF Patched, Booking, PatchCalls
    <3>3. k \in Requests
      BY <2>1 DEF PatchCalls
    <3>4. Write(q, s)
      BY <1>8, <2>2 DEF DecidePatch
    <3> HIDE DEF b, k, c
    <3>5. s \in Store
      BY <3>2, <3>3 DEF Store
    <3> QED
      BY <1>5, <1>8, <3>4, <3>5 DEF DecidePatch, Ready
  <2>3. CASE ~MayPatch(snap[q], c)
    BY <1>6, <1>8, <2>3 DEF DecidePatch, Ready
  <2> QED
    BY <2>2, <2>3
<1>9. ASSUME NEW q \in Requests, DecideManage(q)
      PROVE  TypeOK'
  <2>1. call[q] \in ManageCalls
    BY <1>9, StartedRequestsHaveCalls DEF DecideManage, Ready
  <2>2. [snap[q] EXCEPT !.resources[call[q].resource] = call[q].status] \in Store
    BY <2>1 DEF Store, ManageCalls
  <2> QED
    BY <1>5, <1>6, <1>9, <2>2 DEF DecideManage, Ready
<1>10. ASSUME NEW q \in Requests, DecideCreate(q)
       PROVE  TypeOK'
  <2>1. call[q] \in CreateCalls
    BY <1>10, StartedRequestsHaveCalls DEF DecideCreate, Ready
  <2> DEFINE r == call[q].resource
  <2>2. [snap[q] EXCEPT !.resources[r] = "active", !.slots[r] = "generated"] \in Store
    <3>1. r \in Resources
      BY <2>1 DEF CreateCalls
    <3> DEFINE s == [snap[q] EXCEPT !.resources[r] = "active"]
    <3> HIDE DEF r
    <3>2. s \in Store
      BY <3>1 DEF Store, ResourceStatuses
    <3>3. [s EXCEPT !.slots[r] = "generated"] \in Store
      <4> HIDE DEF s
      <4> QED
        BY <3>1, <3>2 DEF Store
    <3> QED
      BY <3>3
  <2> QED
    BY <1>5, <1>10, <2>2 DEF DecideCreate, Ready
<1>11. ASSUME NEW q \in Requests, NEW t \in Tables, Commit(q, t)
       PROVE  TypeOK'
  <2>1. db' \in Store
    <3>1. Upsert(db[t], snap[q][t]) \in [Keys(t) -> RowsOf(t)]
      BY TablesOfStore, UpsertKeepsTable
    <3> QED
      BY <1>11, <3>1, StoreWithTable DEF Commit
  <2>2. unchecked' \subseteq Requests
    <3>1. call[q].kind = "patch" => call[q].target \in Requests
      BY <1>11, StartedRequestsHaveCalls DEF Commit, PatchCalls
    <3> QED
      BY <1>11, <3>1 DEF Commit, Uncounted
  <2>3. failed' \in [Requests -> BOOLEAN]
    BY <1>11 DEF Commit
  <2> QED
    BY <1>11, <2>1, <2>2, <2>3 DEF Commit
<1>12. ASSUME NEW q \in Requests, NEW t \in Tables, FailWrite(q, t)
       PROVE  TypeOK'
  BY <1>12 DEF FailWrite
<1>13. ASSUME NEW q \in Requests, Finish(q)
       PROVE  TypeOK'
  <2>1. notices' \subseteq Requests /\ audits' \subseteq Requests
    BY <1>13 DEF Finish, Verdict
  <2> QED
    BY <1>3, <1>13, <2>1 DEF Finish, Verdict
<1>14. ASSUME NEW q \in Requests, Crash(q)
       PROVE  TypeOK'
  BY <1>3, <1>14 DEF Crash, InFlight
<1>15. CASE UNCHANGED vars
  BY <1>15 DEF vars
<1> QED
  BY <1>1, <1>2, <1>4, <1>7, <1>8, <1>9, <1>10, <1>11, <1>12, <1>13, <1>14, <1>15 DEF Next

LEMMA TypeInit == Init => TypeOK
<1> SUFFICES ASSUME Init PROVE TypeOK
  OBVIOUS
<1>1. db \in Store
  BY NoStoreIsAStore DEF Init, NoStore, Store, ResourceStatuses
<1>2. snap \in [Requests -> Store]
  BY NoStoreIsAStore DEF Init
<1> QED
  BY <1>1, <1>2 DEF Init, TypeOK

THEOREM ReservationsTypeCorrect == Spec => []TypeOK
  BY TypeInit, TypeStep, PTL DEF Spec

-----------------------------------------------------------------------------
(* Rows and the requests they come from.                                    *)

\* A request past its decision stays there and keeps its call.
LEMMA AskedIsStable ==
    ASSUME TypeOK, [Next]_vars, NEW k \in Requests, Asked(k)
    PROVE  Asked(k)' /\ call'[k] = call[k]
<1> USE DEF TypeOK, Asked
<1>1. ASSUME NEW q \in Requests, NEW answer \in {"ok", "rejected", "error", "lost"},
             End(q, answer)
      PROVE  Asked(k)' /\ call'[k] = call[k]
  BY <1>1 DEF End
<1>2. ASSUME NEW q \in Requests, NEW s, Write(q, s)
      PROVE  Asked(k)' /\ call'[k] = call[k]
  BY <1>2 DEF Write
<1>3. ASSUME NEW q \in Requests, NEW c \in Calls, Start(q, c)
      PROVE  Asked(k)' /\ call'[k] = call[k]
  BY <1>3 DEF Start
<1>4. ASSUME NEW q \in Requests, NEW t \in Tables,
             Read(q, t) \/ FailRead(q, t) \/ Commit(q, t) \/ FailWrite(q, t)
      PROVE  Asked(k)' /\ call'[k] = call[k]
  BY <1>1, <1>4 DEF Read, FailRead, Commit, FailWrite
<1>5. ASSUME NEW q \in Requests,
             DecideBook(q) \/ DecidePatch(q) \/ DecideManage(q) \/ DecideCreate(q)
      PROVE  Asked(k)' /\ call'[k] = call[k]
  BY <1>1, <1>2, <1>5 DEF DecideBook, DecidePatch, DecideManage, DecideCreate, Reject
<1>6. ASSUME NEW q \in Requests, Finish(q) \/ Crash(q)
      PROVE  Asked(k)' /\ call'[k] = call[k]
  BY <1>1, <1>6 DEF Finish, Verdict, Crash
<1>7. CASE UNCHANGED vars
  BY <1>7 DEF vars
<1> QED
  BY <1>3, <1>4, <1>5, <1>6, <1>7 DEF Next

\* A store whose rows are each taken from stores that were as asked.
LEMMA RowsStayAsAsked ==
    ASSUME TypeOK, [Next]_vars, NEW s,
           \A k \in Requests :
              /\ s.bookings[k] # NoRow =>
                    Asked(k) /\ Identity(s.bookings[k]) = Identity(call[k])
              /\ s.participants[k] # NoRow =>
                    Asked(k) /\ s.participants[k] = call[k].by
    PROVE  \A k \in Requests :
              /\ s.bookings[k] # NoRow =>
                    Asked(k)' /\ Identity(s.bookings[k]) = Identity(call'[k])
              /\ s.participants[k] # NoRow =>
                    Asked(k)' /\ s.participants[k] = call'[k].by
  BY AskedIsStable

LEMMA RowsMatchCallsStep ==
    ASSUME TypeOK, RowsMatchCalls, [Next]_vars
    PROVE  RowsMatchCalls'
<1> DEFINE Good(s) == \A k \in Requests :
              /\ s.bookings[k] # NoRow =>
                    Asked(k)' /\ Identity(s.bookings[k]) = Identity(call'[k])
              /\ s.participants[k] # NoRow =>
                    Asked(k)' /\ s.participants[k] = call'[k].by
<1> SUFFICES Good(db') /\ \A p \in Requests : Good(snap'[p])
  BY DEF RowsMatchCalls, RowsAreAsAsked
<1>a. Good(db) /\ \A p \in Requests : Good(snap[p])
  BY RowsStayAsAsked DEF RowsMatchCalls, RowsAreAsAsked
<1>b. Good(NoStore)
  BY DEF NoStore
<1>t. snap \in [Requests -> Store] /\ db \in Store
  BY DEF TypeOK
<1>1. ASSUME NEW q \in Requests, NEW answer, End(q, answer)
      PROVE  Good(db') /\ \A p \in Requests : Good(snap'[p])
  <2>1. db' = db /\ \A p \in Requests : snap'[p] = snap[p] \/ snap'[p] = NoStore
    BY <1>1, <1>t DEF End
  <2> HIDE DEF Good
  <2> QED
    BY <2>1, <1>a, <1>b
<1>2. ASSUME NEW q \in Requests, NEW s, Write(q, s), Good(s)
      PROVE  Good(db') /\ \A p \in Requests : Good(snap'[p])
  <2>1. db' = db /\ \A p \in Requests : snap'[p] = snap[p] \/ snap'[p] = s
    BY <1>2, <1>t DEF Write
  <2> HIDE DEF Good
  <2> QED
    BY <2>1, <1>2, <1>a
<1>3. ASSUME NEW q \in Requests, NEW c \in Calls, Start(q, c)
      PROVE  Good(db') /\ \A p \in Requests : Good(snap'[p])
  <2>1. db' = db /\ snap' = snap
    BY <1>3 DEF Start
  <2> HIDE DEF Good
  <2> QED
    BY <2>1, <1>a
<1>4. ASSUME NEW q \in Requests, NEW t \in Tables, Read(q, t)
      PROVE  Good(db') /\ \A p \in Requests : Good(snap'[p])
  <2> DEFINE s == [snap[q] EXCEPT ![t] = Visible(call[q].by, t)]
  <2>1. db' = db /\ \A p \in Requests : snap'[p] = snap[p] \/ snap'[p] = s
    BY <1>4, <1>t DEF Read
  <2>2. Good(s)
    <3>1. CASE t = "bookings"
      <4>1. /\ s.participants = snap[q].participants
            /\ \A k \in Requests : s.bookings[k] \in {NoRow, db.bookings[k]}
        BY <1>t, <3>1 DEF Store, Visible
      <4> HIDE DEF s
      <4> QED
        BY <4>1, <1>a
    <3>2. CASE t = "participants"
      <4>1. /\ s.bookings = snap[q].bookings
            /\ \A k \in Requests : s.participants[k] \in {NoRow, db.participants[k]}
        BY <1>t, <3>2 DEF Store, Visible
      <4> HIDE DEF s
      <4> QED
        BY <4>1, <1>a
    <3>3. CASE t \notin {"bookings", "participants"}
      <4>1. s.bookings = snap[q].bookings /\ s.participants = snap[q].participants
        BY <1>t, <3>3 DEF Store
      <4> HIDE DEF s
      <4> QED
        BY <4>1, <1>a
    <3> QED
      BY <3>1, <3>2, <3>3
  <2> HIDE DEF Good, s
  <2> QED
    BY <2>1, <2>2, <1>a
<1>5. ASSUME NEW q \in Requests, NEW t \in Tables, FailRead(q, t)
      PROVE  Good(db') /\ \A p \in Requests : Good(snap'[p])
  <2>1. CASE t = "resources"
    BY <1>1, <1>5, <2>1 DEF FailRead
  <2>2. CASE t # "resources"
    <3>1. db' = db /\ snap' = snap
      BY <1>5, <2>2 DEF FailRead
    <3> HIDE DEF Good
    <3> QED
      BY <3>1, <1>a
  <2> QED
    BY <2>1, <2>2
<1>6. ASSUME NEW q \in Requests, DecideBook(q)
      PROVE  Good(db') /\ \A p \in Requests : Good(snap'[p])
  <2> DEFINE c == call[q]
             row == [by |-> c.by, resource |-> c.resource, context |-> c.context,
                     window |-> c.window, party |-> c.party,
                     status |-> IF NeedsApproval[c.resource] THEN "pending" ELSE "confirmed"]
             s == [snap[q] EXCEPT !.bookings[q] = row, !.participants[q] = c.by]
  <2>1. CASE Write(q, s)
    <3>1. Asked(q)' /\ call'[q] = c
      BY <1>6, <2>1 DEF DecideBook, Ready, Write, Asked, TypeOK
    <3>2. Identity(row) = Identity(c)
      BY DEF Identity
    <3>3. /\ s.bookings[q] = row /\ s.participants[q] = c.by
          /\ \A k \in Requests \ {q} : /\ s.bookings[k] = snap[q].bookings[k]
                                       /\ s.participants[k] = snap[q].participants[k]
      BY <1>t DEF Store
    <3> HIDE DEF s, row, c
    <3>4. Good(s)
      BY <3>1, <3>2, <3>3, <1>a
    <3> QED
      BY <1>2, <2>1, <3>4
  <2>2. CASE Reject(q)
    BY <1>1, <2>2 DEF Reject
  <2> QED
    BY <1>6, <2>1, <2>2 DEF DecideBook
<1>7. ASSUME NEW q \in Requests, DecidePatch(q)
      PROVE  Good(db') /\ \A p \in Requests : Good(snap'[p])
  <2> DEFINE c == call[q]
             s == [snap[q] EXCEPT !.bookings[c.target] = Patched(@, c)]
  <2>1. CASE MayPatch(snap[q], c)
    <3>1. c.target \in Requests /\ snap[q].bookings[c.target] \in Booking
      BY <1>7, <2>1, <1>t, StartedRequestsHaveCalls
         DEF DecidePatch, Ready, PatchCalls, MayPatch, Store
    <3>2. Identity(Patched(snap[q].bookings[c.target], c))
            = Identity(snap[q].bookings[c.target])
      BY <3>1 DEF Patched, Identity, Booking
    <3>3. /\ s.participants = snap[q].participants
          /\ s.bookings[c.target] = Patched(snap[q].bookings[c.target], c)
          /\ \A k \in Requests \ {c.target} : s.bookings[k] = snap[q].bookings[k]
      BY <3>1, <1>t DEF Store
    <3>4. snap[q].bookings[c.target] # NoRow
      BY <2>1 DEF MayPatch
    <3>5. Write(q, s)
      BY <1>7, <2>1 DEF DecidePatch
    <3> HIDE DEF s, c
    <3>6. Good(s)
      BY <3>1, <3>2, <3>3, <3>4, <1>a
    <3> QED
      BY <1>2, <3>5, <3>6
  <2>2. CASE ~MayPatch(snap[q], c)
    BY <1>1, <1>7, <2>2 DEF DecidePatch, Reject
  <2> QED
    BY <2>1, <2>2
<1>8. ASSUME NEW q \in Requests, DecideManage(q)
      PROVE  Good(db') /\ \A p \in Requests : Good(snap'[p])
  <2> DEFINE s == [snap[q] EXCEPT !.resources[call[q].resource] = call[q].status]
  <2>1. s.bookings = snap[q].bookings /\ s.participants = snap[q].participants
    BY <1>t DEF Store
  <2>2. Write(q, s) \/ Reject(q)
    BY <1>8 DEF DecideManage
  <2> HIDE DEF s
  <2>3. Good(s)
    BY <2>1, <1>a
  <2> QED
    BY <1>1, <1>2, <2>2, <2>3 DEF Reject
<1>9. ASSUME NEW q \in Requests, DecideCreate(q)
      PROVE  Good(db') /\ \A p \in Requests : Good(snap'[p])
  <2> DEFINE s == [snap[q] EXCEPT !.resources[call[q].resource] = "active",
                                  !.slots[call[q].resource] = "generated"]
  <2>1. s.bookings = snap[q].bookings /\ s.participants = snap[q].participants
    BY <1>t DEF Store
  <2>2. Write(q, s)
    BY <1>9 DEF DecideCreate
  <2> HIDE DEF s
  <2>3. Good(s)
    BY <2>1, <1>a
  <2> QED
    BY <1>2, <2>2, <2>3
<1>10. ASSUME NEW q \in Requests, NEW t \in Tables, Commit(q, t)
       PROVE  Good(db') /\ \A p \in Requests : Good(snap'[p])
  <2>1. snap' = snap /\ db' = [db EXCEPT ![t] = Upsert(db[t], snap[q][t])]
    BY <1>10 DEF Commit
  <2>2. \A k \in Requests :
           /\ db'.bookings[k] \in {db.bookings[k], snap[q].bookings[k]}
           /\ db'.participants[k] \in {db.participants[k], snap[q].participants[k]}
    BY <2>1, <1>t DEF Upsert, Store, Tables
  <2>3. Good(db')
    BY <2>2, <1>a
  <2> HIDE DEF Good
  <2> QED
    BY <2>1, <2>3, <1>a
<1>11. ASSUME NEW q \in Requests, NEW t \in Tables, FailWrite(q, t)
       PROVE  Good(db') /\ \A p \in Requests : Good(snap'[p])
  <2>1. db' = db /\ snap' = snap
    BY <1>11 DEF FailWrite
  <2> HIDE DEF Good
  <2> QED
    BY <2>1, <1>a
<1>12. ASSUME NEW q \in Requests, Finish(q) \/ Crash(q)
       PROVE  Good(db') /\ \A p \in Requests : Good(snap'[p])
  BY <1>1, <1>12 DEF Finish, Crash
<1>13. CASE UNCHANGED vars
  <2>1. db' = db /\ snap' = snap
    BY <1>13 DEF vars
  <2> HIDE DEF Good
  <2> QED
    BY <2>1, <1>a
<1> QED
  BY <1>3, <1>4, <1>5, <1>6, <1>7, <1>8, <1>9, <1>10, <1>11, <1>12, <1>13 DEF Next

\* Every stored or loaded row is the one its request asked for.
THEOREM RowsMatchTheirCalls == Spec => []RowsMatchCalls
<1>1. Init => RowsMatchCalls
  BY DEF Init, RowsMatchCalls, RowsAreAsAsked, NoStore
<1> QED
  BY <1>1, RowsMatchCallsStep, ReservationsTypeCorrect, PTL DEF Spec

\* No booking is lost and none changes hands, in any interleaving.
THEOREM BookingsAreNeverLost == Spec => BookingsArePermanent
<1>1. ASSUME TypeOK, RowsMatchCalls, [Next]_vars, RowsMatchCalls'
      PROVE  [\A k \in Requests : db.bookings[k] # NoRow =>
                 /\ db'.bookings[k] # NoRow
                 /\ Identity(db'.bookings[k]) = Identity(db.bookings[k])]_vars
  <2> SUFFICES ASSUME NEW k \in Requests, db.bookings[k] # NoRow
               PROVE  /\ db'.bookings[k] # NoRow
                      /\ Identity(db'.bookings[k]) = Identity(db.bookings[k])
    OBVIOUS
  <2>1. db'.bookings[k] # NoRow
    <3>1. CASE db' = db
      BY <3>1
    <3>2. ASSUME NEW q \in Requests, NEW t \in Tables, Commit(q, t)
          PROVE  db'.bookings[k] # NoRow
      BY <1>1, <3>2 DEF Commit, Upsert, TypeOK, Store, Tables
    <3> QED
      BY <1>1, <3>1, <3>2 DEF Next, vars, Start, Read, FailRead, FailWrite, End, Write,
         DecideBook, DecidePatch, DecideManage, DecideCreate, Reject, Finish, Crash
  <2>2. Asked(k) /\ Identity(db.bookings[k]) = Identity(call[k])
    BY <1>1 DEF RowsMatchCalls, RowsAreAsAsked
  <2>3. Identity(db'.bookings[k]) = Identity(call'[k])
    BY <1>1, <2>1 DEF RowsMatchCalls, RowsAreAsAsked
  <2>4. call'[k] = call[k]
    BY <1>1, <2>2, AskedIsStable
  <2> QED
    BY <2>1, <2>2, <2>3, <2>4
<1> QED
  BY <1>1, RowsMatchTheirCalls, ReservationsTypeCorrect, PTL DEF Spec, BookingsArePermanent

-----------------------------------------------------------------------------
(* What a 201 promises.                                                     *)

\* The two rows of a booking never disappear.
LEMMA RowsAreKept ==
    ASSUME TypeOK, [Next]_vars, NEW t \in {"bookings", "participants"},
           NEW k \in Requests, db[t][k] # NoRow
    PROVE  db'[t][k] # NoRow
<1>1. CASE db' = db
  BY <1>1
<1>2. ASSUME NEW q \in Requests, NEW u \in Tables, Commit(q, u)
      PROVE  db'[t][k] # NoRow
  BY <1>2 DEF Commit, Upsert, TypeOK, Store, Tables
<1> QED
  BY <1>1, <1>2 DEF Next, vars, Start, Read, FailRead, FailWrite, End, Write,
     DecideBook, DecidePatch, DecideManage, DecideCreate, Reject, Finish, Crash

\* The two rows of booking k are stored.
BothRows(k) == db.bookings[k] # NoRow /\ db.participants[k] # NoRow

LEMMA BookingInProgressStep ==
    ASSUME TypeOK, BookingInProgress, [Next]_vars
    PROVE  BookingInProgress'
<1> SUFFICES ASSUME NEW k \in Requests, pc'[k] = "writing", call'[k].kind = "book",
                    NEW t \in {"bookings", "participants"}
             PROVE  /\ snap'[k][t][k] # NoRow
                    /\ ~failed'[k] /\ t \notin todo'[k] => db'[t][k] # NoRow
  BY DEF BookingInProgress
<1>k. db[t][k] # NoRow => db'[t][k] # NoRow
  BY RowsAreKept
<1>t. /\ pc \in [Requests -> {"idle", "reading", "writing", "ok", "rejected",
                              "error", "lost"}]
      /\ snap \in [Requests -> Store] /\ db \in Store
      /\ todo \in [Requests -> SUBSET Tables] /\ failed \in [Requests -> BOOLEAN]
  BY DEF TypeOK
\* Nothing happened to k itself.
<1>1. CASE /\ pc[k] = "writing" /\ call'[k] = call[k] /\ snap'[k] = snap[k]
           /\ todo'[k] = todo[k] /\ failed'[k] = failed[k]
  BY <1>1, <1>k DEF BookingInProgress
<1>2. ASSUME NEW q \in Requests, NEW answer \in {"ok", "rejected", "error", "lost"},
             End(q, answer)
      PROVE  /\ pc[k] = "writing" /\ call'[k] = call[k] /\ snap'[k] = snap[k]
             /\ todo'[k] = todo[k] /\ failed'[k] = failed[k]
  BY <1>2, <1>t DEF End
<1>3. ASSUME NEW q \in Requests, NEW s, Write(q, s), k # q
      PROVE  /\ pc[k] = "writing" /\ call'[k] = call[k] /\ snap'[k] = snap[k]
             /\ todo'[k] = todo[k] /\ failed'[k] = failed[k]
  BY <1>3, <1>t DEF Write
<1>4. ASSUME NEW q \in Requests, NEW c \in Calls, Start(q, c)
      PROVE  /\ pc[k] = "writing" /\ call'[k] = call[k] /\ snap'[k] = snap[k]
             /\ todo'[k] = todo[k] /\ failed'[k] = failed[k]
  BY <1>4, <1>t DEF Start, TypeOK
<1>5. ASSUME NEW q \in Requests, NEW u \in Tables, Read(q, u) \/ FailRead(q, u)
      PROVE  /\ pc[k] = "writing" /\ call'[k] = call[k] /\ snap'[k] = snap[k]
             /\ todo'[k] = todo[k] /\ failed'[k] = failed[k]
  BY <1>2, <1>5, <1>t DEF Read, FailRead
<1>6. ASSUME NEW q \in Requests, DecideBook(q)
      PROVE  /\ snap'[k][t][k] # NoRow
             /\ ~failed'[k] /\ t \notin todo'[k] => db'[t][k] # NoRow
  <2> DEFINE c == call[q]
             row == [by |-> c.by, resource |-> c.resource, context |-> c.context,
                     window |-> c.window, party |-> c.party,
                     status |-> IF NeedsApproval[c.resource] THEN "pending" ELSE "confirmed"]
             s == [snap[q] EXCEPT !.bookings[q] = row, !.participants[q] = c.by]
  <2>1. CASE Write(q, s) /\ k = q
    <3>1. c \in BookCalls
      BY <1>6, StartedRequestsHaveCalls DEF DecideBook, Ready
    <3>2. c.by # NoRow /\ row # NoRow
      BY <3>1 DEF BookCalls, Booking, BookingStatuses
    <3>3. s.bookings[q] = row /\ s.participants[q] = c.by
      BY <1>t DEF Store
    <3>4. DOMAIN s.bookings = Requests /\ DOMAIN s.participants = Requests
      BY <1>t DEF Store
    <3>5. /\ snap'[q] = s
          /\ todo'[q] = {u \in Tables : \E j \in DOMAIN s[u] : s[u][j] # NoRow}
      BY <2>1, <1>t DEF Write
    <3> HIDE DEF s, row, c
    <3> QED
      BY <2>1, <3>2, <3>3, <3>4, <3>5 DEF Tables
  <2>2. CASE Write(q, s) /\ k # q
    BY <1>1, <1>3, <2>2
  <2>3. CASE Reject(q)
    BY <1>1, <1>2, <2>3 DEF Reject
  <2> QED
    BY <1>6, <2>1, <2>2, <2>3 DEF DecideBook
<1>7. ASSUME NEW q \in Requests, DecidePatch(q) \/ DecideManage(q) \/ DecideCreate(q)
      PROVE  /\ pc[k] = "writing" /\ call'[k] = call[k] /\ snap'[k] = snap[k]
             /\ todo'[k] = todo[k] /\ failed'[k] = failed[k]
  <2>1. call[q].kind # "book" /\ call' = call
    BY <1>7 DEF DecidePatch, DecideManage, DecideCreate, Ready, Write, Reject, End
  <2>2. k # q
    BY <2>1
  <2> QED
    BY <1>2, <1>3, <1>7, <2>2 DEF DecidePatch, DecideManage, DecideCreate, Reject
<1>8. ASSUME NEW q \in Requests, NEW u \in Tables, Commit(q, u)
      PROVE  /\ snap'[k][t][k] # NoRow
             /\ ~failed'[k] /\ t \notin todo'[k] => db'[t][k] # NoRow
  <2>1. /\ pc' = pc /\ call' = call /\ snap' = snap
        /\ failed[k] => failed'[k]
        /\ snap[k][t][k] # NoRow
        /\ ~failed[k] /\ t \notin todo[k] => db[t][k] # NoRow
    BY <1>8, <1>t DEF Commit, BookingInProgress
  <2>2. CASE k = q /\ t = u
    BY <1>8, <2>1, <2>2, <1>t DEF Commit, Upsert, Store
  <2>3. CASE k # q \/ t # u
    <3>1. t \in todo'[k] <=> t \in todo[k]
      BY <1>8, <2>3, <1>t DEF Commit
    <3> QED
      BY <2>1, <3>1, <1>k
  <2> QED
    BY <2>2, <2>3
<1>9. ASSUME NEW q \in Requests, NEW u \in Tables, FailWrite(q, u)
      PROVE  /\ snap'[k][t][k] # NoRow
             /\ ~failed'[k] /\ t \notin todo'[k] => db'[t][k] # NoRow
  <2>1. CASE k # q
    BY <1>1, <1>9, <2>1, <1>t DEF FailWrite
  <2>2. CASE k = q
    BY <1>9, <2>2, <1>t DEF FailWrite, BookingInProgress
  <2> QED
    BY <2>1, <2>2
<1>10. ASSUME NEW q \in Requests, Finish(q) \/ Crash(q)
       PROVE  /\ pc[k] = "writing" /\ call'[k] = call[k] /\ snap'[k] = snap[k]
              /\ todo'[k] = todo[k] /\ failed'[k] = failed[k]
  BY <1>2, <1>10 DEF Finish, Verdict, Crash
<1>11. CASE UNCHANGED vars
  BY <1>1, <1>11 DEF vars
<1> QED
  BY <1>1, <1>4, <1>5, <1>6, <1>7, <1>8, <1>9, <1>10, <1>11 DEF Next

\* A request becomes answered, or its confirmation is sent, only by Finish.
LEMMA AnsweredStep ==
    ASSUME TypeOK, RowsMatchCalls, RowsMatchCalls', BookingInProgress,
           AnsweredBookingIsStored, [Next]_vars
    PROVE  AnsweredBookingIsStored'
<1> DEFINE Due(k) == (Answered(k) /\ call[k].kind = "book") \/ k \in notices
<1>1. ASSUME NEW k \in Requests, BothRows(k)'
      PROVE  db'.bookings[k] # NoRow /\ db'.participants[k] = db'.bookings[k].by
  BY <1>1 DEF BothRows, RowsMatchCalls, RowsAreAsAsked, Identity
<1> SUFFICES ASSUME NEW k \in Requests, Due(k)'
             PROVE  BothRows(k)'
  BY <1>1 DEF AnsweredBookingIsStored
<1>2. BothRows(k) => BothRows(k)'
  BY RowsAreKept DEF BothRows
<1>3. CASE Due(k)
  <2>1. db.bookings[k] # NoRow /\ db.participants[k] = db.bookings[k].by
    BY <1>3 DEF AnsweredBookingIsStored
  <2>2. db.bookings[k] \in Booking
    BY <2>1 DEF TypeOK, Store
  <2>3. db.participants[k] # NoRow
    BY <2>1, <2>2 DEF Booking
  <2> QED
    BY <1>2, <2>1, <2>3 DEF BothRows
<1>4. CASE ~Due(k) /\ \E q \in Requests : Finish(q)
  <2>1. PICK q \in Requests : Finish(q)
    BY <1>4
  <2>2. /\ k = q /\ call[q].kind = "book" /\ ~failed[q]
        /\ pc[q] = "writing" /\ todo[q] = {}
    BY <1>4, <2>1 DEF Finish, Verdict, End, Answered, Confirmed, TypeOK
  <2>3. BothRows(k)
    BY <2>2 DEF BookingInProgress, BothRows
  <2> QED
    BY <1>2, <2>3
<1>5. CASE ~Due(k) /\ ~\E q \in Requests : Finish(q)
  <2> USE DEF TypeOK, Answered
  <2>1. ASSUME NEW q \in Requests, NEW answer \in {"rejected", "error", "lost"},
               End(q, answer), notices' = notices
        PROVE  Due(k)
    BY <2>1, <1>5 DEF End
  <2>2. ASSUME NEW q \in Requests, NEW s, Write(q, s)
        PROVE  Due(k)
    BY <2>2, <1>5 DEF Write
  <2>3. ASSUME NEW q \in Requests, NEW c \in Calls, Start(q, c)
        PROVE  Due(k)
    BY <2>3, <1>5 DEF Start
  <2>4. ASSUME NEW q \in Requests, NEW t \in Tables,
               Read(q, t) \/ FailRead(q, t) \/ Commit(q, t) \/ FailWrite(q, t)
        PROVE  Due(k)
    BY <2>1, <2>4, <1>5 DEF Read, FailRead, Commit, FailWrite
  <2>5. ASSUME NEW q \in Requests, DecideBook(q) \/ DecidePatch(q) \/ DecideManage(q)
                                   \/ DecideCreate(q) \/ Crash(q)
        PROVE  Due(k)
    BY <2>1, <2>2, <2>5 DEF DecideBook, DecidePatch, DecideManage, DecideCreate,
                            Reject, Crash
  <2>6. CASE UNCHANGED vars
    BY <1>5, <2>6 DEF vars
  <2> QED
    BY <1>5, <2>3, <2>4, <2>5, <2>6 DEF Next
<1> QED
  BY <1>3, <1>4, <1>5

\* A booking that was answered 201, or confirmed by a notice, is stored with its
\* creator's participant row, whatever else runs or fails.
THEOREM AnsweredBookingsAreStored == Spec => []AnsweredBookingIsStored
<1>1. Init => BookingInProgress /\ AnsweredBookingIsStored
  BY DEF Init, BookingInProgress, AnsweredBookingIsStored, Answered
<1>2. /\ TypeOK /\ RowsMatchCalls /\ RowsMatchCalls'
      /\ BookingInProgress /\ AnsweredBookingIsStored /\ [Next]_vars
      => BookingInProgress' /\ AnsweredBookingIsStored'
  BY BookingInProgressStep, AnsweredStep
<1> QED
  BY <1>1, <1>2, ReservationsTypeCorrect, RowsMatchTheirCalls, PTL DEF Spec

-----------------------------------------------------------------------------
(* Row-level security.                                                      *)

\* The UPSERT that changes a booking proposes it as its own.
LEMMA CommitChangesOwn ==
    ASSUME TypeOK, Plane = "jwt", NEW q \in Requests, NEW t \in Tables, Commit(q, t),
           NEW k \in Requests, db'.bookings[k] # db.bookings[k]
    PROVE  q \in InFlight /\ todo'[q] # todo[q] /\ db'.bookings[k].by = call[q].by
<1>1. db \in Store /\ snap[q] \in Store /\ todo \in [Requests -> SUBSET Tables]
  BY DEF TypeOK
<1>2. t = "bookings" /\ db'.bookings = Upsert(db.bookings, snap[q].bookings)
  BY <1>1 DEF Commit, Store, Tables
<1>3. /\ snap[q].bookings[k] # NoRow
      /\ db'.bookings[k] = snap[q].bookings[k]
  BY <1>1, <1>2 DEF Upsert, Store
<1>4. OwnerOf("bookings", k, snap[q].bookings) = call[q].by
  <2>1. PolicyAllows(call[q].by, "bookings", snap[q].bookings)
    BY <1>2 DEF Commit
  <2>2. DOMAIN snap[q].bookings = Requests
    BY <1>1 DEF Store
  <2> QED
    BY <1>3, <2>1, <2>2 DEF PolicyAllows
<1>5. db'.bookings[k].by = call[q].by
  BY <1>3, <1>4 DEF OwnerOf
<1>6. q \in InFlight /\ todo'[q] # todo[q]
  BY <1>1 DEF Commit, InFlight
<1> QED
  BY <1>5, <1>6

\* With the client of the signed-in person no statement changes a booking of
\* anybody else, whatever stale store it proposes and whoever is staff.
THEOREM OthersBookingsAreSafe ==
    Plane = "jwt" => (Spec => OnlyOwnBookingsChange)
<1> SUFFICES ASSUME Plane = "jwt"
             PROVE  Spec => OnlyOwnBookingsChange
  OBVIOUS
<1>1. ASSUME TypeOK, [Next]_vars
      PROVE  [\A k \in Requests : db'.bookings[k] # db.bookings[k] =>
                 \E q \in InFlight : /\ todo'[q] # todo[q]
                                     /\ db'.bookings[k].by = call[q].by]_vars
  <2> SUFFICES ASSUME NEW k \in Requests, db'.bookings[k] # db.bookings[k]
               PROVE  \E q \in InFlight : /\ todo'[q] # todo[q]
                                           /\ db'.bookings[k].by = call[q].by
    OBVIOUS
  <2>1. CASE db' = db
    BY <2>1
  <2>2. ASSUME NEW q \in Requests, NEW t \in Tables, Commit(q, t)
        PROVE  \E p \in InFlight : /\ todo'[p] # todo[p]
                                   /\ db'.bookings[k].by = call[p].by
    BY <1>1, <2>2, CommitChangesOwn
  <2> QED
    BY <1>1, <2>1, <2>2 DEF Next, vars, Start, Read, FailRead, FailWrite, End, Write,
       DecideBook, DecidePatch, DecideManage, DecideCreate, Reject, Finish, Crash
<1> QED
  BY <1>1, ReservationsTypeCorrect, PTL DEF Spec, OnlyOwnBookingsChange

-----------------------------------------------------------------------------
(* One request at a time, through the service-role client and with every   *)
(* SELECT answered, the repository implements BookingLedger, so that no    *)
(* minute of a resource is oversold by the bookings that were counted.     *)
(* Writes may fail and requests may die half way.  Each of the three       *)
(* hypotheses is needed: with two requests in flight (ReservationsRace),   *)
(* with the client of the signed-in person, or with a SELECT that fails,   *)
(* the tables can be overbooked.                                           *)

\* The seats of finitely many bookings can be counted.
LEMMA SeatsAreFinite ==
    ASSUME NEW rows, NEW S, IsFiniteSet(S), NEW most \in Nat
    PROVE  /\ IsFiniteSet(SeatsOf(rows, S, most))
           /\ Cardinality(SeatsOf(rows, S, most)) \in Nat
<1>1. IsFiniteSet(1..most)
  BY FS_Interval, most \in Int, 1 \in Int
<1>2. IsFiniteSet(S \X (1..most))
  BY <1>1, FS_Product
<1>3. SeatsOf(rows, S, most) \in SUBSET (S \X (1..most))
  BY DEF SeatsOf
<1>4. IsFiniteSet(SeatsOf(rows, S, most))
  BY <1>2, <1>3, FS_Subset
<1> QED
  BY <1>4, FS_CardinalityType

\* More bookings hold no fewer seats.
LEMMA SeatsAreMonotone ==
    ASSUME NEW rows, NEW T, IsFiniteSet(T), NEW S \in SUBSET T, NEW most \in Nat
    PROVE  Cardinality(SeatsOf(rows, S, most)) <= Cardinality(SeatsOf(rows, T, most))
<1>1. IsFiniteSet(SeatsOf(rows, T, most))
  BY SeatsAreFinite
<1>2. SeatsOf(rows, S, most) \in SUBSET SeatsOf(rows, T, most)
  BY DEF SeatsOf
<1> QED
  BY <1>1, <1>2, FS_Subset

\* The seats depend on the parties only.
LEMMA SeatsDependOnParties ==
    ASSUME NEW a, NEW b, NEW S, NEW most, \A i \in S : a[i].party = b[i].party
    PROVE  SeatsOf(a, S, most) = SeatsOf(b, S, most)
  BY DEF SeatsOf

\* One more booking adds at most its party.
LEMMA SeatsOfOneMore ==
    ASSUME NEW rows, NEW S, IsFiniteSet(S), NEW i, NEW most \in Nat,
           NEW k \in 1..most, rows[i].party = k
    PROVE  Cardinality(SeatsOf(rows, S \cup {i}, most))
             <= Cardinality(SeatsOf(rows, S, most)) + k
<1> DEFINE One == {i} \X (1..k)
           Old == SeatsOf(rows, S, most)
<1>0. k \in Int /\ 1 <= k
  OBVIOUS
<1>1. IsFiniteSet(1..k) /\ Cardinality(1..k) = k
  <2>1. IsFiniteSet(1..k) /\ Cardinality(1..k) = IF 1 > k THEN 0 ELSE k - 1 + 1
    BY <1>0, FS_Interval, 1 \in Int
  <2> QED
    BY <1>0, <2>1
<1>2. IsFiniteSet({i}) /\ Cardinality({i}) = 1
  BY FS_Singleton
<1>3. IsFiniteSet(One) /\ Cardinality(One) = k
  <2> HIDE DEF One
  <2>1. IsFiniteSet(One) /\ Cardinality(One) = Cardinality({i}) * Cardinality(1..k)
    BY <1>1, <1>2, FS_Product DEF One
  <2> QED
    BY <1>1, <1>2, <2>1
<1>4. IsFiniteSet(Old) /\ Cardinality(Old) \in Nat
  BY SeatsAreFinite
<1>5. /\ IsFiniteSet(Old \cup One)
      /\ Cardinality(Old \cup One) = Cardinality(Old) + k - Cardinality(Old \cap One)
  <2> HIDE DEF One, Old
  <2> QED
    BY <1>3, <1>4, FS_Union
<1>6. Cardinality(Old \cap One) \in Nat
  BY <1>4, FS_Intersection, FS_CardinalityType
<1>7. SeatsOf(rows, S \cup {i}, most) \in SUBSET (Old \cup One)
  <2> SUFFICES ASSUME NEW s \in (S \cup {i}) \X (1..most), s[2] <= rows[s[1]].party
               PROVE  s \in Old \cup One
    BY DEF SeatsOf
  <2>1. CASE s[1] \in S
    BY <2>1 DEF SeatsOf
  <2>2. CASE s[1] = i
    BY <2>2
  <2> QED
    BY <2>1, <2>2
<1>8. Cardinality(SeatsOf(rows, S \cup {i}, most)) <= Cardinality(Old \cup One)
  BY <1>5, <1>7, FS_Subset
<1>9. Cardinality(SeatsOf(rows, S \cup {i}, most)) \in Nat
  <2>1. IsFiniteSet(S \cup {i})
    BY FS_AddElement
  <2> QED
    BY <2>1, SeatsAreFinite
<1> QED
  BY <1>4, <1>5, <1>6, <1>8, <1>9

\* is enough to protect every instant.
LEMMA CoveringIntervalsOverlap ==
    ASSUME NEW a \in [from : Nat, to : Nat], NEW b \in [from : Nat, to : Nat],
           NEW t \in Int, Covers(a, t), Covers(b, t)
    PROVE  Overlaps(a, b)
  BY DEF Covers, Overlaps

OneAtATime == /\ MaxInFlight = 1
              /\ Plane = "service"
              /\ "read" \notin Faults

AtMostOneInFlight == \A p, q \in InFlight : p = q

\* What a request has read is what is stored.
ReadsAreCurrent ==
    \A q \in Requests :
        /\ pc[q] = "idle" => loaded[q] = {}
        /\ pc[q] = "reading" => \A t \in loaded[q] : snap[q][t] = db[t]

\* The bookings a request is about to write: the stored ones with one counted
\* booking more, with one patched, or as they are.
Counted(books, r, w, n) ==
    Cardinality(SeatsOf(books, {k \in Requests : /\ Occupies(books[k], w)
                                                 /\ books[k].resource = r}, MaxParty))
        + n <= Capacity[r]

Adds(q, books) ==
    LET c == call[q] IN
    /\ c.kind = "book"
    /\ db.bookings[q] = NoRow
    /\ books[q] \in Booking
    /\ Identity(books[q]) = Identity(c)
    /\ books[q].window = c.window
    /\ books[q].status \in ActiveStatuses
    /\ books = [db.bookings EXCEPT ![q] = books[q]]
    /\ Counted(db.bookings, c.resource, c.window, c.party)

Changes(q, books) ==
    LET c == call[q]
        k == call[q].target
        b == db.bookings[k]
    IN /\ c.kind = "patch"
       /\ b # NoRow
       /\ books = [db.bookings EXCEPT ![k] = Patched(b, c)]
       /\ c.window # Keep =>
            Counted([db.bookings EXCEPT ![k] = NoRow], b.resource, c.window, b.party)

Keeps(q, books) == call[q].kind \in {"manage", "create"} /\ books = db.bookings

WritesAreCounted ==
    \A q \in Requests : pc[q] = "writing" /\ "bookings" \in todo[q] =>
        \/ Adds(q, snap[q].bookings)
        \/ Changes(q, snap[q].bookings)
        \/ Keeps(q, snap[q].bookings)

SerialInv == AtMostOneInFlight /\ ReadsAreCurrent /\ WritesAreCounted

-----------------------------------------------------------------------------

LEMMA ServiceSeesEverything ==
    ASSUME OneAtATime, TypeOK, NEW p, NEW t \in Tables
    PROVE  Visible(p, t) = db[t]
<1>1. db[t] \in [Keys(t) -> RowsOf(t)]
  BY TablesOfStore DEF TypeOK
<1> QED
  BY <1>1 DEF Visible, CanSee, OneAtATime

\* The room that a snapshot shows is counted against every booking in it.
LEMMA RoomIsCounted ==
    ASSUME NEW s, NEW r \in Resources, NEW w, NEW n \in Nat, HasRoom(s, r, w, n)
    PROVE  Counted(s.bookings, r, w, n)
<1> DEFINE D == SeatsOf(s.bookings, Direct(s, r, w), MaxParty)
           A == Activities(s, r, w)
<1>1. Cardinality(D) \in Nat
  <2>1. Direct(s, r, w) \in SUBSET Requests
    BY DEF Direct
  <2>2. IsFiniteSet(Direct(s, r, w))
    BY <2>1, FS_Subset
  <2> QED
    BY <2>2, SeatsAreFinite
<1>2. Cardinality(A) \in Nat
  <2>1. A \in SUBSET Resources
    BY DEF Activities
  <2>2. IsFiniteSet(A)
    BY <2>1, FS_Subset
  <2> QED
    BY <2>2, FS_CardinalityType
<1>3. Capacity[r] \in Nat
  OBVIOUS
<1>4. Cardinality(D) + Cardinality(A) + n <= Capacity[r]
  BY DEF HasRoom, UsedCapacity, SlotCapacity
<1>5. Cardinality(D) + n <= Capacity[r]
  <2> HIDE DEF D, A
  <2> QED
    BY <1>1, <1>2, <1>3, <1>4
<1> QED
  BY <1>5 DEF Counted, Direct

\* Only one request leaves the idle state at a time.
LEMMA OneInFlightStep ==
    ASSUME OneAtATime, TypeOK, AtMostOneInFlight, [Next]_vars
    PROVE  AtMostOneInFlight'
<1> USE DEF AtMostOneInFlight, InFlight, TypeOK
<1>1. ASSUME NEW q \in Requests, NEW c \in Calls, Start(q, c)
      PROVE  AtMostOneInFlight'
  <2>1. InFlight = {}
    <3>1. InFlight \in SUBSET Requests
      OBVIOUS
    <3>2. IsFiniteSet(InFlight)
      BY <3>1, FS_Subset
    <3>3. Cardinality(InFlight) \in Nat /\ Cardinality(InFlight) < 1
      BY <1>1, <3>2, FS_CardinalityType DEF Start, OneAtATime
    <3>4. Cardinality(InFlight) = 0
      BY <3>3
    <3> QED
      BY <3>2, <3>4, FS_EmptySet
  <2> QED
    BY <1>1, <2>1 DEF Start
<1>2. ASSUME NEW q \in Requests, NEW answer \in {"ok", "rejected", "error", "lost"},
             End(q, answer)
      PROVE  AtMostOneInFlight'
  BY <1>2 DEF End
<1>3. ASSUME NEW q \in Requests, NEW s, pc[q] = "reading", Write(q, s)
      PROVE  AtMostOneInFlight'
  BY <1>3 DEF Write
<1>4. ASSUME NEW q \in Requests, NEW t \in Tables,
             Read(q, t) \/ FailRead(q, t) \/ Commit(q, t) \/ FailWrite(q, t)
      PROVE  AtMostOneInFlight'
  BY <1>2, <1>4 DEF Read, FailRead, Commit, FailWrite
<1>5. ASSUME NEW q \in Requests,
             DecideBook(q) \/ DecidePatch(q) \/ DecideManage(q) \/ DecideCreate(q)
      PROVE  AtMostOneInFlight'
  BY <1>2, <1>3, <1>5 DEF DecideBook, DecidePatch, DecideManage, DecideCreate,
                          Reject, Ready
<1>6. ASSUME NEW q \in Requests, Finish(q) \/ Crash(q)
      PROVE  AtMostOneInFlight'
  BY <1>2, <1>6 DEF Finish, Verdict, Crash
<1>7. CASE UNCHANGED vars
  BY <1>7 DEF vars
<1> QED
  BY <1>1, <1>4, <1>5, <1>6, <1>7 DEF Next

\* Nobody else writes between a SELECT and the decision that rests on it.
LEMMA ReadsStayCurrent ==
    ASSUME OneAtATime, TypeOK, AtMostOneInFlight, ReadsAreCurrent, [Next]_vars
    PROVE  ReadsAreCurrent'
<1> USE DEF TypeOK
<1>0. ASSUME NEW k \in Requests, pc'[k] = "idle"
      PROVE  loaded'[k] = {}
  <2>1. CASE pc[k] = "idle" /\ loaded'[k] = loaded[k]
    BY <2>1 DEF ReadsAreCurrent
  <2>2. ASSUME NEW q \in Requests, NEW answer \in {"ok", "rejected", "error", "lost"},
               End(q, answer)
        PROVE  loaded'[k] = {}
    BY <1>0, <2>1, <2>2 DEF End
  <2>3. ASSUME NEW q \in Requests, NEW s, Write(q, s)
        PROVE  loaded'[k] = {}
    BY <1>0, <2>1, <2>3 DEF Write
  <2>4. ASSUME NEW q \in Requests, NEW c \in Calls, Start(q, c)
        PROVE  loaded'[k] = {}
    BY <1>0, <2>1, <2>4 DEF Start
  <2>5. ASSUME NEW q \in Requests, NEW u \in Tables,
               Read(q, u) \/ FailRead(q, u) \/ Commit(q, u) \/ FailWrite(q, u)
        PROVE  loaded'[k] = {}
    BY <1>0, <2>1, <2>2, <2>5 DEF Read, FailRead, Commit, FailWrite
  <2>6. ASSUME NEW q \in Requests,
               \/ DecideBook(q) \/ DecidePatch(q) \/ DecideManage(q) \/ DecideCreate(q)
               \/ Finish(q) \/ Crash(q)
        PROVE  loaded'[k] = {}
    BY <2>2, <2>3, <2>6 DEF DecideBook, DecidePatch, DecideManage, DecideCreate,
                            Reject, Finish, Verdict, Crash
  <2>7. CASE UNCHANGED vars
    BY <1>0, <2>1, <2>7 DEF vars
  <2> QED
    BY <2>4, <2>5, <2>6, <2>7 DEF Next
<1> SUFFICES ASSUME NEW k \in Requests, pc'[k] = "reading", NEW t \in loaded'[k]
             PROVE  snap'[k][t] = db'[t]
  BY <1>0 DEF ReadsAreCurrent
<1>1. CASE pc[k] = "reading" /\ loaded'[k] = loaded[k] /\ snap'[k] = snap[k] /\ db' = db
  BY <1>1 DEF ReadsAreCurrent
<1>2. CASE loaded'[k] = {}
  BY <1>2
<1>3. ASSUME NEW q \in Requests, NEW answer \in {"ok", "rejected", "error", "lost"},
             End(q, answer)
      PROVE  snap'[k][t] = db'[t]
  BY <1>1, <1>2, <1>3 DEF End
<1>4. ASSUME NEW q \in Requests, NEW s, Write(q, s)
      PROVE  snap'[k][t] = db'[t]
  BY <1>1, <1>4 DEF Write
<1>5. ASSUME NEW q \in Requests, NEW c \in Calls, Start(q, c)
      PROVE  snap'[k][t] = db'[t]
  BY <1>1, <1>2, <1>5 DEF Start, ReadsAreCurrent
<1>6. ASSUME NEW q \in Requests, NEW u \in Tables, Read(q, u)
      PROVE  snap'[k][t] = db'[t]
  <2>1. CASE k = q
    <3>1. /\ snap'[k] = [snap[k] EXCEPT ![u] = db[u]] /\ db' = db
          /\ loaded'[k] = loaded[k] \cup {u} /\ pc[k] = "reading"
      BY <1>6, <2>1, ServiceSeesEverything DEF Read
    <3>2. DOMAIN snap[k] = Tables
      BY DEF Store, Tables
    <3> QED
      BY <3>1, <3>2 DEF ReadsAreCurrent
  <2>2. CASE k # q
    BY <1>1, <1>6, <2>2 DEF Read
  <2> QED
    BY <2>1, <2>2
<1>7. ASSUME NEW q \in Requests, NEW u \in Tables, FailRead(q, u)
      PROVE  snap'[k][t] = db'[t]
  BY <1>7 DEF FailRead, OneAtATime
<1>8. ASSUME NEW q \in Requests, NEW u \in Tables, Commit(q, u)
      PROVE  FALSE
  BY <1>8 DEF Commit, AtMostOneInFlight, InFlight
<1>9. ASSUME NEW q \in Requests, NEW u \in Tables, FailWrite(q, u)
      PROVE  snap'[k][t] = db'[t]
  BY <1>1, <1>9 DEF FailWrite
<1>10. ASSUME NEW q \in Requests,
              DecideBook(q) \/ DecidePatch(q) \/ DecideManage(q) \/ DecideCreate(q)
       PROVE  snap'[k][t] = db'[t]
  BY <1>3, <1>4, <1>10 DEF DecideBook, DecidePatch, DecideManage, DecideCreate, Reject
<1>11. ASSUME NEW q \in Requests, Finish(q) \/ Crash(q)
       PROVE  snap'[k][t] = db'[t]
  BY <1>3, <1>11 DEF Finish, Verdict, Crash
<1>12. CASE UNCHANGED vars
  BY <1>1, <1>12 DEF vars
<1> QED
  BY <1>5, <1>6, <1>7, <1>8, <1>9, <1>10, <1>11, <1>12 DEF Next

-----------------------------------------------------------------------------

CountedWrite(q, books) == Adds(q, books) \/ Changes(q, books) \/ Keeps(q, books)

\* A decision that rests on current reads is a counted one.
LEMMA BookDecisionIsCounted ==
    ASSUME TypeOK, RowsMatchCalls, ReadsAreCurrent, NEW q \in Requests,
           DecideBook(q), pc'[q] = "writing"
    PROVE  Adds(q, snap'[q].bookings) /\ UNCHANGED <<db, call>>
<1> DEFINE c == call[q]
           row == [by |-> c.by, resource |-> c.resource, context |-> c.context,
                   window |-> c.window, party |-> c.party,
                   status |-> IF NeedsApproval[c.resource] THEN "pending" ELSE "confirmed"]
           s == [snap[q] EXCEPT !.bookings[q] = row, !.participants[q] = c.by]
           books == s.bookings
<1>1. /\ pc[q] = "reading" /\ loaded[q] = Tables /\ c.kind = "book" /\ c \in BookCalls
  BY StartedRequestsHaveCalls DEF DecideBook, Ready
<1>2. /\ Write(q, s) /\ MayBook(snap[q], c)
  BY DEF DecideBook, Reject, End, TypeOK
<1>3. snap'[q] = s /\ db' = db /\ call' = call
  BY <1>2 DEF Write, TypeOK
<1>4. snap[q].bookings = db.bookings
  BY <1>1 DEF ReadsAreCurrent, Tables
<1>5. row \in Booking /\ row.status \in ActiveStatuses /\ row.window = c.window
      /\ Identity(row) = Identity(c)
  BY <1>1 DEF BookCalls, Booking, BookingStatuses, ActiveStatuses, Identity
<1>6. db.bookings \in [Requests -> Booking \cup {NoRow}]
  BY DEF TypeOK, Store
<1>7. books = [db.bookings EXCEPT ![q] = row]
  BY <1>4 DEF TypeOK, Store
<1>8. books[q] = row
  BY <1>6, <1>7
<1>9. db.bookings[q] = NoRow
  BY <1>1 DEF RowsMatchCalls, RowsAreAsAsked, Asked
<1>10. Counted(db.bookings, c.resource, c.window, c.party)
  BY <1>1, <1>2, <1>4, RoomIsCounted DEF MayBook, BookCalls
<1> HIDE DEF s, row
<1> QED
  BY <1>1, <1>3, <1>5, <1>7, <1>8, <1>9, <1>10 DEF Adds

LEMMA PatchDecisionIsCounted ==
    ASSUME TypeOK, ReadsAreCurrent, NEW q \in Requests,
           DecidePatch(q), pc'[q] = "writing"
    PROVE  Changes(q, snap'[q].bookings) /\ UNCHANGED <<db, call>>
<1> DEFINE c == call[q]
           k == c.target
           b == db.bookings[k]
           s == [snap[q] EXCEPT !.bookings[k] = Patched(@, c)]
           others == [snap[q] EXCEPT !.bookings[k] = NoRow]
<1>1. pc[q] = "reading" /\ loaded[q] = Tables /\ c.kind = "patch" /\ c \in PatchCalls
  BY StartedRequestsHaveCalls DEF DecidePatch, Ready
<1>2. Write(q, s) /\ MayPatch(snap[q], c)
  BY DEF DecidePatch, Reject, End, TypeOK
<1>3. snap'[q] = s /\ db' = db /\ call' = call
  BY <1>2 DEF Write, TypeOK
<1>4. snap[q].bookings = db.bookings
  BY <1>1 DEF ReadsAreCurrent, Tables
<1>5. db.bookings \in [Requests -> Booking \cup {NoRow}] /\ k \in Requests
  BY <1>1 DEF TypeOK, Store, PatchCalls
<1>6. s.bookings = [db.bookings EXCEPT ![k] = Patched(b, c)]
  BY <1>4, <1>5 DEF TypeOK, Store
<1>7. others.bookings = [db.bookings EXCEPT ![k] = NoRow]
  BY <1>4, <1>5 DEF TypeOK, Store
<1>8. b # NoRow /\ b \in Booking
  BY <1>2, <1>4, <1>5 DEF MayPatch
<1>9. ASSUME c.window # Keep
      PROVE  Counted([db.bookings EXCEPT ![k] = NoRow], b.resource, c.window, b.party)
  <2>1. HasRoom(others, b.resource, c.window, b.party)
    BY <1>2, <1>4, <1>9 DEF MayPatch
  <2>2. b.resource \in Resources /\ b.party \in Nat
    BY <1>8 DEF Booking
  <2> HIDE DEF others, b
  <2> QED
    BY <1>7, <2>1, <2>2, RoomIsCounted
<1> HIDE DEF s
<1> QED
  BY <1>1, <1>3, <1>6, <1>8, <1>9 DEF Changes

LEMMA OtherDecisionsKeepBookings ==
    ASSUME TypeOK, ReadsAreCurrent, NEW q \in Requests,
           DecideManage(q) \/ DecideCreate(q), pc'[q] = "writing"
    PROVE  Keeps(q, snap'[q].bookings) /\ UNCHANGED <<db, call>>
<1>1. /\ pc[q] = "reading" /\ loaded[q] = Tables
      /\ call[q].kind \in {"manage", "create"}
  BY DEF DecideManage, DecideCreate, Ready
<1>2. /\ db' = db /\ call' = call
      /\ snap'[q].bookings = snap[q].bookings
  <2>1. ~Reject(q)
    BY DEF Reject, End, TypeOK
  <2>2. snap[q] \in Store
    BY DEF TypeOK
  <2>3. CASE DecideManage(q)
    <3> DEFINE s == [snap[q] EXCEPT !.resources[call[q].resource] = call[q].status]
    <3>1. s.bookings = snap[q].bookings
      BY <2>2 DEF Store
    <3>2. Write(q, s)
      BY <2>1, <2>3 DEF DecideManage
    <3> HIDE DEF s
    <3> QED
      BY <3>1, <3>2 DEF Write, TypeOK
  <2>4. CASE DecideCreate(q)
    <3> DEFINE s == [snap[q] EXCEPT !.resources[call[q].resource] = "active",
                                    !.slots[call[q].resource] = "generated"]
    <3>1. s.bookings = snap[q].bookings
      BY <2>2 DEF Store
    <3>2. Write(q, s)
      BY <2>4 DEF DecideCreate
    <3> HIDE DEF s
    <3> QED
      BY <3>1, <3>2 DEF Write, TypeOK
  <2> QED
    BY <2>3, <2>4
<1>3. snap[q].bookings = db.bookings
  BY <1>1 DEF ReadsAreCurrent, Tables
<1> QED
  BY <1>1, <1>2, <1>3 DEF Keeps

LEMMA WritesStayCounted ==
    ASSUME OneAtATime, TypeOK, RowsMatchCalls, SerialInv, [Next]_vars
    PROVE  WritesAreCounted'
<1> USE DEF SerialInv
<1> SUFFICES ASSUME NEW k \in Requests, pc'[k] = "writing", "bookings" \in todo'[k]
             PROVE  CountedWrite(k, snap[k].bookings)'
  BY DEF WritesAreCounted, CountedWrite
<1>t. /\ pc \in [Requests -> {"idle", "reading", "writing", "ok", "rejected",
                              "error", "lost"}]
      /\ snap \in [Requests -> Store] /\ db \in Store
      /\ todo \in [Requests -> SUBSET Tables]
  BY DEF TypeOK
<1>1. CASE /\ pc[k] = "writing" /\ "bookings" \in todo[k] /\ snap'[k] = snap[k]
           /\ db'.bookings = db.bookings /\ call' = call
  BY <1>1 DEF WritesAreCounted, CountedWrite, Adds, Changes, Keeps
<1>2. ASSUME NEW q \in Requests, NEW answer \in {"ok", "rejected", "error", "lost"},
             End(q, answer)
      PROVE  CountedWrite(k, snap[k].bookings)'
  BY <1>1, <1>2, <1>t DEF End
<1>3. ASSUME NEW q \in Requests, NEW c \in Calls, Start(q, c)
      PROVE  FALSE
  <2>1. k \in InFlight
    BY <1>3, <1>t DEF Start, InFlight
  <2>2. InFlight \in SUBSET Requests
    BY DEF InFlight
  <2>3. IsFiniteSet(InFlight) /\ Cardinality(InFlight) \in Nat
    BY <2>2, FS_Subset, FS_CardinalityType
  <2>4. Cardinality(InFlight) = 0
    BY <1>3, <2>3 DEF Start, OneAtATime
  <2> QED
    BY <2>1, <2>3, <2>4, FS_EmptySet
<1>4. ASSUME NEW q \in Requests, NEW u \in Tables, Read(q, u) \/ FailRead(q, u)
      PROVE  CountedWrite(k, snap[k].bookings)'
  <2>1. k # q => CountedWrite(k, snap[k].bookings)'
    BY <1>1, <1>2, <1>4, <1>t DEF Read, FailRead
  <2>2. k = q => CountedWrite(k, snap[k].bookings)'
    BY <1>2, <1>4, <1>t DEF Read, FailRead
  <2> QED
    BY <2>1, <2>2
<1>5. ASSUME NEW q \in Requests,
             DecideBook(q) \/ DecidePatch(q) \/ DecideManage(q) \/ DecideCreate(q)
      PROVE  CountedWrite(k, snap[k].bookings)'
  <2>1. CASE k = q
    <3>1. /\ \/ Adds(q, snap'[q].bookings) \/ Changes(q, snap'[q].bookings)
             \/ Keeps(q, snap'[q].bookings)
          /\ db' = db /\ call' = call
      BY <1>5, <2>1, BookDecisionIsCounted, PatchDecisionIsCounted,
         OtherDecisionsKeepBookings
    <3> QED
      BY <2>1, <3>1 DEF CountedWrite, Adds, Changes, Keeps
  <2>2. CASE k # q
    <3>1. pc[k] = "writing" /\ pc[q] = "reading"
      BY <1>5, <2>2, <1>t DEF DecideBook, DecidePatch, DecideManage, DecideCreate,
                              Write, Reject, End, Ready
    <3> QED
      BY <2>2, <3>1 DEF AtMostOneInFlight, InFlight
  <2> QED
    BY <2>1, <2>2
<1>6. ASSUME NEW q \in Requests, NEW u \in Tables, Commit(q, u) \/ FailWrite(q, u)
      PROVE  CountedWrite(k, snap[k].bookings)'
  <2>1. pc[q] = "writing" /\ pc' = pc /\ snap' = snap /\ call' = call
    BY <1>6 DEF Commit, FailWrite
  <2>2. k = q
    BY <2>1 DEF AtMostOneInFlight, InFlight
  <2>3. "bookings" \in todo[k] /\ u # "bookings"
    BY <1>6, <2>2, <1>t DEF Commit, FailWrite
  <2>4. db'.bookings = db.bookings
    BY <1>6, <2>3, <1>t DEF Commit, FailWrite, Store
  <2> QED
    BY <1>1, <2>1, <2>3, <2>4
<1>7. ASSUME NEW q \in Requests, Finish(q) \/ Crash(q)
      PROVE  CountedWrite(k, snap[k].bookings)'
  BY <1>2, <1>7 DEF Finish, Verdict, Crash
<1>8. CASE UNCHANGED vars
  BY <1>1, <1>8 DEF vars
<1> QED
  BY <1>3, <1>4, <1>5, <1>6, <1>7, <1>8 DEF Next

\* One request at a time, what is written is what was counted.
LEMMA SerialInvariant ==
    ASSUME OneAtATime
    PROVE  Spec => []SerialInv
<1>1. Init => SerialInv
  BY DEF Init, SerialInv, AtMostOneInFlight, InFlight, ReadsAreCurrent, WritesAreCounted
<1>2. TypeOK /\ RowsMatchCalls /\ SerialInv /\ [Next]_vars => SerialInv'
  BY OneInFlightStep, ReadsStayCurrent, WritesStayCounted DEF SerialInv
<1> QED
  BY <1>1, <1>2, ReservationsTypeCorrect, RowsMatchTheirCalls, PTL DEF Spec

-----------------------------------------------------------------------------
(* The refinement.                                                          *)

LEMMA ViewOfABooking ==
    ASSUME TypeOK, NEW k \in Requests
    PROVE  /\ (LedgerView[k] = NoRow) <=> (db.bookings[k] = NoRow)
           /\ db.bookings[k] # NoRow =>
                /\ LedgerView[k].resource = db.bookings[k].resource
                /\ LedgerView[k].window = db.bookings[k].window
                /\ LedgerView[k].party = db.bookings[k].party
                /\ LedgerView[k].active = (db.bookings[k].status \in ActiveStatuses)
<1>1. \A r \in Resources, w \in Windows, n \in 1..MaxParty, a \in BOOLEAN :
         [resource |-> r, window |-> w, party |-> n, active |-> a] # NoRow
  BY NoRowIsNoEntry DEF Ledger!Entry
<1>2. db.bookings[k] # NoRow => /\ db.bookings[k].resource \in Resources
                               /\ db.bookings[k].window \in Windows
                               /\ db.bookings[k].party \in 1..MaxParty
                               /\ (db.bookings[k].status \in ActiveStatuses) \in BOOLEAN
  BY DEF TypeOK, Store, Booking
<1>3. db.bookings[k] # NoRow =>
         [resource |-> db.bookings[k].resource, window |-> db.bookings[k].window,
          party |-> db.bookings[k].party,
          active |-> db.bookings[k].status \in ActiveStatuses] # NoRow
  BY <1>1, <1>2
<1> QED
  BY <1>3 DEF LedgerView

\* The instance counts as this module does.
LEMMA SameCardinality ==
    ASSUME NEW S
    PROVE  Ledger!Cardinality(S) = Cardinality(S)
  BY DEF Cardinality, Ledger!Cardinality, IsFiniteSet, Ledger!IsFiniteSet

\* What is counted on the table is counted on the ledger.
LEMMA CountedFitsTheLedger ==
    ASSUME TypeOK, NEW books, NEW except \in SUBSET Requests,
           \A k \in Requests :
               books[k] = IF k \in except THEN NoRow ELSE db.bookings[k],
           NEW r, NEW w, NEW n, Counted(books, r, w, n)
    PROVE  Ledger!Fits(LedgerView, r, w, n, except)
<1> DEFINE S == {k \in Requests : Occupies(books[k], w) /\ books[k].resource = r}
           T == Ledger!Competing(LedgerView, r, w, except)
<1>1. S = T
  <2>1. ASSUME NEW k \in Requests
        PROVE  k \in S <=> k \in T
    <3>1. CASE k \in except \/ db.bookings[k] = NoRow
      BY <3>1, ViewOfABooking DEF Occupies, Ledger!Competing
    <3>2. CASE k \notin except /\ db.bookings[k] # NoRow
      <4>1. books[k] = db.bookings[k] /\ LedgerView[k] # NoRow
        BY <3>2, ViewOfABooking
      <4>2. Overlaps(books[k].window, w) <=> Ledger!Overlaps(LedgerView[k].window, w)
        BY <3>2, <4>1, ViewOfABooking DEF Overlaps, Ledger!Overlaps
      <4> QED
        BY <3>2, <4>1, <4>2, ViewOfABooking DEF Occupies, Ledger!Competing
    <3> QED
      BY <3>1, <3>2
  <2>2. S \subseteq Requests /\ T \subseteq Requests
    BY DEF Ledger!Competing
  <2> HIDE DEF S, T
  <2> QED
    BY <2>1, <2>2
<1>2. \A k \in S : books[k].party = LedgerView[k].party
  BY ViewOfABooking DEF Occupies
<1>3. SeatsOf(books, S, MaxParty) = Ledger!SeatsOf(LedgerView, T, MaxParty)
  BY <1>1, <1>2 DEF SeatsOf, Ledger!SeatsOf
<1>4. Cardinality(SeatsOf(books, S, MaxParty)) + n <= Capacity[r]
  BY DEF Counted
<1>5. Cardinality(Ledger!SeatsOf(LedgerView, T, MaxParty)) + n <= Capacity[r]
  <2> HIDE DEF S, T
  <2> QED
    BY <1>3, <1>4
<1> QED
  BY <1>5, SameCardinality DEF Ledger!Fits

LEMMA CommitBookings ==
    ASSUME OneAtATime, TypeOK, SerialInv, NEW q \in Requests, Commit(q, "bookings")
    PROVE  [Ledger!Next]_(Ledger!vars)
<1> DEFINE c == call[q]
           books == snap[q].bookings
<1>t. /\ db.bookings \in [Requests -> Booking \cup {NoRow}]
      /\ books \in [Requests -> Booking \cup {NoRow}]
      /\ db \in Store
  BY DEF TypeOK, Store
<1>1. pc[q] = "writing" /\ "bookings" \in todo[q] /\ unchecked' = Uncounted(q)
  BY DEF Commit
<1>2. Adds(q, books) \/ Changes(q, books) \/ Keeps(q, books)
  BY <1>1 DEF SerialInv, WritesAreCounted
<1>3. db'.bookings = Upsert(db.bookings, books)
  BY <1>t DEF Commit, Store
<1>4. c \in Calls /\ (c.kind = "book" => c \in BookCalls)
      /\ (c.kind = "patch" => c \in PatchCalls)
  BY <1>1, StartedRequestsHaveCalls
<1> HIDE DEF books
<1>5. CASE Adds(q, books)
  <2>1. c.resource \in Resources /\ c.window \in Windows /\ c.party \in 1..MaxParty
    BY <1>4, <1>5 DEF Adds, BookCalls
  <2>2. db'.bookings = [db.bookings EXCEPT ![q] = books[q]]
    BY <1>t, <1>3, <1>5 DEF Adds, Upsert
  <2>3. LedgerView' = [LedgerView EXCEPT ![q] = [resource |-> c.resource,
                          window |-> c.window, party |-> c.party, active |-> TRUE]]
    BY <1>t, <1>5, <2>2 DEF LedgerView, Adds, Identity
  <2>4. Ledger!Fits(LedgerView, c.resource, c.window, c.party, {})
    BY <1>t, <1>5, CountedFitsTheLedger DEF Adds
  <2>5. LedgerView[q] = NoRow
    BY <1>5, ViewOfABooking DEF Adds
  <2>6. unchecked' = unchecked
    BY <1>1, <1>5 DEF Uncounted, Adds
  <2>7. Ledger!Admit(q, c.resource, c.window, c.party)
    BY <2>3, <2>4, <2>5, <2>6 DEF Ledger!Admit
  <2> QED
    BY <2>1, <2>7 DEF Ledger!Next
<1>6. CASE Changes(q, books)
  <2> DEFINE k == c.target
             b == db.bookings[k]
             on == books[k].status \in ActiveStatuses
             was == b.status \in ActiveStatuses
  <2>1. k \in Requests /\ c.window \in Windows \cup {Keep} /\ c.kind = "patch"
    BY <1>4, <1>6 DEF Changes, PatchCalls
  <2>2. /\ b # NoRow /\ b \in Booking
        /\ books = [db.bookings EXCEPT ![k] = Patched(b, c)]
        /\ books[k] = Patched(b, c)
    BY <1>t, <1>6, <2>1 DEF Changes
  <2>3. /\ Patched(b, c) # NoRow
        /\ Patched(b, c).resource = b.resource /\ Patched(b, c).party = b.party
        /\ Patched(b, c).window = IF c.window = Keep THEN b.window ELSE c.window
    <3>1. c \in PatchCalls
      BY <1>4, <2>1
    <3>2. Patched(b, c) \in Booking
      BY <2>2, <3>1 DEF Patched, Booking, PatchCalls
    <3> QED
      BY <2>2, <3>2 DEF Patched, Booking
  <2>4. db'.bookings = [db.bookings EXCEPT ![k] = Patched(b, c)]
    BY <1>t, <1>3, <2>1, <2>2, <2>3 DEF Upsert
  <2>5. LedgerView[k] # NoRow /\ LedgerView[k] = [resource |-> b.resource,
           window |-> b.window, party |-> b.party, active |-> was]
    BY <2>1, <2>2, ViewOfABooking DEF LedgerView
  <2>6. LedgerView' = [LedgerView EXCEPT ![k] =
           [resource |-> b.resource, window |-> Patched(b, c).window,
            party |-> b.party, active |-> on]]
    BY <1>t, <2>1, <2>2, <2>3, <2>4 DEF LedgerView
  <2> HIDE DEF on, was, b, k, c
  <2>7. CASE c.window # Keep
    <3>1. Counted([db.bookings EXCEPT ![k] = NoRow], b.resource, c.window, b.party)
      BY <1>6, <2>7 DEF Changes, b, k, c
    <3>2. Ledger!Fits(LedgerView, b.resource, c.window, b.party, {k})
      BY <1>t, <2>1, <3>1, CountedFitsTheLedger
    <3>3. LedgerView' = [LedgerView EXCEPT ![k].window = c.window, ![k].active = on]
      <4>1. [LedgerView[k] EXCEPT !.window = c.window, !.active = on]
              = [resource |-> b.resource, window |-> c.window,
                 party |-> b.party, active |-> on]
        <5> DEFINE u == [LedgerView[k] EXCEPT !.window = c.window]
        <5>1. u = [resource |-> b.resource, window |-> c.window,
                   party |-> b.party, active |-> was]
          BY <2>5
        <5>2. [LedgerView[k] EXCEPT !.window = c.window, !.active = on]
                = [u EXCEPT !.active = on]
          BY Zenon
        <5> HIDE DEF u
        <5> QED
          BY <5>1, <5>2
      <4>2. Patched(b, c).window = c.window
        BY <2>3, <2>7
      <4> QED
        BY <2>6, <4>1, <4>2
    <3>4. unchecked' = unchecked \ {k}
      BY <1>1, <2>1, <2>7 DEF Uncounted, k, c
    <3>5. Ledger!Move(k, c.window, on)
      BY <2>5, <3>2, <3>3, <3>4 DEF Ledger!Move
    <3>6. c.window \in Windows /\ on \in BOOLEAN
      BY <2>1, <2>7 DEF on
    <3> QED
      BY <2>1, <3>5, <3>6 DEF Ledger!Next
  <2>8. CASE c.window = Keep
    <3>1. LedgerView' = [LedgerView EXCEPT ![k].active = on]
      <4>1. [LedgerView[k] EXCEPT !.active = on]
              = [resource |-> b.resource, window |-> Patched(b, c).window,
                 party |-> b.party, active |-> on]
        BY <2>3, <2>5, <2>8
      <4> QED
        BY <2>6, <4>1
    <3>2. unchecked' = IF on /\ ~LedgerView[k].active THEN unchecked \cup {k} ELSE unchecked
      <4>1. LedgerView[k].active = was
        BY <2>5
      <4>2. unchecked' = IF b.status \notin ActiveStatuses /\ books[k].status \in ActiveStatuses
                           THEN unchecked \cup {k} ELSE unchecked
        BY <1>1, <2>1, <2>8 DEF Uncounted, books, b, k, c
      <4> QED
        BY <4>1, <4>2 DEF on, was
    <3>3. Ledger!Settle(k, on)
      BY <2>5, <3>1, <3>2 DEF Ledger!Settle
    <3>4. on \in BOOLEAN
      BY DEF on
    <3> QED
      BY <2>1, <3>3, <3>4 DEF Ledger!Next
  <2> QED
    BY <2>7, <2>8
<1>7. CASE Keeps(q, books)
  <2>1. db'.bookings = db.bookings
    BY <1>t, <1>3, <1>7 DEF Keeps, Upsert
  <2>2. unchecked' = unchecked
    BY <1>1, <1>7 DEF Keeps, Uncounted
  <2> QED
    BY <2>1, <2>2 DEF LedgerView, Ledger!vars
<1> QED
  BY <1>2, <1>5, <1>6, <1>7

\* Every other step leaves the bookings alone.
LEMMA StepImplementsLedger ==
    ASSUME OneAtATime, TypeOK, SerialInv, [Next]_vars
    PROVE  [Ledger!Next]_(Ledger!vars)
<1>1. ASSUME NEW q \in Requests, NEW t \in Tables, Commit(q, t)
      PROVE  [Ledger!Next]_(Ledger!vars)
  <2>1. CASE t = "bookings"
    BY <1>1, <2>1, CommitBookings
  <2>2. CASE t # "bookings"
    <3>1. db'.bookings = db.bookings /\ unchecked' = unchecked
      BY <1>1, <2>2 DEF Commit, TypeOK, Store
    <3> QED
      BY <3>1 DEF LedgerView, Ledger!vars
  <2> QED
    BY <2>1, <2>2
<1>2. CASE db' = db /\ unchecked' = unchecked
  BY <1>2 DEF LedgerView, Ledger!vars
<1> QED
  BY <1>1, <1>2 DEF Next, vars, Start, Read, FailRead, FailWrite, End, Write,
     DecideBook, DecidePatch, DecideManage, DecideCreate, Reject, Finish, Crash

\* The repository implements the ledger when requests run one at a time.
THEOREM SerialRequestsImplementLedger ==
    ASSUME OneAtATime
    PROVE  Spec => SerialBookingsFollowLedger
<1>1. Init => Ledger!Init
  BY DEF Init, NoStore, LedgerView, Ledger!Init
<1>2. TypeOK /\ SerialInv /\ [Next]_vars => [Ledger!Next]_(Ledger!vars)
  BY StepImplementsLedger
<1> QED
  BY <1>1, <1>2, ReservationsTypeCorrect, SerialInvariant, PTL
     DEF Spec, SerialBookingsFollowLedger, Ledger!Spec

-----------------------------------------------------------------------------
(* The ledger itself.  Whatever implements it never oversells a minute of a *)
(* resource: CapacityAtEveryMinute is inductive together with the ledger's  *)
(* type, as an admitted booking was counted against every active booking    *)
(* that overlaps its window, and those that hold one of its minutes are     *)
(* among them.                                                              *)

\* The ledger counts and compares as this module does.
LEMMA LedgerCounts ==
    ASSUME NEW book, NEW S
    PROVE  Ledger!Cardinality(Ledger!SeatsOf(book, S, MaxParty))
             = Cardinality(SeatsOf(book, S, MaxParty))
  BY SameCardinality DEF SeatsOf, Ledger!SeatsOf

LEMMA LedgerCompares ==
    ASSUME NEW a, NEW b
    PROVE  /\ \A t : Ledger!Covers(a, t) <=> Covers(a, t)
           /\ Ledger!Overlaps(a, b) <=> Overlaps(a, b)
  BY DEF Covers, Overlaps, Ledger!Covers, Ledger!Overlaps

\* The ledger holds entries, and only ids are marked unchecked.
THEOREM LedgerTypeCorrect == Ledger!Spec => []Ledger!TypeOK
<1>1. Ledger!Init => Ledger!TypeOK
  BY DEF Ledger!Init, Ledger!TypeOK
<1>2. Ledger!TypeOK /\ [Ledger!Next]_(Ledger!vars) => Ledger!TypeOK'
  <2> SUFFICES ASSUME Ledger!TypeOK, [Ledger!Next]_(Ledger!vars) PROVE Ledger!TypeOK'
    OBVIOUS
  <2> USE DEF Ledger!TypeOK, Ledger!Entry
  <2>1. ASSUME NEW i \in Requests, NEW r \in Resources, NEW w \in Windows,
               NEW k \in 1..MaxParty, Ledger!Admit(i, r, w, k)
        PROVE  Ledger!TypeOK'
    BY <2>1 DEF Ledger!Admit
  <2>2. ASSUME NEW i \in Requests, NEW w \in Windows, NEW on \in BOOLEAN, Ledger!Move(i, w, on)
        PROVE  Ledger!TypeOK'
    <3>1. /\ LedgerView' = [LedgerView EXCEPT ![i].window = w, ![i].active = on]
          /\ LedgerView[i] # NoRow
          /\ unchecked' = unchecked \ {i}
      BY <2>2 DEF Ledger!Move
    <3>2. [LedgerView[i] EXCEPT !.window = w, !.active = on] \in Ledger!Entry
      <4> HIDE DEF LedgerView
      <4>1. LedgerView[i] \in Ledger!Entry
        BY <3>1
      <4> QED
        BY <4>1
    <3> QED
      BY <3>1, <3>2
  <2>3. ASSUME NEW i \in Requests, NEW on \in BOOLEAN, Ledger!Settle(i, on)
        PROVE  Ledger!TypeOK'
    BY <2>3 DEF Ledger!Settle
  <2>4. CASE UNCHANGED Ledger!vars
    BY <2>4 DEF Ledger!vars
  <2> QED
    BY <2>1, <2>2, <2>3, <2>4 DEF Ledger!Next
<1> QED
  BY <1>1, <1>2, PTL DEF Ledger!Spec

\* Booking i, counted for window w, leaves room at every minute of w.
LEMMA CountedBookingLeavesRoom ==
    ASSUME Ledger!TypeOK, NEW book, NEW i \in Requests, NEW r \in Resources, NEW w \in Windows,
           NEW k \in 1..MaxParty, NEW t \in Ledger!Minutes, NEW except,
           Ledger!Fits(LedgerView, r, w, k, except),
           Covers(w, t),
           book[i].party = k,
           NEW H \in SUBSET Requests, H \ {i} \subseteq Ledger!Holding(r, t) \ except,
           \A j \in H \ {i} : book[j].party = LedgerView[j].party
    PROVE  Cardinality(SeatsOf(book, H, MaxParty)) <= Capacity[r]
<1> DEFINE C == Ledger!Competing(LedgerView, r, w, except)
           O == H \ {i}
<1>1. t \in Int /\ Capacity[r] \in Nat /\ MaxParty \in Nat
  BY DEF Ledger!Minutes
<1>2. IsFiniteSet(C) /\ IsFiniteSet(O)
  <2>1. C \in SUBSET Requests /\ O \in SUBSET Requests
    BY DEF Ledger!Competing
  <2> QED
    BY <2>1, FS_Subset
<1>3. O \in SUBSET C
  <2> SUFFICES ASSUME NEW j \in O PROVE j \in C
    OBVIOUS
  <2>1. /\ j \in Requests \ except /\ LedgerView[j] # NoRow /\ LedgerView[j].active
        /\ LedgerView[j].resource = r /\ Covers(LedgerView[j].window, t)
    BY LedgerCompares DEF Ledger!Holding
  <2>2. LedgerView[j].window \in [from : Nat, to : Nat] /\ w \in [from : Nat, to : Nat]
    BY <2>1 DEF Ledger!TypeOK, Ledger!Entry
  <2>3. Overlaps(LedgerView[j].window, w)
    BY <1>1, <2>1, <2>2, CoveringIntervalsOverlap
  <2> QED
    BY <2>1, <2>3, LedgerCompares DEF Ledger!Competing
<1>4. Cardinality(SeatsOf(book, H, MaxParty)) <= Cardinality(SeatsOf(book, O \cup {i}, MaxParty))
  <2>1. IsFiniteSet(O \cup {i}) /\ H \in SUBSET (O \cup {i})
    BY <1>2, FS_AddElement
  <2> QED
    BY <1>1, <2>1, SeatsAreMonotone
<1>5. Cardinality(SeatsOf(book, O \cup {i}, MaxParty))
        <= Cardinality(SeatsOf(book, O, MaxParty)) + k
  BY <1>1, <1>2, SeatsOfOneMore
<1>6. SeatsOf(book, O, MaxParty) = SeatsOf(LedgerView, O, MaxParty)
  BY SeatsDependOnParties
<1>7. Cardinality(SeatsOf(LedgerView, O, MaxParty)) <= Cardinality(SeatsOf(LedgerView, C, MaxParty))
  BY <1>1, <1>2, <1>3, SeatsAreMonotone
<1>8. Cardinality(SeatsOf(LedgerView, C, MaxParty)) + k <= Capacity[r]
  BY LedgerCounts DEF Ledger!Fits
<1>9. /\ Cardinality(SeatsOf(LedgerView, C, MaxParty)) \in Nat
      /\ Cardinality(SeatsOf(LedgerView, O, MaxParty)) \in Nat
      /\ Cardinality(SeatsOf(book, O \cup {i}, MaxParty)) \in Nat
      /\ Cardinality(SeatsOf(book, H, MaxParty)) \in Nat
  <2>1. IsFiniteSet(O \cup {i}) /\ IsFiniteSet(H)
    BY <1>2, FS_AddElement, FS_Subset
  <2> QED
    BY <1>1, <1>2, <2>1, SeatsAreFinite
<1> HIDE DEF C, O
<1> QED
  BY <1>1, <1>4, <1>5, <1>6, <1>7, <1>8, <1>9

\* A step after which fewer bookings hold the minute, none with a larger party.
LEMMA FewerBookingsLeaveRoom ==
    ASSUME Ledger!TypeOK, Ledger!CapacityAtEveryMinute, NEW book,
           NEW r \in Resources, NEW t \in Ledger!Minutes,
           NEW H \in SUBSET Ledger!Holding(r, t),
           \A j \in H : book[j].party = LedgerView[j].party
    PROVE  Cardinality(SeatsOf(book, H, MaxParty)) <= Capacity[r]
<1>1. IsFiniteSet(Ledger!Holding(r, t)) /\ IsFiniteSet(H)
  <2>1. Ledger!Holding(r, t) \in SUBSET Requests /\ H \in SUBSET Requests
    BY DEF Ledger!Holding
  <2> QED
    BY <2>1, FS_Subset
<1>2. SeatsOf(book, H, MaxParty) = SeatsOf(LedgerView, H, MaxParty)
  BY SeatsDependOnParties
<1>3. Cardinality(SeatsOf(LedgerView, H, MaxParty))
        <= Cardinality(SeatsOf(LedgerView, Ledger!Holding(r, t), MaxParty))
  BY <1>1, SeatsAreMonotone
<1>4. /\ Cardinality(SeatsOf(LedgerView, H, MaxParty)) \in Nat
      /\ Cardinality(SeatsOf(LedgerView, Ledger!Holding(r, t), MaxParty)) \in Nat
      /\ Capacity[r] \in Nat
  BY <1>1, SeatsAreFinite
<1> QED
  BY <1>2, <1>3, <1>4, LedgerCounts DEF Ledger!CapacityAtEveryMinute

\* No minute of a resource is oversold by the counted bookings.
THEOREM LedgerKeepsCapacity ==
    Ledger!Spec => []Ledger!CapacityAtEveryMinute
<1>1. Ledger!Init => Ledger!CapacityAtEveryMinute
  <2> SUFFICES ASSUME Ledger!Init, NEW r \in Resources, NEW t \in Ledger!Minutes
               PROVE  Cardinality(SeatsOf(LedgerView, Ledger!Holding(r, t), MaxParty))
                        <= Capacity[r]
    BY LedgerCounts DEF Ledger!CapacityAtEveryMinute
  <2>1. SeatsOf(LedgerView, Ledger!Holding(r, t), MaxParty) = {}
    BY DEF Ledger!Init, Ledger!Holding, SeatsOf
  <2> QED
    BY <2>1, FS_EmptySet
<1>2. Ledger!TypeOK /\ Ledger!CapacityAtEveryMinute /\ [Ledger!Next]_(Ledger!vars)
        => Ledger!CapacityAtEveryMinute'
  <2> SUFFICES ASSUME Ledger!TypeOK, Ledger!CapacityAtEveryMinute, [Ledger!Next]_(Ledger!vars),
                      NEW r \in Resources, NEW t \in Ledger!Minutes
               PROVE  Cardinality(SeatsOf(LedgerView', Ledger!Holding(r, t)', MaxParty))
                        <= Capacity[r]
    BY LedgerCounts DEF Ledger!CapacityAtEveryMinute, Ledger!Minutes
  <2>0. Ledger!Holding(r, t)' \in SUBSET Requests
    BY DEF Ledger!Holding
  <2>1. ASSUME NEW i \in Requests, NEW q \in Resources, NEW w \in Windows,
               NEW k \in 1..MaxParty, Ledger!Admit(i, q, w, k)
        PROVE  Cardinality(SeatsOf(LedgerView', Ledger!Holding(r, t)', MaxParty)) <= Capacity[r]
    <3>1. /\ LedgerView'[i] = [resource |-> q, window |-> w, party |-> k, active |-> TRUE]
          /\ \A j \in Requests \ {i} : LedgerView'[j] = LedgerView[j]
          /\ unchecked' = unchecked
      BY <2>1 DEF Ledger!Admit, Ledger!TypeOK
    <3>2. Ledger!Holding(r, t)' \ {i} \subseteq Ledger!Holding(r, t)
      BY <3>1 DEF Ledger!Holding
    <3>3. CASE i \in Ledger!Holding(r, t)'
      <4>1. q = r /\ Ledger!Covers(w, t)
        BY <3>1, <3>3 DEF Ledger!Holding
      <4>3. Covers(w, t)
        BY <4>1, LedgerCompares
      <4>2. Ledger!Fits(LedgerView, r, w, k, {})
        BY <2>1, <4>1 DEF Ledger!Admit
      <4> QED
        BY <2>0, <3>1, <3>2, <4>1, <4>2, <4>3, CountedBookingLeavesRoom
    <3>4. CASE i \notin Ledger!Holding(r, t)'
      <4>1. Ledger!Holding(r, t)' \in SUBSET Ledger!Holding(r, t)
        BY <3>2, <3>4
      <4> QED
        BY <2>0, <3>1, <3>4, <4>1, FewerBookingsLeaveRoom
    <3> QED
      BY <3>3, <3>4
  <2>2. ASSUME NEW i \in Requests, NEW w \in Windows, NEW on \in BOOLEAN, Ledger!Move(i, w, on)
        PROVE  Cardinality(SeatsOf(LedgerView', Ledger!Holding(r, t)', MaxParty)) <= Capacity[r]
    <3>1. /\ LedgerView[i] \in Ledger!Entry
          /\ LedgerView'[i] = [LedgerView[i] EXCEPT !.window = w, !.active = on]
          /\ \A j \in Requests \ {i} : LedgerView'[j] = LedgerView[j]
          /\ unchecked' = unchecked \ {i}
      BY <2>2 DEF Ledger!Move, Ledger!TypeOK
    <3>2. /\ LedgerView'[i].party = LedgerView[i].party
          /\ LedgerView'[i].resource = LedgerView[i].resource
          /\ LedgerView'[i].window = w
          /\ LedgerView[i].party \in 1..MaxParty
      BY <3>1 DEF Ledger!Entry
    <3>3. Ledger!Holding(r, t)' \ {i} \subseteq Ledger!Holding(r, t) \ {i}
      BY <3>1 DEF Ledger!Holding
    <3>4. CASE i \in Ledger!Holding(r, t)'
      <4>1. LedgerView[i].resource = r /\ Covers(w, t)
        BY <3>2, <3>4, LedgerCompares DEF Ledger!Holding
      <4>2. Ledger!Fits(LedgerView, r, w, LedgerView[i].party, {i})
        BY <2>2, <4>1 DEF Ledger!Move
      <4> QED
        BY <2>0, <3>1, <3>2, <3>3, <4>1, <4>2, CountedBookingLeavesRoom
    <3>5. CASE i \notin Ledger!Holding(r, t)'
      <4>1. Ledger!Holding(r, t)' \in SUBSET Ledger!Holding(r, t)
        BY <3>3, <3>5
      <4> QED
        BY <2>0, <3>1, <3>5, <4>1, FewerBookingsLeaveRoom
    <3> QED
      BY <3>4, <3>5
  <2>3. ASSUME NEW i \in Requests, NEW on \in BOOLEAN, Ledger!Settle(i, on)
        PROVE  Cardinality(SeatsOf(LedgerView', Ledger!Holding(r, t)', MaxParty)) <= Capacity[r]
    <3>1. /\ LedgerView[i] \in Ledger!Entry /\ LedgerView[i] # NoRow
          /\ LedgerView'[i] = [LedgerView[i] EXCEPT !.active = on]
          /\ \A j \in Requests \ {i} : LedgerView'[j] = LedgerView[j]
          /\ unchecked \subseteq unchecked'
          /\ on /\ ~LedgerView[i].active => i \in unchecked'
      BY <2>3 DEF Ledger!Settle, Ledger!TypeOK
    <3>2. /\ \A j \in Requests : LedgerView'[j].party = LedgerView[j].party
          /\ LedgerView'[i].resource = LedgerView[i].resource
          /\ LedgerView'[i].window = LedgerView[i].window
          /\ LedgerView'[i].active = on
      BY <3>1 DEF Ledger!Entry
    <3>3. Ledger!Holding(r, t)' \in SUBSET Ledger!Holding(r, t)
      BY <3>1, <3>2 DEF Ledger!Holding
    <3> QED
      BY <2>0, <3>2, <3>3, FewerBookingsLeaveRoom
  <2>4. CASE UNCHANGED Ledger!vars
    BY <2>4, LedgerCounts DEF Ledger!vars, Ledger!CapacityAtEveryMinute, Ledger!Holding
  <2> QED
    BY <2>1, <2>2, <2>3, <2>4 DEF Ledger!Next
<1> QED
  BY <1>1, <1>2, LedgerTypeCorrect, PTL DEF Ledger!Spec

\* And so it never oversells a minute to the bookings that were counted.
THEOREM SerialRequestsKeepCapacity ==
    ASSUME OneAtATime
    PROVE  Spec => []CountedBookingsFit
  BY SerialRequestsImplementLedger, LedgerKeepsCapacity, PTL
     DEF SerialBookingsFollowLedger, CountedBookingsFit

-----------------------------------------------------------------------------
(* Changes that were answered.                                              *)

\* One request at a time: while a request writes, no other one moves.
LEMMA OnlyTheWriterMoves ==
    ASSUME OneAtATime, TypeOK, AtMostOneInFlight, [Next]_vars,
           NEW k \in Requests, pc'[k] = "writing"
    PROVE  \/ UNCHANGED vars
           \/ DecideBook(k) \/ DecidePatch(k) \/ DecideManage(k) \/ DecideCreate(k)
           \/ \E t \in Tables : Commit(k, t) \/ FailWrite(k, t)
<1>t. /\ pc \in [Requests -> {"idle", "reading", "writing", "ok", "rejected",
                              "error", "lost"}]
  BY DEF TypeOK
<1>1. ASSUME NEW q \in Requests, NEW c \in Calls, Start(q, c)
      PROVE  FALSE
  <2>1. k \in InFlight
    BY <1>1, <1>t DEF Start, InFlight
  <2>2. InFlight \in SUBSET Requests
    BY DEF InFlight
  <2>3. IsFiniteSet(InFlight) /\ Cardinality(InFlight) \in Nat
    BY <2>2, FS_Subset, FS_CardinalityType
  <2>4. Cardinality(InFlight) = 0
    BY <1>1, <2>3 DEF Start, OneAtATime
  <2> QED
    BY <2>1, <2>3, <2>4, FS_EmptySet
<1>2. ASSUME NEW q \in Requests, NEW answer \in {"ok", "rejected", "error", "lost"},
             pc[q] \in {"reading", "writing"}, End(q, answer)
      PROVE  FALSE
  <2>1. k # q /\ pc[k] = "writing"
    BY <1>2, <1>t DEF End
  <2> QED
    BY <1>2, <2>1 DEF AtMostOneInFlight, InFlight
<1>3. ASSUME NEW q \in Requests, NEW t \in Tables, Read(q, t) \/ FailRead(q, t)
      PROVE  FALSE
  <2>1. pc[q] = "reading"
    BY <1>3 DEF Read, FailRead
  <2>2. pc' = pc
    BY <1>2, <1>3, <2>1 DEF Read, FailRead
  <2> QED
    BY <2>1, <2>2 DEF AtMostOneInFlight, InFlight
<1>4. ASSUME NEW q \in Requests, q # k,
             DecideBook(q) \/ DecidePatch(q) \/ DecideManage(q) \/ DecideCreate(q)
      PROVE  FALSE
  <2>1. pc[q] = "reading" /\ pc[k] = "writing"
    BY <1>4, <1>t DEF DecideBook, DecidePatch, DecideManage, DecideCreate,
                      Write, Reject, End, Ready
  <2> QED
    BY <1>4, <2>1 DEF AtMostOneInFlight, InFlight
<1>5. ASSUME NEW q \in Requests, NEW t \in Tables, Commit(q, t) \/ FailWrite(q, t), q # k
      PROVE  FALSE
  BY <1>5 DEF Commit, FailWrite, AtMostOneInFlight, InFlight
<1>6. ASSUME NEW q \in Requests, Finish(q) \/ Crash(q)
      PROVE  FALSE
  <2>1. pc[q] \in {"reading", "writing"}
    BY <1>6 DEF Finish, Crash, InFlight
  <2> QED
    BY <1>2, <1>6, <2>1 DEF Finish, Verdict, Crash
<1> QED
  BY <1>1, <1>3, <1>4, <1>5, <1>6 DEF Next

\* The resources a request is about to write: the stored ones, or with its own.
ResourceWrite(q, rows) ==
    LET c == call[q] IN
    \/ c.kind \in {"book", "patch"} /\ rows = db.resources
    \/ c.kind = "manage" /\ rows = [db.resources EXCEPT ![c.resource] = c.status]
    \/ c.kind = "create" /\ rows = [db.resources EXCEPT ![c.resource] = "active"]

ResourceWritesAreCurrent ==
    \A q \in Requests : pc[q] = "writing" /\ "resources" \in todo[q] =>
        ResourceWrite(q, snap[q].resources)

\* A resource that is being created is not there yet.
NewResources ==
    \A q \in InFlight :
        call[q].kind = "create" /\ (pc[q] = "reading" \/ "resources" \in todo[q]) =>
            db.resources[call[q].resource] = NoRow

\* What a request that is writing has in its snapshot, and in the database once
\* the statement is done (unless one failed).
HasPatched(q, books) ==
    LET c == call[q] IN
    /\ books[c.target] # NoRow
    /\ c.status # Keep => books[c.target].status = c.status

HasManaged(q, rows) == rows[call[q].resource] = call[q].status

ChangeInHand(q) ==
    /\ call[q].kind = "patch" =>
          /\ HasPatched(q, snap[q].bookings)
          /\ ~failed[q] /\ "bookings" \notin todo[q] => HasPatched(q, db.bookings)
    /\ call[q].kind = "manage" =>
          /\ HasManaged(q, snap[q].resources)
          /\ ~failed[q] /\ "resources" \notin todo[q] => HasManaged(q, db.resources)

ChangesInHand == \A q \in Requests : pc[q] = "writing" => ChangeInHand(q)

\* A change that was answered holds, and its row is there.
ChangesAnswered ==
    \A q \in Requests : Answered(q) /\ OnlyCallOnItsRow(q) =>
        /\ call[q].kind = "patch" => HasPatched(q, db.bookings)
        /\ call[q].kind = "manage" => HasManaged(q, db.resources)

\* What DecideBook, DecidePatch, DecideManage and DecideCreate write.
LEMMA DecisionWrites ==
    ASSUME TypeOK, ReadsAreCurrent, NEW k \in Requests, pc'[k] = "writing",
           DecideBook(k) \/ DecidePatch(k) \/ DecideManage(k) \/ DecideCreate(k)
    PROVE  /\ pc[k] = "reading" /\ UNCHANGED <<db, call, failed>>
           /\ ResourceWrite(k, snap'[k].resources)
           /\ call[k].kind = "patch" => HasPatched(k, snap'[k].bookings)
           /\ call[k].kind = "manage" => HasManaged(k, snap'[k].resources)
           /\ \A t \in Tables : \A i \in DOMAIN snap'[k][t] :
                 snap'[k][t][i] # NoRow => t \in todo'[k]
<1> DEFINE c == call[k]
<1>t. /\ snap \in [Requests -> Store] /\ snap[k] \in Store
      /\ todo \in [Requests -> SUBSET Tables]
      /\ pc \in [Requests -> {"idle", "reading", "writing", "ok", "rejected",
                              "error", "lost"}]
  BY DEF TypeOK
<1>1. /\ pc[k] = "reading" /\ loaded[k] = Tables
  BY DEF DecideBook, DecidePatch, DecideManage, DecideCreate, Ready
<1>2. snap[k].resources = db.resources /\ snap[k].bookings = db.bookings
  BY <1>1 DEF ReadsAreCurrent, Tables
<1>3. ~Reject(k)
  BY <1>t DEF Reject, End
<1>4. ASSUME NEW s, Write(k, s)
      PROVE  /\ UNCHANGED <<db, call, failed>> /\ snap'[k] = s
             /\ \A t \in Tables : \A i \in DOMAIN s[t] : s[t][i] # NoRow => t \in todo'[k]
  BY <1>4, <1>t DEF Write
<1>5. CASE DecideBook(k)
  <2> DEFINE row == [by |-> c.by, resource |-> c.resource, context |-> c.context,
                     window |-> c.window, party |-> c.party,
                     status |-> IF NeedsApproval[c.resource] THEN "pending" ELSE "confirmed"]
             s == [snap[k] EXCEPT !.bookings[k] = row, !.participants[k] = c.by]
  <2>1. Write(k, s) /\ c.kind = "book"
    BY <1>3, <1>5 DEF DecideBook, Ready
  <2>2. s.resources = db.resources
    BY <1>2, <1>t DEF Store
  <2> HIDE DEF s
  <2> QED
    BY <1>1, <1>4, <2>1, <2>2 DEF ResourceWrite
<1>6. CASE DecidePatch(k)
  <2> DEFINE s == [snap[k] EXCEPT !.bookings[c.target] = Patched(@, c)]
  <2>1. Write(k, s) /\ c.kind = "patch" /\ c \in PatchCalls
    BY <1>1, <1>3, <1>6, StartedRequestsHaveCalls DEF DecidePatch, Ready
  <2>2. s.resources = db.resources
    BY <1>2, <1>t DEF Store
  <2>3. HasPatched(k, s.bookings)
    <3> DEFINE b == snap[k].bookings[c.target]
    <3>1. c.target \in Requests
      BY <2>1 DEF PatchCalls
    <3>2. b \in Booking
      BY <1>3, <1>6, <1>t, <3>1 DEF DecidePatch, MayPatch, Store
    <3>3. s.bookings[c.target] = Patched(b, c)
      BY <1>t, <3>1 DEF Store
    <3>4. Patched(b, c) \in Booking /\ (c.status # Keep => Patched(b, c).status = c.status)
      BY <2>1, <3>2 DEF Patched, Booking, PatchCalls
    <3> HIDE DEF s, b
    <3> QED
      BY <3>3, <3>4 DEF HasPatched
  <2> HIDE DEF s
  <2> QED
    BY <1>1, <1>4, <2>1, <2>2, <2>3 DEF ResourceWrite
<1>7. CASE DecideManage(k)
  <2> DEFINE s == [snap[k] EXCEPT !.resources[c.resource] = c.status]
  <2>1. Write(k, s) /\ c.kind = "manage" /\ c \in ManageCalls
    BY <1>1, <1>3, <1>7, StartedRequestsHaveCalls DEF DecideManage, Ready
  <2>2. s.resources = [db.resources EXCEPT ![c.resource] = c.status]
    BY <1>2, <1>t DEF Store
  <2>3. HasManaged(k, s.resources)
    BY <1>t, <2>1 DEF HasManaged, Store, ManageCalls
  <2> HIDE DEF s
  <2> QED
    BY <1>1, <1>4, <2>1, <2>2, <2>3 DEF ResourceWrite
<1>8. CASE DecideCreate(k)
  <2> DEFINE s == [snap[k] EXCEPT !.resources[c.resource] = "active",
                                  !.slots[c.resource] = "generated"]
  <2>1. Write(k, s) /\ c.kind = "create"
    BY <1>8 DEF DecideCreate, Ready
  <2>2. s.resources = [db.resources EXCEPT ![c.resource] = "active"]
    BY <1>2, <1>t DEF Store
  <2> HIDE DEF s
  <2> QED
    BY <1>1, <1>4, <2>1, <2>2 DEF ResourceWrite
<1> QED
  BY <1>5, <1>6, <1>7, <1>8

\* Calls are kept, and a request is answered 200 when it has written everything.
LEMMA RequestsMove ==
    ASSUME TypeOK, [Next]_vars, NEW k \in Requests
    PROVE  /\ call[k] # NoCall => call'[k] = call[k]
           /\ pc'[k] = "reading" => pc[k] = "reading" \/ \E c \in Calls : Start(k, c)
           /\ pc'[k] = "ok" /\ pc[k] # "ok" =>
                 /\ pc[k] = "writing" /\ todo[k] = {} /\ ~failed[k]
                 /\ UNCHANGED <<db, call>>
<1> DEFINE Goal == /\ call[k] # NoCall => call'[k] = call[k]
                   /\ pc'[k] = "reading" => pc[k] = "reading" \/ \E c \in Calls : Start(k, c)
                   /\ pc'[k] = "ok" /\ pc[k] # "ok" =>
                         /\ pc[k] = "writing" /\ todo[k] = {} /\ ~failed[k]
                         /\ UNCHANGED <<db, call>>
<1> USE DEF TypeOK
<1>1. ASSUME NEW q \in Requests, NEW c \in Calls, Start(q, c)
      PROVE  Goal
  <2>1. CASE k = q
    BY <1>1, <2>1 DEF Start
  <2>2. CASE k # q
    BY <1>1, <2>2 DEF Start
  <2> QED
    BY <2>1, <2>2
<1>2. ASSUME NEW q \in Requests, NEW answer \in {"rejected", "error", "lost"}, End(q, answer)
      PROVE  Goal
  BY <1>2 DEF End
<1>3. ASSUME NEW q \in Requests, NEW s, Write(q, s)
      PROVE  Goal
  BY <1>3 DEF Write
<1>4. ASSUME NEW q \in Requests, NEW t \in Tables,
             Read(q, t) \/ FailRead(q, t) \/ Commit(q, t) \/ FailWrite(q, t)
      PROVE  Goal
  BY <1>2, <1>4 DEF Read, FailRead, Commit, FailWrite
<1>5. ASSUME NEW q \in Requests,
             DecideBook(q) \/ DecidePatch(q) \/ DecideManage(q) \/ DecideCreate(q)
      PROVE  Goal
  BY <1>2, <1>3, <1>5 DEF DecideBook, DecidePatch, DecideManage, DecideCreate, Reject
<1>6. ASSUME NEW q \in Requests, Finish(q)
      PROVE  Goal
  BY <1>6 DEF Finish, Verdict, End
<1>7. ASSUME NEW q \in Requests, Crash(q)
      PROVE  Goal
  BY <1>2, <1>7 DEF Crash
<1>8. CASE UNCHANGED vars
  BY <1>8 DEF vars
<1> QED
  BY <1>1, <1>4, <1>5, <1>6, <1>7, <1>8 DEF Next

\* Only a statement changes a table, and only its own.
Written(q, t) == /\ pc[q] = "writing" /\ t \in todo[q] /\ UNCHANGED pc
                 /\ db'[t] = Upsert(db[t], snap[q][t])
                 /\ todo' = [todo EXCEPT ![q] = @ \ {t}]

LEMMA TablesMove ==
    ASSUME TypeOK, [Next]_vars, NEW t \in Tables
    PROVE  db'[t] = db[t] \/ \E q \in Requests : Commit(q, t) /\ Written(q, t)
<1>1. CASE db' = db
  BY <1>1
<1>2. ASSUME NEW q \in Requests, NEW u \in Tables, Commit(q, u)
      PROVE  db'[t] = db[t] \/ (Commit(q, t) /\ Written(q, t))
  <2>1. db \in Store /\ DOMAIN db = Tables
    BY DEF TypeOK, Store, Tables
  <2>2. CASE u = t
    BY <1>2, <2>1, <2>2 DEF Commit, Written
  <2>3. CASE u # t
    BY <1>2, <2>1, <2>3 DEF Commit
  <2> QED
    BY <2>2, <2>3
<1> QED
  BY <1>1, <1>2 DEF Next, vars, Start, Read, FailRead, FailWrite, End, Write,
     DecideBook, DecidePatch, DecideManage, DecideCreate, Reject, Finish, Crash

LEMMA ResourceWritesStayCurrent ==
    ASSUME OneAtATime, TypeOK, SerialInv, ResourceWritesAreCurrent, [Next]_vars
    PROVE  ResourceWritesAreCurrent'
<1> SUFFICES ASSUME NEW k \in Requests, pc'[k] = "writing", "resources" \in todo'[k]
             PROVE  ResourceWrite(k, snap[k].resources)'
  BY DEF ResourceWritesAreCurrent
<1>1. CASE UNCHANGED vars
  BY <1>1 DEF vars, ResourceWritesAreCurrent, ResourceWrite
<1>2. CASE DecideBook(k) \/ DecidePatch(k) \/ DecideManage(k) \/ DecideCreate(k)
  BY <1>2, DecisionWrites DEF ResourceWrite, SerialInv
<1>3. ASSUME NEW t \in Tables, Commit(k, t) \/ FailWrite(k, t)
      PROVE  ResourceWrite(k, snap[k].resources)'
  <2>1. /\ pc[k] = "writing" /\ snap' = snap /\ call' = call
        /\ "resources" \in todo[k] /\ t # "resources"
    BY <1>3 DEF Commit, FailWrite, TypeOK
  <2>2. db'.resources = db.resources
    BY <1>3, <2>1 DEF Commit, FailWrite, TypeOK, Store
  <2> QED
    BY <2>1, <2>2 DEF ResourceWritesAreCurrent, ResourceWrite
<1> QED
  BY <1>1, <1>2, <1>3, OnlyTheWriterMoves DEF SerialInv

LEMMA NewResourcesStep ==
    ASSUME OneAtATime, TypeOK, SerialInv, NewResources, [Next]_vars
    PROVE  NewResources'
<1> SUFFICES ASSUME NEW q \in Requests, pc'[q] \in {"reading", "writing"},
                    call'[q].kind = "create",
                    pc'[q] = "reading" \/ "resources" \in todo'[q]
             PROVE  db'.resources[call'[q].resource] = NoRow
  BY DEF NewResources, InFlight
<1>t. /\ todo \in [Requests -> SUBSET Tables]
      /\ "resources" \in Tables
  BY DEF TypeOK, Tables
<1>1. CASE pc[q] = "reading" \/ (pc[q] = "writing" /\ "resources" \in todo[q])
  <2>1. call'[q] = call[q]
    BY <1>1, RequestsMove DEF TypeOK
  <2>2. db.resources[call[q].resource] = NoRow
    BY <1>1, <2>1 DEF NewResources, InFlight
  <2>3. ASSUME NEW p \in Requests, Written(p, "resources")
        PROVE  FALSE
    <3>1. p = q
      BY <1>1, <2>3 DEF Written, SerialInv, AtMostOneInFlight, InFlight
    <3> QED
      BY <1>t, <2>3, <3>1 DEF Written
  <2>4. \/ db'["resources"] = db["resources"]
        \/ \E p \in Requests : Written(p, "resources")
    BY <1>t, TablesMove
  <2>5. db'["resources"] = db["resources"]
    BY <2>3, <2>4
  <2> QED
    BY <2>1, <2>2, <2>5
<1>2. CASE pc[q] # "reading" /\ ~(pc[q] = "writing" /\ "resources" \in todo[q])
  <2>1. CASE pc'[q] = "reading"
    <3>1. PICK c \in Calls : Start(q, c)
      BY <1>2, <2>1, RequestsMove
    <3>2. call'[q] = c /\ db' = db /\ Fresh(c)
      BY <3>1 DEF Start, TypeOK
    <3> QED
      BY <3>2 DEF Fresh
  <2>2. CASE pc'[q] = "writing"
    <3>1. "resources" \in todo'[q]
      BY <2>2
    <3>2. pc[q] = "writing" /\ "resources" \in todo[q]
      BY <1>2, <1>t, <2>2, <3>1, OnlyTheWriterMoves, DecisionWrites
         DEF SerialInv, vars, Commit, FailWrite
    <3> QED
      BY <1>2, <3>2
  <2> QED
    BY <2>1, <2>2
<1> QED
  BY <1>1, <1>2

LEMMA ChangesInHandStep ==
    ASSUME OneAtATime, TypeOK, SerialInv, ChangesInHand, [Next]_vars
    PROVE  ChangesInHand'
<1> SUFFICES ASSUME NEW k \in Requests, pc'[k] = "writing"
             PROVE  ChangeInHand(k)'
  BY DEF ChangesInHand
<1>t. /\ snap \in [Requests -> Store] /\ db \in Store
      /\ todo \in [Requests -> SUBSET Tables] /\ failed \in [Requests -> BOOLEAN]
  BY DEF TypeOK
<1>1. CASE UNCHANGED vars
  BY <1>1 DEF vars, ChangesInHand, ChangeInHand, HasPatched, HasManaged
<1>2. CASE DecideBook(k) \/ DecidePatch(k) \/ DecideManage(k) \/ DecideCreate(k)
  <2>1. /\ call' = call /\ pc[k] = "reading"
        /\ call[k].kind = "patch" => HasPatched(k, snap'[k].bookings)
        /\ call[k].kind = "manage" => HasManaged(k, snap'[k].resources)
        /\ \A t \in Tables : \A i \in DOMAIN snap'[k][t] :
              snap'[k][t][i] # NoRow => t \in todo'[k]
    BY <1>2, DecisionWrites DEF SerialInv
  <2>2. snap'[k] \in Store
    BY TypeStep DEF TypeOK
  <2>3. call[k].kind = "patch" => "bookings" \in todo'[k]
    <3>1. ASSUME call[k].kind = "patch"
          PROVE  "bookings" \in todo'[k]
      <4>1. call[k].target \in DOMAIN snap'[k]["bookings"]
        BY <2>1, <2>2, <3>1, StartedRequestsHaveCalls DEF PatchCalls, Store
      <4>2. snap'[k]["bookings"][call[k].target] # NoRow
        BY <2>1, <3>1 DEF HasPatched
      <4> QED
        BY <2>1, <4>1, <4>2 DEF Tables
    <3> QED
      BY <3>1
  <2>4. call[k].kind = "manage" => "resources" \in todo'[k]
    <3>1. ASSUME call[k].kind = "manage"
          PROVE  "resources" \in todo'[k]
      <4>1. call[k] \in ManageCalls
        BY <2>1, <3>1, StartedRequestsHaveCalls
      <4>2. call[k].resource \in DOMAIN snap'[k]["resources"]
        BY <2>2, <4>1 DEF ManageCalls, Store
      <4>3. snap'[k]["resources"][call[k].resource] # NoRow
        BY <2>1, <3>1, <4>1 DEF HasManaged, ManageCalls
      <4> QED
        BY <2>1, <4>2, <4>3 DEF Tables
    <3> QED
      BY <3>1
  <2> QED
    BY <2>1, <2>3, <2>4 DEF ChangeInHand, HasPatched, HasManaged
<1>3. ASSUME NEW t \in Tables, Commit(k, t) \/ FailWrite(k, t)
      PROVE  ChangeInHand(k)'
  <2>1. /\ pc[k] = "writing" /\ snap' = snap /\ call' = call /\ t \in todo[k]
        /\ todo'[k] = todo[k] \ {t}
        /\ ~failed'[k] => ~failed[k] /\ Commit(k, t)
    <3>1. CASE Commit(k, t)
      BY <1>t, <3>1 DEF Commit
    <3>2. CASE FailWrite(k, t)
      BY <1>t, <3>2 DEF FailWrite
    <3> QED
      BY <1>3, <3>1, <3>2
  <2>2. ChangeInHand(k)
    BY <2>1 DEF ChangesInHand
  <2>3. ASSUME call[k].kind = "patch", ~failed'[k], "bookings" \notin todo'[k]
        PROVE  HasPatched(k, db.bookings)'
    <3>1. HasPatched(k, snap[k].bookings) /\ call[k].target \in Requests
      BY <2>1, <2>2, <2>3, StartedRequestsHaveCalls DEF ChangeInHand, PatchCalls
    <3>2. CASE t = "bookings"
      <4>1. db'.bookings = Upsert(db.bookings, snap[k].bookings)
        BY <1>t, <2>1, <2>3, <3>2 DEF Commit, Store
      <4>2. db'.bookings[call[k].target] = snap[k].bookings[call[k].target]
        BY <1>t, <3>1, <4>1 DEF Upsert, Store, HasPatched
      <4> QED
        BY <2>1, <3>1, <4>2 DEF HasPatched
    <3>3. CASE t # "bookings"
      <4>1. db'.bookings = db.bookings
        BY <1>t, <2>1, <2>3, <3>3 DEF Commit, Store
      <4> QED
        BY <2>1, <2>2, <2>3, <3>3, <4>1 DEF ChangeInHand, HasPatched
    <3> QED
      BY <3>2, <3>3
  <2>4. ASSUME call[k].kind = "manage", ~failed'[k], "resources" \notin todo'[k]
        PROVE  HasManaged(k, db.resources)'
    <3>1. HasManaged(k, snap[k].resources) /\ call[k] \in ManageCalls
      BY <2>1, <2>2, <2>4, StartedRequestsHaveCalls DEF ChangeInHand
    <3>2. CASE t = "resources"
      <4>1. db'.resources = Upsert(db.resources, snap[k].resources)
        BY <1>t, <2>1, <2>4, <3>2 DEF Commit, Store
      <4>2. db'.resources[call[k].resource] = snap[k].resources[call[k].resource]
        BY <1>t, <3>1, <4>1 DEF Upsert, Store, HasManaged, ManageCalls
      <4> QED
        BY <2>1, <3>1, <4>2 DEF HasManaged
    <3>3. CASE t # "resources"
      <4>1. db'.resources = db.resources
        BY <1>t, <2>1, <2>4, <3>3 DEF Commit, Store
      <4> QED
        BY <2>1, <2>2, <2>4, <3>3, <4>1 DEF ChangeInHand, HasManaged
    <3> QED
      BY <3>2, <3>3
  <2> QED
    BY <2>1, <2>2, <2>3, <2>4 DEF ChangeInHand, HasPatched, HasManaged
<1> QED
  BY <1>1, <1>2, <1>3, OnlyTheWriterMoves DEF SerialInv

\* What another request stores leaves the row of an answered change alone.
LEMMA ChangesAnsweredStep ==
    ASSUME OneAtATime, TypeOK, SerialInv, ResourceWritesAreCurrent, NewResources,
           ChangesInHand, ChangesAnswered, [Next]_vars
    PROVE  ChangesAnswered'
<1> SUFFICES ASSUME NEW k \in Requests, pc'[k] = "ok",
                    \A p \in Requests \ {k} : ~SameRow(call'[p], call'[k])
             PROVE  /\ call'[k].kind = "patch" => HasPatched(k, db.bookings)'
                    /\ call'[k].kind = "manage" => HasManaged(k, db.resources)'
  BY DEF ChangesAnswered, Answered, OnlyCallOnItsRow
<1>t. /\ snap \in [Requests -> Store] /\ db \in Store
      /\ "bookings" \in Tables /\ "resources" \in Tables
  BY DEF TypeOK, Tables
<1>1. CASE pc[k] # "ok"
  <2>1. /\ pc[k] = "writing" /\ todo[k] = {} /\ ~failed[k] /\ db' = db /\ call' = call
    BY <1>1, RequestsMove
  <2> QED
    BY <2>1 DEF ChangesInHand, ChangeInHand, HasPatched, HasManaged
<1>2. CASE pc[k] = "ok"
  <2>1. call[k] # NoCall /\ call'[k] = call[k]
    BY <1>2, RequestsMove DEF TypeOK
  <2>2. \A p \in Requests \ {k} : ~SameRow(call[p], call[k])
    BY <2>1, RequestsMove DEF SameRow
  <2>3. /\ call[k].kind = "patch" => HasPatched(k, db.bookings)
        /\ call[k].kind = "manage" => HasManaged(k, db.resources)
    BY <1>2, <2>2 DEF ChangesAnswered, Answered, OnlyCallOnItsRow
  <2>4. ASSUME call[k].kind = "patch"
        PROVE  HasPatched(k, db.bookings)'
    <3> DEFINE i == call[k].target
    <3>1. i \in Requests /\ db.bookings[i] # NoRow
      BY <1>2, <2>3, <2>4, StartedRequestsHaveCalls DEF PatchCalls, HasPatched
    <3>2. ASSUME NEW p \in Requests, Written(p, "bookings")
          PROVE  db'.bookings[i] = db.bookings[i]
      <4>1. p # k /\ call[p] # NoCall /\ pc[p] = "writing"
        BY <1>2, <3>2 DEF TypeOK, Written
      <4>2. Adds(p, snap[p].bookings) \/ Changes(p, snap[p].bookings)
            \/ Keeps(p, snap[p].bookings)
        BY <3>2 DEF SerialInv, WritesAreCounted, Written
      <4>3. snap[p].bookings[i] = db.bookings[i]
        <5>1. CASE Adds(p, snap[p].bookings)
          BY <1>t, <3>1, <5>1 DEF Adds, Store
        <5>2. CASE Changes(p, snap[p].bookings)
          <6>1. call[p].kind = "patch" /\ call[p].target # i
            BY <2>1, <2>2, <2>4, <4>1, <5>2 DEF Changes, SameRow
          <6> QED
            BY <1>t, <3>1, <5>2, <6>1 DEF Changes, Store
        <5>3. CASE Keeps(p, snap[p].bookings)
          BY <5>3 DEF Keeps
        <5> QED
          BY <4>2, <5>1, <5>2, <5>3
      <4> QED
        BY <1>t, <3>1, <3>2, <4>3 DEF Upsert, Store, Written
    <3>3. db'.bookings[i] = db.bookings[i]
      BY <1>t, <3>2, TablesMove
    <3> QED
      BY <2>1, <2>3, <2>4, <3>3 DEF HasPatched
  <2>5. ASSUME call[k].kind = "manage"
        PROVE  HasManaged(k, db.resources)'
    <3> DEFINE r == call[k].resource
    <3>1. r \in Resources /\ call[k].status \in ResourceStatuses
      BY <1>2, <2>5, StartedRequestsHaveCalls DEF ManageCalls
    <3>2. db.resources[r] = call[k].status /\ db.resources[r] # NoRow
      BY <2>3, <2>5, <3>1 DEF HasManaged
    <3>3. ASSUME NEW p \in Requests, Written(p, "resources")
          PROVE  db'.resources[r] = db.resources[r]
      <4>1. p # k /\ call[p] # NoCall /\ pc[p] = "writing"
        BY <1>2, <3>3 DEF TypeOK, Written
      <4>2. ResourceWrite(p, snap[p].resources)
        BY <3>3 DEF ResourceWritesAreCurrent, Written
      <4>3. snap[p].resources[r] = db.resources[r]
        <5>1. CASE call[p].kind \in {"book", "patch"}
          BY <4>2, <5>1 DEF ResourceWrite
        <5>2. CASE call[p].kind = "manage"
          <6>1. call[p].resource # r
            BY <2>1, <2>2, <2>5, <4>1, <5>2 DEF SameRow
          <6> QED
            BY <1>t, <3>1, <4>2, <5>2, <6>1 DEF ResourceWrite, Store
        <5>3. CASE call[p].kind = "create"
          <6>1. db.resources[call[p].resource] = NoRow
            BY <3>3, <5>3 DEF NewResources, InFlight, Written
          <6> QED
            BY <1>t, <3>1, <3>2, <4>2, <5>3, <6>1 DEF ResourceWrite, Store
        <5> QED
          BY <4>2, <5>1, <5>2, <5>3 DEF ResourceWrite
      <4> QED
        BY <1>t, <3>1, <3>3, <4>3 DEF Upsert, Store, Written
    <3>4. db'.resources[r] = db.resources[r]
      BY <1>t, <3>3, TablesMove
    <3> QED
      BY <2>1, <2>3, <2>5, <3>4 DEF HasManaged
  <2> QED
    BY <2>1, <2>4, <2>5
<1> QED
  BY <1>1, <1>2

ChangesInv == /\ ResourceWritesAreCurrent /\ NewResources
              /\ ChangesInHand /\ ChangesAnswered

LEMMA ChangesInvariant ==
    ASSUME OneAtATime
    PROVE  Spec => []ChangesInv
<1>1. Init => ChangesInv
  BY DEF Init, ChangesInv, ResourceWritesAreCurrent, NewResources, InFlight,
         ChangesInHand, ChangesAnswered, Answered
<1>2. TypeOK /\ SerialInv /\ ChangesInv /\ [Next]_vars => ChangesInv'
  BY ResourceWritesStayCurrent, NewResourcesStep, ChangesInHandStep,
     ChangesAnsweredStep DEF ChangesInv
<1> QED
  BY <1>1, <1>2, ReservationsTypeCorrect, SerialInvariant, PTL DEF Spec

\* One request at a time, a change that was answered 200 holds until the next call
\* on the same row, although every later request writes the whole store back.
THEOREM AnsweredChangesAreKept ==
    ASSUME OneAtATime
    PROVE  Spec => []AnsweredChangesHold
<1>1. ChangesInv => AnsweredChangesHold
  BY DEF ChangesInv, ChangesAnswered, AnsweredChangesHold, HasPatched, HasManaged
<1> QED
  BY <1>1, ChangesInvariant, PTL

-----------------------------------------------------------------------------
(* Facilities.                                                              *)

\* Seats and activities that do not grow stay within the capacity.
LEMMA NoMoreThanBefore ==
    ASSUME NEW S, NEW T, IsFiniteSet(T), S \subseteq T,
           NEW A, NEW B, IsFiniteSet(B), A \subseteq B,
           NEW n \in Nat, Cardinality(T) + Cardinality(B) <= n
    PROVE  Cardinality(S) + Cardinality(A) <= n
<1>1. /\ IsFiniteSet(S) /\ Cardinality(S) <= Cardinality(T)
      /\ IsFiniteSet(A) /\ Cardinality(A) <= Cardinality(B)
  BY FS_Subset
<1>2. /\ Cardinality(S) \in Nat /\ Cardinality(T) \in Nat
      /\ Cardinality(A) \in Nat /\ Cardinality(B) \in Nat
  BY <1>1, FS_CardinalityType
<1> QED
  BY <1>1, <1>2

\* One more booking adds at most its party.
LEMMA OneMoreParty ==
    ASSUME NEW rows, NEW old, NEW S \in SUBSET Requests, NEW D \in SUBSET Requests,
           NEW k \in Requests, NEW n \in 1..MaxParty, rows[k].party = n,
           \A i \in S : i # k => i \in D /\ rows[i].party = old[i].party
    PROVE  Cardinality(SeatsOf(rows, S, MaxParty))
             <= Cardinality(SeatsOf(old, D, MaxParty)) + n
<1> DEFINE One == {k} \X (1..n)
           Old == SeatsOf(old, D, MaxParty)
           New == SeatsOf(rows, S, MaxParty)
<1>1. IsFiniteSet(One) /\ Cardinality(One) = n
  <2>1. IsFiniteSet(1..n) /\ Cardinality(1..n) = n
    BY FS_Interval, n \in Int, 1 \in Int
  <2>2. IsFiniteSet({k}) /\ Cardinality({k}) = 1
    BY FS_Singleton
  <2>3. IsFiniteSet(One) /\ Cardinality(One) = Cardinality({k}) * Cardinality(1..n)
    BY <2>1, <2>2, FS_Product
  <2> HIDE DEF One
  <2> QED
    BY <2>1, <2>2, <2>3
<1>2. IsFiniteSet(Old) /\ Cardinality(Old) \in Nat
  <2>1. IsFiniteSet(D)
    BY FS_Subset
  <2> QED
    BY <2>1, SeatsAreFinite
<1>3. New \in SUBSET (Old \cup One)
  BY DEF SeatsOf
<1> HIDE DEF New, Old, One
<1>4. /\ IsFiniteSet(Old \cup One)
      /\ Cardinality(Old \cup One) = Cardinality(Old) + Cardinality(One)
                                       - Cardinality(Old \cap One)
  BY <1>1, <1>2, FS_Union
<1>5. Cardinality(Old \cap One) \in Nat
  BY <1>1, FS_Intersection, FS_CardinalityType
<1>6. IsFiniteSet(New) /\ Cardinality(New) <= Cardinality(Old \cup One)
  BY <1>3, <1>4, FS_Subset
<1>7. Cardinality(New) \in Nat
  BY <1>6, FS_CardinalityType
<1>8. Cardinality(New) <= Cardinality(Old) + n
  BY <1>1, <1>2, <1>4, <1>5, <1>6, <1>7
<1> QED
  BY <1>8 DEF New, Old

\* What room there is depends on two tables.
LEMMA SameUse ==
    ASSUME NEW s, NEW u, s.bookings = u.bookings, s.resources = u.resources,
           NEW r, NEW w
    PROVE  UsedCapacity(s, r, w) = UsedCapacity(u, r, w)
<1>1. \A a : Direct(s, a, w) = Direct(u, a, w)
  BY DEF Direct
<1>2. Activities(s, r, w) = Activities(u, r, w)
  BY <1>1 DEF Activities
<1> QED
  BY <1>1, <1>2 DEF UsedCapacity

LEMMA SameRoom ==
    ASSUME NEW s, NEW u, s.bookings = u.bookings, s.resources = u.resources,
           NEW r, NEW w, NEW n
    PROVE  HasRoom(s, r, w, n) <=> HasRoom(u, r, w, n)
  BY SameUse DEF HasRoom, SlotCapacity

LEMMA SameFreedom ==
    ASSUME NEW s, NEW u, s.bookings = u.bookings, s.resources = u.resources, NEW c
    PROVE  FacilityIsFree(s, c) <=> FacilityIsFree(u, c)
  BY SameUse DEF FacilityIsFree, SlotCapacity

\* The database without booking k.
Without(k) == [db EXCEPT !.bookings = [db.bookings EXCEPT ![k] = NoRow]]

\* The room that a request found is still there when it writes its bookings.
RoomIsThere(q) ==
    LET c == call[q]
        k == call[q].target
        b == db.bookings[k]
    IN /\ c.kind = "book" => /\ HasRoom(db, c.resource, c.window, c.party)
                             /\ FacilityIsFree(db, c)
       /\ c.kind = "patch" /\ c.window # Keep =>
              HasRoom(Without(k), b.resource, c.window, b.party)

RoomIsStillThere ==
    \A q \in Requests : pc[q] = "writing" /\ "bookings" \in todo[q] => RoomIsThere(q)

\* Resources that were there from the start, or are booked, exist.
BookedResourcesExist ==
    /\ \A r \in Stored : db.resources[r] # NoRow
    /\ \A k \in Requests : db.bookings[k] # NoRow =>
           db.resources[db.bookings[k].resource] # NoRow

LEMMA BookedResourcesStep ==
    ASSUME TypeOK, BookedResourcesExist, [Next]_vars
    PROVE  BookedResourcesExist'
<1>t. /\ snap \in [Requests -> Store] /\ db \in Store
      /\ "bookings" \in Tables /\ "resources" \in Tables
  BY DEF TypeOK, Tables
<1>1. ASSUME NEW r \in Resources, db.resources[r] # NoRow
      PROVE  db'.resources[r] # NoRow
  <2>1. \/ db'["resources"] = db["resources"]
        \/ \E q \in Requests : Written(q, "resources")
    BY <1>t, TablesMove
  <2>2. ASSUME NEW q \in Requests, Written(q, "resources")
        PROVE  db'["resources"][r] # NoRow
    BY <1>1, <1>t, <2>2 DEF Written, Upsert, Store
  <2> QED
    BY <1>1, <2>1, <2>2
<1>2. ASSUME NEW k \in Requests, db'.bookings[k] # NoRow
      PROVE  db'.resources[db'.bookings[k].resource] # NoRow
  <2>1. CASE db'["bookings"] = db["bookings"]
    <3>1. db.bookings[k] # NoRow /\ db.bookings[k] \in Booking
      BY <1>2, <1>t, <2>1 DEF Store
    <3>2. db.resources[db.bookings[k].resource] # NoRow
          /\ db.bookings[k].resource \in Resources
      BY <3>1 DEF BookedResourcesExist, Booking
    <3> QED
      BY <1>1, <2>1, <3>2
  <2>2. ASSUME NEW q \in Requests, Commit(q, "bookings"), Written(q, "bookings")
        PROVE  db'.resources[db'.bookings[k].resource] # NoRow
    <3> DEFINE new == snap[q].bookings[k]
    <3>1. db'.bookings[k] = IF new # NoRow THEN new ELSE db.bookings[k]
      BY <1>t, <2>2 DEF Written, Upsert, Store
    <3>2. new \in Booking \cup {NoRow} /\ db.bookings[k] \in Booking \cup {NoRow}
      BY <1>t DEF Store
    <3>3. new # NoRow => db.resources[new.resource] # NoRow
      BY <1>t, <2>2 DEF Commit, ReferencesHold, Store
    <3>4. /\ db.resources[db'.bookings[k].resource] # NoRow
          /\ db'.bookings[k].resource \in Resources
      BY <1>2, <3>1, <3>2, <3>3 DEF BookedResourcesExist, Booking
    <3> QED
      BY <1>1, <3>4
  <2> QED
    BY <1>t, <2>1, <2>2, TablesMove
<1> QED
  BY <1>1, <1>2 DEF BookedResourcesExist

LEMMA RoomStaysThere ==
    ASSUME OneAtATime, TypeOK, SerialInv, ResourceWritesAreCurrent, RoomIsStillThere,
           [Next]_vars
    PROVE  RoomIsStillThere'
<1> SUFFICES ASSUME NEW k \in Requests, pc'[k] = "writing", "bookings" \in todo'[k]
             PROVE  RoomIsThere(k)'
  BY DEF RoomIsStillThere
<1>t. /\ snap \in [Requests -> Store] /\ db \in Store /\ db' \in Store
      /\ "bookings" \in Tables /\ "resources" \in Tables
  BY TypeStep DEF TypeOK, Tables
\* Nothing that was counted has changed.
<1>0. ASSUME call' = call, RoomIsThere(k), db'.bookings = db.bookings,
             call[k].kind \in {"book", "patch"} => db'.resources = db.resources
      PROVE  RoomIsThere(k)'
  <2> DEFINE c == call[k]
             i == c.target
             b == db.bookings[i]
  <2>1. ASSUME c.kind = "book"
        PROVE  HasRoom(db', c.resource, c.window, c.party) /\ FacilityIsFree(db', c)
    BY <1>0, <2>1, SameRoom, SameFreedom DEF RoomIsThere
  <2>2. ASSUME c.kind = "patch", c.window # Keep
        PROVE  HasRoom(Without(i)', b.resource, c.window, b.party)
    <3>1. /\ Without(i)'.bookings = Without(i).bookings
          /\ Without(i)'.resources = Without(i).resources
      BY <1>0, <1>t, <2>2 DEF Without, Store
    <3>2. HasRoom(Without(i), b.resource, c.window, b.party)
      BY <1>0, <2>2 DEF RoomIsThere
    <3> QED
      BY <3>1, <3>2, SameRoom
  <2> QED
    BY <1>0, <2>1, <2>2 DEF RoomIsThere
<1>1. CASE UNCHANGED vars
  BY <1>0, <1>1 DEF vars, RoomIsStillThere
<1>2. CASE DecideBook(k) \/ DecidePatch(k) \/ DecideManage(k) \/ DecideCreate(k)
  <2>1. /\ db' = db /\ call' = call /\ pc[k] = "reading" /\ loaded[k] = Tables
    BY <1>2, DecisionWrites DEF SerialInv, DecideBook, DecidePatch, DecideManage,
                                DecideCreate, Ready
  <2>2. snap[k].resources = db.resources /\ snap[k].bookings = db.bookings
    BY <2>1 DEF SerialInv, ReadsAreCurrent, Tables
  <2>3. ~Reject(k)
    BY DEF Reject, End, TypeOK
  <2>4. ASSUME call[k].kind = "book"
        PROVE  /\ HasRoom(db, call[k].resource, call[k].window, call[k].party)
               /\ FacilityIsFree(db, call[k])
    <3>1. MayBook(snap[k], call[k])
      BY <1>2, <2>3, <2>4 DEF DecideBook, DecidePatch, DecideManage, DecideCreate, Ready
    <3> QED
      BY <2>2, <3>1, SameRoom, SameFreedom DEF MayBook
  <2>5. ASSUME call[k].kind = "patch", call[k].window # Keep
        PROVE  LET b == db.bookings[call[k].target]
               IN  HasRoom(Without(call[k].target), b.resource, call[k].window, b.party)
    <3> DEFINE i == call[k].target
               others == [snap[k] EXCEPT !.bookings[i] = NoRow]
               b == db.bookings[i]
    <3>1. MayPatch(snap[k], call[k])
      BY <1>2, <2>3, <2>5 DEF DecideBook, DecidePatch, DecideManage, DecideCreate, Ready
    <3>2. HasRoom(others, b.resource, call[k].window, b.party)
      BY <2>2, <2>5, <3>1 DEF MayPatch
    <3>3. /\ others.bookings = Without(i).bookings
          /\ others.resources = Without(i).resources
      BY <1>t, <2>2 DEF Without, Store
    <3> QED
      BY <3>2, <3>3, SameRoom
  <2>6. RoomIsThere(k)
    BY <2>4, <2>5 DEF RoomIsThere
  <2> QED
    BY <1>0, <2>1, <2>6
<1>3. ASSUME NEW t \in Tables, Commit(k, t) \/ FailWrite(k, t)
      PROVE  RoomIsThere(k)'
  <2>1. /\ pc[k] = "writing" /\ snap' = snap /\ call' = call
        /\ "bookings" \in todo[k] /\ t # "bookings" /\ t \in todo[k]
    BY <1>3 DEF Commit, FailWrite, TypeOK
  <2>2. db'.bookings = db.bookings
    BY <1>3, <1>t, <2>1 DEF Commit, FailWrite, Store
  <2>3. ASSUME call[k].kind \in {"book", "patch"}
        PROVE  db'.resources = db.resources
    <3>1. CASE t = "resources"
      <4>1. snap[k].resources = db.resources
        BY <2>1, <2>3, <3>1 DEF ResourceWritesAreCurrent, ResourceWrite
      <4>2. db'.resources = db.resources \/ db'.resources = Upsert(db.resources, snap[k].resources)
        BY <1>3, <1>t, <3>1 DEF Commit, FailWrite, Store
      <4> QED
        BY <1>t, <4>1, <4>2 DEF Upsert, Store
    <3>2. CASE t # "resources"
      BY <1>3, <1>t, <3>2 DEF Commit, FailWrite, Store
    <3> QED
      BY <3>1, <3>2
  <2>4. RoomIsThere(k)
    BY <2>1 DEF RoomIsStillThere
  <2> QED
    BY <1>0, <2>1, <2>2, <2>3, <2>4
<1> QED
  BY <1>1, <1>2, <1>3, OnlyTheWriterMoves DEF SerialInv

\* A booking that was moved stays marked.
LEMMA MovedStays ==
    ASSUME TypeOK, [Next]_vars, NEW k \in Requests, Moved(k)
    PROVE  Moved(k)'
<1> DEFINE Decided(q) == pc[q] \notin {"idle", "reading", "rejected"}
<1>1. PICK q \in Requests : /\ Decided(q)
                            /\ call[q].kind = "patch"
                            /\ call[q].target = k
                            /\ call[q].window # Keep
  BY DEF Moved
<1>2. call'[q] = call[q]
  BY <1>1, RequestsMove DEF TypeOK
<1>3. Decided(q)'
  <2> USE DEF TypeOK
  <2>1. ASSUME NEW p \in Requests, NEW answer \in {"ok", "error", "lost"}, End(p, answer)
        PROVE  Decided(q)'
    BY <1>1, <2>1 DEF End
  <2>2. ASSUME NEW p \in Requests, NEW s, Write(p, s)
        PROVE  Decided(q)'
    BY <1>1, <2>2 DEF Write
  <2>3. ASSUME NEW p \in Requests, NEW c \in Calls, Start(p, c)
        PROVE  Decided(q)'
    BY <1>1, <2>3 DEF Start
  <2>4. ASSUME NEW p \in Requests, NEW t \in Tables,
               Read(p, t) \/ FailRead(p, t) \/ Commit(p, t) \/ FailWrite(p, t)
        PROVE  Decided(q)'
    BY <1>1, <2>1, <2>4 DEF Read, FailRead, Commit, FailWrite
  <2>5. ASSUME NEW p \in Requests, pc[p] = "reading", Reject(p)
        PROVE  Decided(q)'
    BY <1>1, <2>5 DEF Reject, End
  <2>6. ASSUME NEW p \in Requests,
               DecideBook(p) \/ DecidePatch(p) \/ DecideManage(p) \/ DecideCreate(p)
        PROVE  Decided(q)'
    BY <1>1, <2>2, <2>5, <2>6 DEF DecideBook, DecidePatch, DecideManage, DecideCreate, Ready
  <2>7. ASSUME NEW p \in Requests, Finish(p) \/ Crash(p)
        PROVE  Decided(q)'
    BY <1>1, <2>1, <2>7 DEF Finish, Verdict, Crash
  <2>8. CASE UNCHANGED vars
    BY <1>1, <2>8 DEF vars
  <2> QED
    BY <2>3, <2>4, <2>6, <2>7, <2>8 DEF Next
<1> QED
  BY <1>1, <1>2, <1>3 DEF Moved

Counting(r, t) == HeldAt(r, t) \ unchecked

\* Facility r at minute t.
FacilityFits(r, t) ==
    Cardinality(SeatsOf(db.bookings, Counting(r, t), MaxParty))
        + Cardinality(ActivitiesAt(r, t)) <= Capacity[r]

LEMMA FiniteOnFacility ==
    ASSUME NEW r, NEW t
    PROVE  /\ Counting(r, t) \in SUBSET Requests
           /\ IsFiniteSet(SeatsOf(db.bookings, Counting(r, t), MaxParty))
           /\ Cardinality(SeatsOf(db.bookings, Counting(r, t), MaxParty)) \in Nat
           /\ IsFiniteSet(ActivitiesAt(r, t))
           /\ Cardinality(ActivitiesAt(r, t)) \in Nat
<1>1. Counting(r, t) \in SUBSET Requests /\ ActivitiesAt(r, t) \in SUBSET Resources
  BY DEF Counting, HeldAt, ActivitiesAt
<1>2. IsFiniteSet(Counting(r, t)) /\ IsFiniteSet(ActivitiesAt(r, t))
  BY <1>1, FS_Subset
<1> QED
  BY <1>1, <1>2, SeatsAreFinite, FS_CardinalityType

\* Fewer of both kinds fit.
LEMMA FewerOnFacility ==
    ASSUME NEW r \in Resources, NEW t, FacilityFits(r, t),
           \A i \in Counting(r, t)' : /\ i \in Counting(r, t)
                                      /\ db'.bookings[i].party = db.bookings[i].party,
           ActivitiesAt(r, t)' \subseteq ActivitiesAt(r, t)
    PROVE  FacilityFits(r, t)'
<1>1. SeatsOf(db.bookings, Counting(r, t), MaxParty)'
        \subseteq SeatsOf(db.bookings, Counting(r, t), MaxParty)
  BY DEF SeatsOf
<1>2. Capacity[r] \in Nat
  OBVIOUS
<1> QED
  BY <1>1, <1>2, FiniteOnFacility, NoMoreThanBefore DEF FacilityFits

\* Who holds a resource at a minute is counted by whoever asks for an interval
\* that covers it, on the database or without one of its bookings.
LEMMA HolderIsCounted ==
    ASSUME TypeOK, NEW s, NEW i, NEW r, NEW t \in Minutes, NEW w \in Windows,
           i \in HeldAt(r, t), s.bookings[i] = db.bookings[i], Covers(w, t)
    PROVE  i \in Direct(s, r, w)
<1>1. i \in Requests /\ db.bookings[i] \in Booking
  BY DEF HeldAt, TypeOK, Store
<1>2. db.bookings[i].window \in Windows /\ Covers(db.bookings[i].window, t)
  BY <1>1 DEF HeldAt, Booking
<1>3. t \in Nat
  BY DEF Minutes
<1>4. Overlaps(db.bookings[i].window, w)
  BY <1>2, <1>3 DEF Overlaps, Covers
<1> QED
  BY <1>1, <1>4 DEF Direct, Occupies, HeldAt

LEMMA ActivityIsCounted ==
    ASSUME TypeOK, BookedResourcesExist, NEW s, s.resources = db.resources,
           NEW a \in Resources, NEW r, a # r, Facility[a] = r,
           NEW i, NEW t \in Minutes, NEW w \in Windows,
           i \in HeldAt(a, t), s.bookings[i] = db.bookings[i], Covers(w, t)
    PROVE  a \in Activities(s, r, w)
<1>1. i \in Direct(s, a, w)
  BY HolderIsCounted
<1>2. db.resources[a] # NoRow
  BY DEF HeldAt, BookedResourcesExist
<1> QED
  BY <1>1, <1>2 DEF Activities

LEMMA FiniteUse ==
    ASSUME NEW s, NEW r, NEW w
    PROVE  /\ Direct(s, r, w) \in SUBSET Requests
           /\ IsFiniteSet(SeatsOf(s.bookings, Direct(s, r, w), MaxParty))
           /\ Cardinality(SeatsOf(s.bookings, Direct(s, r, w), MaxParty)) \in Nat
           /\ IsFiniteSet(Activities(s, r, w))
           /\ Cardinality(Activities(s, r, w)) \in Nat
<1>1. Direct(s, r, w) \in SUBSET Requests /\ Activities(s, r, w) \in SUBSET Resources
  BY DEF Direct, Activities
<1>2. IsFiniteSet(Direct(s, r, w)) /\ IsFiniteSet(Activities(s, r, w))
  BY <1>1, FS_Subset
<1> QED
  BY <1>1, <1>2, SeatsAreFinite, FS_CardinalityType

\* Whoever holds r at t after the step, k apart, was counted for w on s.
OthersAreCounted(s, r, w, t, k) ==
    /\ \A i \in Counting(r, t)' : i # k =>
           /\ i \in Direct(s, r, w)
           /\ db'.bookings[i].party = s.bookings[i].party
    /\ ActivitiesAt(r, t)' \subseteq Activities(s, r, w)

\* A counted party and the activities that were counted with it fit.
LEMMA PartyFits ==
    ASSUME NEW s, NEW r \in Resources, NEW w, NEW n \in 1..MaxParty, HasRoom(s, r, w, n),
           NEW k \in Requests, NEW t, db'.bookings[k].party = n,
           OthersAreCounted(s, r, w, t, k)
    PROVE  FacilityFits(r, t)'
<1> DEFINE D == Cardinality(SeatsOf(s.bookings, Direct(s, r, w), MaxParty))
           A == Cardinality(Activities(s, r, w))
           S == Cardinality(SeatsOf(db'.bookings, Counting(r, t)', MaxParty))
           B == Cardinality(ActivitiesAt(r, t)')
<1>1. D + A + n <= Capacity[r]
  BY DEF HasRoom, UsedCapacity, SlotCapacity
<1>2. Counting(r, t)' \in SUBSET Requests
  BY DEF Counting, HeldAt
<1>3. S <= D + n
  BY <1>2, FiniteUse, OneMoreParty DEF OthersAreCounted
<1>4. IsFiniteSet(Activities(s, r, w)) /\ D \in Nat /\ A \in Nat
  BY FiniteUse
<1>5. IsFiniteSet(ActivitiesAt(r, t)') /\ B <= A
  BY <1>4, FS_Subset DEF OthersAreCounted
<1>6. B \in Nat
  BY <1>5, FS_CardinalityType
<1>7. S \in Nat
  <2>1. IsFiniteSet(Counting(r, t)')
    BY <1>2, FS_Subset
  <2> QED
    BY <2>1, SeatsAreFinite
<1>8. Capacity[r] \in Nat
  OBVIOUS
<1>9. S + B <= Capacity[r]
  <2> HIDE DEF S, B, D, A
  <2> QED
    BY <1>1, <1>3, <1>4, <1>5, <1>6, <1>7, <1>8
<1> QED
  BY <1>9 DEF FacilityFits

\* One activity more fits where a place was free.
LEMMA ActivityFits ==
    ASSUME NEW r \in Resources, NEW w, NEW t, NEW a,
           UsedCapacity(db, r, w) < Capacity[r],
           \A i \in Counting(r, t)' : /\ i \in Direct(db, r, w)
                                      /\ db'.bookings[i].party = db.bookings[i].party,
           ActivitiesAt(r, t)' \subseteq Activities(db, r, w) \cup {a}
    PROVE  FacilityFits(r, t)'
<1> DEFINE Seats == SeatsOf(db.bookings, Direct(db, r, w), MaxParty)
           Acts == Activities(db, r, w)
<1>1. /\ IsFiniteSet(Seats) /\ Cardinality(Seats) \in Nat
      /\ IsFiniteSet(Acts) /\ Cardinality(Acts) \in Nat
  BY FiniteUse
<1>2. SeatsOf(db.bookings, Counting(r, t), MaxParty)' \subseteq Seats
  BY DEF SeatsOf
<1> DEFINE More == Acts \cup {a}
<1>3. /\ IsFiniteSet(More) /\ Cardinality(More) \in Nat
      /\ Cardinality(More) <= Cardinality(Acts) + 1
  <2> HIDE DEF Acts
  <2>1. CASE a \in Acts
    <3>1. More = Acts
      BY <2>1
    <3> HIDE DEF More
    <3> QED
      BY <1>1, <3>1
  <2>2. CASE a \notin Acts
    <3>1. IsFiniteSet(More) /\ Cardinality(More) = Cardinality(Acts) + 1
      BY <1>1, <2>2, FS_AddElement
    <3> HIDE DEF More
    <3> QED
      BY <1>1, <3>1
  <2> QED
    BY <2>1, <2>2
<1>4. Capacity[r] \in Nat
  OBVIOUS
<1>5. Cardinality(Seats) + Cardinality(Acts) < Capacity[r]
  BY DEF UsedCapacity
<1>6. Cardinality(Seats) + Cardinality(More) <= Capacity[r]
  <2> HIDE DEF Seats, Acts, More
  <2> QED
    BY <1>1, <1>3, <1>4, <1>5
<1> HIDE DEF Seats, Acts
<1>7. Cardinality(SeatsOf(db.bookings, Counting(r, t), MaxParty)')
        + Cardinality(ActivitiesAt(r, t)') <= Capacity[r]
  BY <1>1, <1>2, <1>3, <1>4, <1>6, NoMoreThanBefore DEF Acts
<1> QED
  BY <1>7 DEF FacilityFits

LEMMA AddedBookingFits ==
    ASSUME OneAtATime, TypeOK, TypeOK', [Next]_vars, SerialInv, BookedResourcesExist,
           NEW q \in Requests, Commit(q, "bookings"), RoomIsThere(q),
           Adds(q, snap[q].bookings),
           NEW r \in Stored, NEW t \in Minutes, FacilityFits(r, t)
    PROVE  FacilityFits(r, t)'
<1> DEFINE c == call[q]
           books == snap[q].bookings
           row == books[q]
<1>t. /\ db.bookings \in [Requests -> Booking \cup {NoRow}]
      /\ db'.bookings \in [Requests -> Booking \cup {NoRow}]
      /\ snap[q].bookings \in [Requests -> Booking \cup {NoRow}] /\ db \in Store
      /\ r \in Resources
  BY DEF TypeOK, Store
<1>1. c.kind = "book" /\ c \in BookCalls
  BY StartedRequestsHaveCalls DEF Commit, Adds
<1>2. /\ row \in Booking /\ row.status \in ActiveStatuses
      /\ row.resource = c.resource /\ row.window = c.window /\ row.party = c.party
      /\ row.context = c.context /\ c.window \in Windows /\ c.party \in 1..MaxParty
      /\ c.resource \in Resources /\ db.bookings[q] = NoRow
  BY <1>1 DEF Adds, Identity, BookCalls
<1>3. db'.bookings = [db.bookings EXCEPT ![q] = row] /\ unchecked' = unchecked
  <2>1. db'.bookings = Upsert(db.bookings, books)
    BY <1>t DEF Commit, Store
  <2>2. books = [db.bookings EXCEPT ![q] = row] /\ row # NoRow
    BY <1>2 DEF Adds
  <2>3. unchecked' = unchecked
    BY <1>1 DEF Commit, Uncounted
  <2>4. books \in [Requests -> Booking \cup {NoRow}]
    BY <1>t
  <2>5. db'.bookings = books
    <3> HIDE DEF books
    <3>1. \A i \in Requests : books[i] = NoRow => db.bookings[i] = NoRow
      BY <1>t, <2>2
    <3> QED
      BY <1>t, <2>1, <2>4, <3>1 DEF Upsert
  <2> HIDE DEF row, books
  <2> QED
    BY <2>2, <2>3, <2>5
<1> HIDE DEF row, books, c
<1>4. \A i \in Requests : i # q => db'.bookings[i] = db.bookings[i]
  BY <1>t, <1>3
<1>5. db'.bookings[q] = row
  BY <1>t, <1>3
\* Every other holder was there before.
<1>6. ASSUME NEW x, NEW i \in Counting(x, t)', i # q
      PROVE  i \in Counting(x, t) /\ i \in HeldAt(x, t)
             /\ db'.bookings[i].party = db.bookings[i].party
  BY <1>3, <1>4, <1>6 DEF Counting, HeldAt
<1>7. ASSUME NEW x, q \in Counting(x, t)'
      PROVE  x = c.resource /\ Covers(c.window, t)
  BY <1>2, <1>5, <1>7 DEF Counting, HeldAt
<1>8. ASSUME NEW i \in Requests, i # q, AskedTheFacility(i)'
      PROVE  AskedTheFacility(i)
  BY <1>4, <1>8, MovedStays DEF AskedTheFacility
<1>9. ASSUME NEW a \in ActivitiesAt(r, t)', a # c.resource \/ ~Covers(c.window, t)
      PROVE  a \in ActivitiesAt(r, t)
  <2>1. PICK i \in Counting(a, t)' : AskedTheFacility(i)'
    BY <1>9 DEF ActivitiesAt, Counting
  <2>2. i # q
    BY <1>7, <1>9
  <2>3. i \in Counting(a, t) /\ i \in Requests
    BY <1>6, <2>2 DEF Counting, HeldAt
  <2> QED
    BY <1>8, <1>9, <2>1, <2>2, <2>3 DEF ActivitiesAt, Counting
\* An activity at the facility is seen by a request for an interval around t.
<1>10. ASSUME NEW a \in ActivitiesAt(r, t), Covers(c.window, t)
       PROVE  a \in Activities(db, r, c.window)
  <2>1. PICK i \in HeldAt(a, t) : TRUE
    BY <1>10 DEF ActivitiesAt
  <2>2. a \in Resources /\ a # r /\ Facility[a] = r
    BY <1>10 DEF ActivitiesAt
  <2> QED
    BY <1>2, <1>10, <2>1, <2>2, ActivityIsCounted
<1>11. CASE r = c.resource /\ Covers(c.window, t)
  <2>1. HasRoom(db, r, c.window, c.party)
    BY <1>1, <1>11 DEF RoomIsThere, c
  <2>2. \A i \in Counting(r, t)' : i # q =>
            /\ i \in Direct(db, r, c.window)
            /\ db'.bookings[i].party = db.bookings[i].party
    BY <1>2, <1>6, <1>11, HolderIsCounted
  <2>3. ActivitiesAt(r, t)' \subseteq Activities(db, r, c.window)
    BY <1>9, <1>10, <1>11 DEF ActivitiesAt
  <2>4. db'.bookings[q].party = c.party
    BY <1>2, <1>5
  <2> QED
    BY <1>t, <1>2, <2>1, <2>2, <2>3, <2>4, PartyFits DEF OthersAreCounted
<1>12. CASE ~(r = c.resource /\ Covers(c.window, t))
  <2>1. \A i \in Counting(r, t)' : i \in Counting(r, t) /\ i \in HeldAt(r, t) /\ i # q
                                   /\ db'.bookings[i].party = db.bookings[i].party
    BY <1>6, <1>7, <1>12
  <2>2. CASE /\ Facility[c.resource] = r /\ c.context = "resource" /\ Covers(c.window, t)
    <3>1. FacilityIsFree(db, c)
      BY <1>1 DEF RoomIsThere, c
    <3>2. db.resources[r] # NoRow /\ r # NoRow
      BY <1>t DEF BookedResourcesExist
    <3>3. UsedCapacity(db, r, c.window) < Capacity[r]
      BY <2>2, <3>1, <3>2 DEF FacilityIsFree, SlotCapacity
    <3>4. \A i \in Counting(r, t)' : /\ i \in Direct(db, r, c.window)
                                     /\ db'.bookings[i].party = db.bookings[i].party
      BY <1>2, <2>1, <2>2, HolderIsCounted
    <3>5. ActivitiesAt(r, t)' \subseteq Activities(db, r, c.window) \cup {c.resource}
      BY <1>9, <1>10, <2>2
    <3> QED
      BY <1>t, <3>3, <3>4, <3>5, ActivityFits
  <2>3. CASE ~(/\ Facility[c.resource] = r /\ c.context = "resource"
               /\ Covers(c.window, t))
    <3>1. ASSUME NEW a \in ActivitiesAt(r, t)', a = c.resource, Covers(c.window, t)
          PROVE  a \in ActivitiesAt(r, t)
      <4>1. Facility[a] = r /\ a \in Resources \ {r}
        BY <3>1 DEF ActivitiesAt
      <4>2. PICK i \in Counting(a, t)' : AskedTheFacility(i)'
        BY <3>1 DEF ActivitiesAt, Counting
      <4>3. i # q
        <5>1. ASSUME i = q
              PROVE  FALSE
          <6>1. db'.bookings[q].context = "resource"
            BY <4>2, <5>1 DEF AskedTheFacility
          <6> QED
            BY <1>2, <1>5, <2>3, <3>1, <4>1, <6>1
        <5> QED
          BY <5>1
      <4>4. i \in Counting(a, t) /\ i \in Requests
        BY <1>6, <4>3 DEF Counting, HeldAt
      <4> QED
        BY <1>8, <4>1, <4>2, <4>3, <4>4 DEF ActivitiesAt, Counting
    <3>2. ActivitiesAt(r, t)' \subseteq ActivitiesAt(r, t)
      BY <1>9, <3>1
    <3> QED
      BY <1>t, <2>1, <3>2, FewerOnFacility
  <2> QED
    BY <2>2, <2>3
<1> QED
  BY <1>11, <1>12

LEMMA ChangedBookingFits ==
    ASSUME OneAtATime, TypeOK, TypeOK', [Next]_vars, SerialInv, BookedResourcesExist,
           NEW q \in Requests, Commit(q, "bookings"), RoomIsThere(q),
           Changes(q, snap[q].bookings), NEW k \in Requests, k = call[q].target,
           NEW r \in Stored, NEW t \in Minutes, FacilityFits(r, t)
    PROVE  FacilityFits(r, t)'
<1> DEFINE c == call[q]
           b == db.bookings[k]
           row == Patched(b, c)
<1>t. /\ db.bookings \in [Requests -> Booking \cup {NoRow}]
      /\ snap[q].bookings \in [Requests -> Booking \cup {NoRow}] /\ db \in Store
      /\ r \in Resources
  BY DEF TypeOK, Store
<1>1. c.kind = "patch" /\ c \in PatchCalls /\ pc[q] = "writing"
  BY StartedRequestsHaveCalls DEF Commit, Changes
<1>2. /\ k \in Requests /\ b # NoRow /\ b \in Booking
      /\ c.window # Keep => c.window \in Windows
  BY <1>1, <1>t DEF Changes, PatchCalls
<1>3. /\ row \in Booking /\ row # NoRow
      /\ row.resource = b.resource /\ row.party = b.party
      /\ row.window = IF c.window = Keep THEN b.window ELSE c.window
  <2>1. row \in Booking
    BY <1>1, <1>2 DEF Patched, Booking, PatchCalls
  <2> QED
    BY <1>2, <2>1 DEF Patched, Booking
<1>4. /\ db'.bookings = [db.bookings EXCEPT ![k] = row]
      /\ snap[q].bookings[k] = row
  <2>1. db'.bookings = Upsert(db.bookings, snap[q].bookings)
    BY <1>t DEF Commit, Store
  <2>2. snap[q].bookings = [db.bookings EXCEPT ![k] = row]
    BY DEF Changes
  <2> HIDE DEF row
  <2> QED
    BY <1>t, <1>2, <1>3, <2>1, <2>2 DEF Upsert
<1>5. unchecked' = IF c.window # Keep THEN unchecked \ {k}
                   ELSE IF b.status \notin ActiveStatuses /\ row.status \in ActiveStatuses
                     THEN unchecked \cup {k} ELSE unchecked
  BY <1>1, <1>4 DEF Commit, Uncounted
<1>m. c.window # Keep => Moved(k)'
  <2>1. c.window # Keep => Moved(k)
    BY <1>1 DEF Moved
  <2> HIDE DEF c
  <2> QED
    BY <2>1, MovedStays
<1> HIDE DEF row, b
<1>6. \A i \in Requests : i # k => db'.bookings[i] = db.bookings[i]
  BY <1>t, <1>4
<1>7. db'.bookings[k] = row
  BY <1>t, <1>2, <1>4
<1>r. RoomIsThere(q) /\ (c.window # Keep => HasRoom(Without(k), b.resource, c.window, b.party))
  BY <1>1 DEF RoomIsThere, b
<1> HIDE DEF c
<1>8. ASSUME NEW x, NEW i \in Counting(x, t)', i # k
      PROVE  i \in Counting(x, t) /\ i \in HeldAt(x, t)
             /\ db'.bookings[i].party = db.bookings[i].party
  BY <1>5, <1>6, <1>8 DEF Counting, HeldAt
<1>9. ASSUME NEW i \in Requests, AskedTheFacility(i)', i # k
      PROVE  AskedTheFacility(i)
  BY <1>6, <1>9, MovedStays DEF AskedTheFacility
\* A change of status alone lets nobody in that counts.
<1>10. CASE c.window = Keep
  <2>1. ASSUME NEW x, k \in Counting(x, t)'
        PROVE  k \in Counting(x, t) /\ db'.bookings[k].party = db.bookings[k].party
    <3>1. /\ k \notin unchecked' /\ row.status \in ActiveStatuses
          /\ row.resource = x /\ Covers(row.window, t)
      BY <1>7, <2>1 DEF Counting, HeldAt
    <3>2. b.status \in ActiveStatuses /\ k \notin unchecked
      BY <1>5, <1>10, <3>1
    <3> QED
      BY <1>2, <1>3, <1>7, <1>10, <3>1, <3>2 DEF Counting, HeldAt, b
  <2>2. ASSUME NEW i \in Requests, AskedTheFacility(i)'
        PROVE  AskedTheFacility(i)
    <3>1. row.context = b.context
      BY <1>2 DEF row, Patched, Booking
    <3>2. db.bookings[i].context = db'.bookings[i].context
      BY <1>6, <1>7, <3>1 DEF b
    <3>3. ~Moved(i)
      BY <2>2, MovedStays DEF AskedTheFacility
    <3> QED
      BY <2>2, <3>2, <3>3 DEF AskedTheFacility
  <2>3. \A x : \A i \in Counting(x, t)' : /\ i \in Counting(x, t)
                                         /\ db'.bookings[i].party = db.bookings[i].party
    BY <1>8, <2>1
  <2>4. ActivitiesAt(r, t)' \subseteq ActivitiesAt(r, t)
    <3>1. ASSUME NEW a \in ActivitiesAt(r, t)'
          PROVE  a \in ActivitiesAt(r, t)
      <4>1. PICK i \in Counting(a, t)' : AskedTheFacility(i)'
        BY <3>1 DEF ActivitiesAt, Counting
      <4>2. i \in Counting(a, t) /\ i \in Requests
        BY <2>3 DEF Counting, HeldAt
      <4> QED
        BY <2>2, <3>1, <4>1, <4>2 DEF ActivitiesAt, Counting
    <3> QED
      BY <3>1
  <2> QED
    BY <1>t, <2>3, <2>4, FewerOnFacility
\* A change of time was counted, and asks no facility.
<1>11. CASE c.window # Keep
  <2>1. ASSUME NEW a \in ActivitiesAt(r, t)'
        PROVE  /\ a \in ActivitiesAt(r, t)
               /\ \E i \in HeldAt(a, t) : i # k
    <3>1. PICK i \in Counting(a, t)' : AskedTheFacility(i)'
      BY <2>1 DEF ActivitiesAt, Counting
    <3>2. i # k
      BY <1>m, <1>11, <3>1 DEF AskedTheFacility, Moved
    <3>3. i \in Counting(a, t) /\ i \in HeldAt(a, t) /\ i \in Requests
      BY <1>8, <3>2 DEF Counting, HeldAt
    <3> QED
      BY <1>9, <2>1, <3>1, <3>2, <3>3 DEF ActivitiesAt, Counting
  <2>2. CASE k \in Counting(r, t)'
    <3>1. row.resource = r /\ Covers(c.window, t)
      BY <1>3, <1>7, <1>11, <2>2 DEF Counting, HeldAt
    <3>2. HasRoom(Without(k), r, c.window, b.party)
      BY <1>3, <1>r, <1>11, <3>1
    <3>3. \A i \in Requests : i # k => Without(k).bookings[i] = db.bookings[i]
      BY <1>t DEF Without, Store
    <3>4. Without(k).resources = db.resources
      BY <1>t DEF Without, Store
    <3>5. ASSUME NEW i \in Counting(r, t)', i # k
          PROVE  /\ i \in Direct(Without(k), r, c.window)
                 /\ db'.bookings[i].party = Without(k).bookings[i].party
      <4>1. i \in HeldAt(r, t) /\ db'.bookings[i].party = db.bookings[i].party
        BY <1>8, <3>5
      <4>2. i \in Requests
        BY <4>1 DEF HeldAt
      <4> QED
        BY <1>2, <1>11, <3>1, <3>3, <3>5, <4>1, <4>2, HolderIsCounted
    <3>6. ASSUME NEW a \in ActivitiesAt(r, t)'
          PROVE  a \in Activities(Without(k), r, c.window)
      <4>1. PICK i \in HeldAt(a, t) : i # k
        BY <2>1, <3>6
      <4>2. i \in Requests /\ Without(k).bookings[i] = db.bookings[i]
        BY <3>3, <4>1 DEF HeldAt
      <4>3. a \in Resources /\ a # r /\ Facility[a] = r
        BY <3>6 DEF ActivitiesAt
      <4> QED
        BY <1>2, <1>11, <3>1, <3>4, <4>1, <4>2, <4>3, ActivityIsCounted
    <3>7. ActivitiesAt(r, t)' \subseteq Activities(Without(k), r, c.window)
      BY <3>6
    <3>8. b.party \in 1..MaxParty /\ db'.bookings[k].party = b.party
      BY <1>2, <1>3, <1>7 DEF Booking
    <3>9. OthersAreCounted(Without(k), r, c.window, t, k)
      BY <3>5, <3>7 DEF OthersAreCounted
    <3> QED
      BY <1>t, <3>2, <3>8, <3>9, PartyFits
  <2>3. CASE k \notin Counting(r, t)'
    <3>1. \A i \in Counting(r, t)' : /\ i \in Counting(r, t)
                                     /\ db'.bookings[i].party = db.bookings[i].party
      BY <1>8, <2>3
    <3>2. ActivitiesAt(r, t)' \subseteq ActivitiesAt(r, t)
      BY <2>1
    <3> QED
      BY <1>t, <3>1, <3>2, FewerOnFacility
  <2> QED
    BY <2>2, <2>3
<1> QED
  BY <1>10, <1>11

\* Steps that leave the bookings as they are.
LEMMA SameBookingsFit ==
    ASSUME TypeOK, [Next]_vars, db'.bookings = db.bookings, unchecked' = unchecked,
           NEW r \in Resources, NEW t, FacilityFits(r, t)
    PROVE  FacilityFits(r, t)'
<1>1. \A x : Counting(x, t)' = Counting(x, t)
  BY DEF Counting, HeldAt
<1>2. \A i \in Requests : AskedTheFacility(i)' => AskedTheFacility(i)
  BY MovedStays DEF AskedTheFacility
<1>3. ActivitiesAt(r, t)' \subseteq ActivitiesAt(r, t)
  <2>1. ASSUME NEW a \in ActivitiesAt(r, t)'
        PROVE  a \in ActivitiesAt(r, t)
    <3>1. PICK i \in Counting(a, t)' : AskedTheFacility(i)'
      BY <2>1 DEF ActivitiesAt, Counting
    <3>2. i \in Counting(a, t) /\ i \in Requests
      BY <1>1 DEF Counting, HeldAt
    <3> QED
      BY <1>2, <2>1, <3>1, <3>2 DEF ActivitiesAt, Counting
  <2> QED
    BY <2>1
<1> QED
  BY <1>1, <1>3, FewerOnFacility

LEMMA FacilityStep ==
    ASSUME OneAtATime, TypeOK, TypeOK', SerialInv, RoomIsStillThere,
           BookedResourcesExist, FacilityNotOverbooked, [Next]_vars
    PROVE  FacilityNotOverbooked'
<1> SUFFICES ASSUME NEW r \in Stored, NEW t \in Minutes
             PROVE  FacilityFits(r, t)'
  BY DEF FacilityNotOverbooked, FacilityFits, Counting
<1>1. FacilityFits(r, t) /\ r \in Resources
  BY DEF FacilityNotOverbooked, FacilityFits, Counting
<1>2. CASE \E q \in Requests : Commit(q, "bookings")
  <2>1. PICK q \in Requests : Commit(q, "bookings")
    BY <1>2
  <2>2. /\ RoomIsThere(q)
        /\ \/ Adds(q, snap[q].bookings) \/ Changes(q, snap[q].bookings)
           \/ Keeps(q, snap[q].bookings)
    BY <2>1 DEF Commit, RoomIsStillThere, SerialInv, WritesAreCounted
  <2>3. CASE Keeps(q, snap[q].bookings)
    <3>1. db'.bookings = db.bookings
      BY <2>1, <2>3 DEF Keeps, Commit, Upsert, TypeOK, Store
    <3>2. unchecked' = unchecked
      BY <2>1, <2>3 DEF Keeps, Commit, Uncounted
    <3> QED
      BY <1>1, <3>1, <3>2, SameBookingsFit
  <2>4. CASE Changes(q, snap[q].bookings)
    <3>1. PICK k \in Requests : k = call[q].target
      BY <2>1, <2>4, StartedRequestsHaveCalls DEF Commit, Changes, PatchCalls
    <3> QED
      BY <1>1, <2>1, <2>2, <2>4, <3>1, ChangedBookingFits
  <2> QED
    BY <1>1, <2>1, <2>2, <2>3, <2>4, AddedBookingFits
<1>3. CASE ~\E q \in Requests : Commit(q, "bookings")
  <2>1. ASSUME NEW q \in Requests, NEW u \in Tables, Commit(q, u)
        PROVE  db'.bookings = db.bookings /\ unchecked' = unchecked
    <3>1. u # "bookings"
      BY <1>3, <2>1
    <3>2. db \in Store
      BY DEF TypeOK
    <3> QED
      BY <2>1, <3>1, <3>2 DEF Commit, Store, Tables
  <2>2. db'.bookings = db.bookings /\ unchecked' = unchecked
    BY <2>1 DEF Next, vars, Start, Read, FailRead, FailWrite, End, Write,
     DecideBook, DecidePatch, DecideManage, DecideCreate, Reject, Finish, Crash
  <2> QED
    BY <1>1, <2>2, SameBookingsFit
<1> QED
  BY <1>2, <1>3

FacilityInv == RoomIsStillThere /\ BookedResourcesExist /\ FacilityNotOverbooked

\* One request at a time, no minute of a facility is given both to its own
\* bookings and to more activities than it has places for, as far as the bookings
\* asked for it: the two rules by which they look at each other agree.
THEOREM FacilitiesAreNotOverbooked ==
    ASSUME OneAtATime
    PROVE  Spec => []FacilityNotOverbooked
<1>1. Init => FacilityInv
  <2> SUFFICES ASSUME Init PROVE FacilityInv
    OBVIOUS
  <2>1. RoomIsStillThere
    BY DEF Init, RoomIsStillThere
  <2>2. \A k \in Requests : db.bookings[k] = NoRow
    BY DEF Init, NoStore
  <2>3. BookedResourcesExist
    <3>1. \A r \in Stored : db.resources[r] = "active"
      BY DEF Init, NoStore
    <3> QED
      BY <2>2, <3>1 DEF BookedResourcesExist, ResourceStatuses
  <2>4. FacilityNotOverbooked
    <3> SUFFICES ASSUME NEW r \in Stored, NEW t \in Minutes
                 PROVE  FacilityFits(r, t)
      BY DEF FacilityNotOverbooked, FacilityFits, Counting
    <3>1. \A x : HeldAt(x, t) = {}
      BY <2>2 DEF HeldAt
    <3>2. SeatsOf(db.bookings, Counting(r, t), MaxParty) = {} /\ ActivitiesAt(r, t) = {}
      BY <3>1 DEF Counting, SeatsOf, ActivitiesAt
    <3>3. Cardinality({}) = 0 /\ Capacity[r] \in Nat
      BY FS_EmptySet
    <3> QED
      BY <3>2, <3>3 DEF FacilityFits
  <2> QED
    BY <2>1, <2>3, <2>4 DEF FacilityInv
<1>2. TypeOK /\ TypeOK' /\ SerialInv /\ ChangesInv /\ FacilityInv /\ [Next]_vars => FacilityInv'
  BY RoomStaysThere, BookedResourcesStep, FacilityStep DEF FacilityInv, ChangesInv
<1>3. FacilityInv => FacilityNotOverbooked
  BY DEF FacilityInv
<1> QED
  BY <1>1, <1>2, <1>3, ReservationsTypeCorrect, SerialInvariant, ChangesInvariant, PTL DEF Spec

=============================================================================
