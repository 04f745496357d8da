---------------------------- MODULE Reservations ----------------------------
(***************************************************************************)
(* The reservation repository of apps/web as it runs against the database: *)
(* concurrent HTTP requests, each of which loads the whole tenant store    *)
(* (loadStore: four parallel SELECTs), decides on that snapshot, and       *)
(* writes the whole snapshot back (persistStore: four parallel UPSERTs).   *)
(* There is no transaction, lock or version check between the two.         *)
(*                                                                         *)
(* A request's identity is also the id of the booking it creates.  A table *)
(* is a function from the ids of its rows to the rows, or NoRow.           *)
(***************************************************************************)
EXTENDS Seats

CONSTANTS Persons, Staff,   \* Staff: moderators and administrators
          Requests,         \* mutating HTTP calls
          Resources, Creator, Capacity, NeedsApproval,
          Facility,         \* linkedResourceId, or NoRow
          Stored,           \* the resources that exist at the start
          Windows,          \* requested intervals of one day
          MaxParty,         \* bound: largest participantCount
          Calls,            \* the calls a client may make
          MaxInFlight,      \* bound: requests between their start and answer
          Plane,            \* "service" (service-role client) or "jwt" (RLS)
          Faults,           \* the failures considered
          NoRow, Keep, NoCall

BookingStatuses == {"pending", "confirmed", "cancelled", "completed",
                    "rejected", "reserved", "expired"}

\* Of the six statuses of a resource only "active" is told apart.
ResourceStatuses == {"active", "maintenance", "retired"}

Tables == {"resources", "slots", "bookings", "participants"}

Booking == [by : Persons, resource : Resources, context : {"resource", "service"},
            window : Windows, party : 1..MaxParty, status : BookingStatuses]

Store == [resources    : [Resources -> ResourceStatuses \cup {NoRow}],
          slots        : [Resources -> {"generated", NoRow}],
          bookings     : [Requests -> Booking \cup {NoRow}],
          participants : [Requests -> Persons \cup {NoRow}]]

BookCalls == [kind : {"book"}, by : Persons, resource : Resources,
              context : {"resource", "service"}, window : Windows,
              party : 1..MaxParty]

PatchCalls == [kind : {"patch"}, by : Persons, target : Requests,
               status : BookingStatuses \cup {Keep}, window : Windows \cup {Keep}]

ManageCalls == [kind : {"manage"}, by : Staff, resource : Resources,
                status : ResourceStatuses]

CreateCalls == {c \in [kind : {"create"}, by : Persons, resource : Resources] :
                    c.by = Creator[c.resource]}

ASSUME ReservationConstants ==
    /\ IsFiniteSet(Requests) /\ IsFiniteSet(Resources)
    /\ Staff \subseteq Persons
    /\ Stored \subseteq Resources
    /\ Creator \in [Resources -> Persons]
    /\ Capacity \in [Resources -> Nat \ {0}]
    /\ NeedsApproval \in [Resources -> BOOLEAN]
    /\ Facility \in [Resources -> Resources \cup {NoRow}]
    /\ Windows \subseteq [from : Nat, to : Nat]
    /\ MaxParty \in Nat \ {0} /\ MaxInFlight \in Nat \ {0}
    /\ Calls \subseteq BookCalls \cup PatchCalls \cup ManageCalls \cup CreateCalls
    /\ Plane \in {"service", "jwt"}
    /\ Faults \subseteq {"read", "write", "crash"}
    /\ NoRow \notin Booking /\ NoRow \notin ResourceStatuses
    /\ NoRow \notin Persons /\ NoRow \notin Resources /\ NoRow # "generated"
    /\ Keep \notin BookingStatuses /\ Keep \notin Windows
    /\ NoCall \notin Calls

VARIABLES db,        \* the four tables
          pc, call,  \* where each request is, and what was asked
          snap,      \* the store a request has loaded (and then modified)
          loaded,    \* the tables it has read
          todo,      \* the tables it still has to write
          failed,    \* a write of the request failed
          notices,   \* bookings whose confirmation was sent
          audits,    \* requests recorded as reservation.cancel or resource.*
          unchecked  \* history: bookings made active by a bare status change

vars == <<db, pc, call, snap, loaded, todo, failed, notices, audits, unchecked>>

NoStore == [resources    |-> [r \in Resources |-> NoRow],
            slots        |-> [r \in Resources |-> NoRow],
            bookings     |-> [q \in Requests |-> NoRow],
            participants |-> [q \in Requests |-> NoRow]]

InFlight == {q \in Requests : pc[q] \in {"reading", "writing"}}

-----------------------------------------------------------------------------
(* Row-level security, for the plane that runs as the signed-in person.    *)

IsStaff(p) == p \in Staff

OwnerOf(t, k, rows) ==
    CASE t \in {"resources", "slots"} -> Creator[k]
      [] t = "bookings"               -> rows[k].by
      [] t = "participants"           -> rows[k]

CanSee(p, t, k) ==
    \/ Plane = "service" \/ IsStaff(p) \/ t = "slots"
    \/ OwnerOf(t, k, db[t]) = p
    \/ t = "resources" /\ db[t][k] = "active"

Visible(p, t) == [k \in DOMAIN db[t] |->
                    IF db[t][k] # NoRow /\ CanSee(p, t, k) THEN db[t][k] ELSE NoRow]

\* An UPSERT is refused as a whole.  Postgres applies the INSERT policy
\* (created_by is the caller) to every proposed row, and the UPDATE policy to
\* the rows that exist; reservation_participants has no UPDATE policy.
StaffMayWriteAll(p, t, rows) == \* mutant
    \/ Plane = "service" \/ IsStaff(p)
    \/ \A k \in DOMAIN rows : rows[k] # NoRow => OwnerOf(t, k, rows) = p

PolicyAllows(p, t, rows) ==
    \/ Plane = "service"
    \/ \A k \in DOMAIN rows : rows[k] # NoRow =>
           /\ OwnerOf(t, k, rows) = p
           /\ db[t][k] # NoRow => /\ t # "participants"
                                  /\ OwnerOf(t, k, db[t]) = p \/ IsStaff(p)

\* Foreign keys: slots and bookings name a resource, participants a booking.
ReferencesHold(t, rows) ==
    \A k \in DOMAIN rows : rows[k] # NoRow =>
        CASE t = "slots"        -> db.resources[k] # NoRow
          [] t = "bookings"     -> db.resources[rows[k].resource] # NoRow
          [] t = "participants" -> db.bookings[k] # NoRow
          [] t = "resources"    -> TRUE

\* Mutant of Upsert: rows that exist are left alone.
InsertOnly(table, rows) ==
    [k \in DOMAIN table |-> IF table[k] # NoRow THEN table[k] ELSE rows[k]]

\* Mutant of Upsert: the table is replaced by the snapshot.
ReplaceAll(table, rows) == rows

Upsert(table, rows) ==
    [k \in DOMAIN table |-> IF rows[k] # NoRow THEN rows[k] ELSE table[k]]

-----------------------------------------------------------------------------
(* Capacity, computed on a snapshot.                                        *)

\* Mutant of Occupies: a booking that awaits approval holds nothing.
OccupiesOnceConfirmed(b, w) == /\ b # NoRow
                               /\ b.status = "confirmed"
                               /\ Overlaps(b.window, w)

Occupies(b, w) == /\ b # NoRow
                  /\ b.status \in ActiveStatuses
                  /\ Overlaps(b.window, w)

Direct(s, r, w) == {k \in Requests : /\ Occupies(s.bookings[k], w)
                                     /\ s.bookings[k].resource = r}

\* The activities held on facility r: each counts once, however many book it.
Activities(s, r, w) ==
    {a \in Resources \ {r} : /\ s.resources[a] # NoRow
                             /\ Facility[a] = r
                             /\ Direct(s, a, w) # {}}

UsedCapacity(s, r, w) ==
    Cardinality(SeatsOf(s.bookings, Direct(s, r, w), MaxParty))
        + Cardinality(Activities(s, r, w))

SlotCapacity(s, r) == Capacity[r]

HasRoom(s, r, w, n) == UsedCapacity(s, r, w) + n <= SlotCapacity(s, r)

\* Only a "resource" booking of an activity asks whether its facility is free.
FacilityHasNotOverflowed(s, c) == \* mutant: <= for <
    LET f == Facility[c.resource]
    IN \/ c.context = "service" \/ f = NoRow
       \/ s.resources[f] = NoRow
       \/ UsedCapacity(s, f, c.window) <= SlotCapacity(s, f)

FacilityIsFree(s, c) ==
    LET f == Facility[c.resource]
    IN \/ c.context = "service" \/ f = NoRow
       \/ s.resources[f] = NoRow
       \/ UsedCapacity(s, f, c.window) < SlotCapacity(s, f)

-----------------------------------------------------------------------------

TypeOK ==
    /\ db \in Store
    /\ pc \in [Requests -> {"idle", "reading", "writing", "ok", "rejected",
                            "error", "lost"}]
    /\ call \in [Requests -> Calls \cup {NoCall}]
    /\ snap \in [Requests -> Store]
    /\ loaded \in [Requests -> SUBSET Tables]
    /\ todo \in [Requests -> SUBSET Tables]
    /\ failed \in [Requests -> BOOLEAN]
    /\ notices \subseteq Requests
    /\ audits \subseteq Requests
    /\ unchecked \subseteq Requests
    /\ \A q \in Requests : call[q] = NoCall <=> pc[q] = "idle"

Init ==
    /\ db = [NoStore EXCEPT
               !.resources = [r \in Resources |-> IF r \in Stored THEN "active" ELSE NoRow],
               !.slots = [r \in Resources |-> IF r \in Stored THEN "generated" ELSE NoRow]]
    /\ pc = [q \in Requests |-> "idle"]
    /\ call = [q \in Requests |-> NoCall]
    /\ snap = [q \in Requests |-> NoStore]
    /\ loaded = [q \in Requests |-> {}]
    /\ todo = [q \in Requests |-> {}]
    /\ failed = [q \in Requests |-> FALSE]
    /\ notices = {} /\ audits = {} /\ unchecked = {}

\* A resource id is minted by the call that creates it.
Fresh(c) == c.kind = "create" =>
                /\ db.resources[c.resource] = NoRow
                /\ \A q \in Requests : call[q] = NoCall \/ call[q] # c

Start(q, c) ==
    /\ pc[q] = "idle"
    /\ Cardinality(InFlight) < MaxInFlight
    /\ Fresh(c)
    /\ pc' = [pc EXCEPT ![q] = "reading"]
    /\ call' = [call EXCEPT ![q] = c]
    /\ UNCHANGED <<db, snap, loaded, todo, failed, notices, audits, unchecked>>

\* The request is over: its snapshot goes with it.
End(q, answer) ==
    /\ pc' = [pc EXCEPT ![q] = answer]
    /\ snap' = [snap EXCEPT ![q] = NoStore]
    /\ loaded' = [loaded EXCEPT ![q] = {}]
    /\ todo' = [todo EXCEPT ![q] = {}]
    /\ failed' = [failed EXCEPT ![q] = FALSE]
    /\ UNCHANGED <<db, call, unchecked>>

Reject(q) == End(q, "rejected") /\ UNCHANGED <<notices, audits>>

\* One of the four SELECTs.  loadStore looks only at the error of the first
\* one: any other failed SELECT leaves its table empty.
Read(q, t) ==
    /\ pc[q] = "reading"
    /\ t \notin loaded[q]
    /\ snap' = [snap EXCEPT ![q] = [@ EXCEPT ![t] = Visible(call[q].by, t)]]
    /\ loaded' = [loaded EXCEPT ![q] = @ \cup {t}]
    /\ UNCHANGED <<db, pc, call, todo, failed, notices, audits, unchecked>>

FailRead(q, t) ==
    /\ "read" \in Faults
    /\ pc[q] = "reading"
    /\ t \notin loaded[q]
    /\ IF t = "resources"
         THEN End(q, "error") /\ UNCHANGED <<notices, audits>>
         ELSE /\ loaded' = [loaded EXCEPT ![q] = @ \cup {t}]
              /\ UNCHANGED <<db, pc, call, snap, todo, failed, notices, audits, unchecked>>

\* persistStore upserts every table that is not empty in the snapshot.
Write(q, s) ==
    /\ snap' = [snap EXCEPT ![q] = s]
    /\ todo' = [todo EXCEPT ![q] = {t \in Tables : \E k \in DOMAIN s[t] : s[t][k] # NoRow}]
    /\ pc' = [pc EXCEPT ![q] = "writing"]
    /\ UNCHANGED <<db, call, loaded, failed, notices, audits, unchecked>>

Ready(q, kind) == /\ pc[q] = "reading"
                  /\ loaded[q] = Tables
                  /\ call[q].kind = kind

\* createReservationServer, contexts resource and service.  A service that names
\* no stored resource is booked without one and occupies nothing: left out.
MayBook(s, c) == /\ s.resources[c.resource] = "active"
                 /\ HasRoom(s, c.resource, c.window, c.party)
                 /\ FacilityIsFree(s, c)

DecideBook(q) ==
    /\ Ready(q, "book")
    /\ LET c == call[q]
           s == snap[q]
           row == [by |-> c.by, resource |-> c.resource, context |-> c.context,
                   window |-> c.window, party |-> c.party,
                   status |-> IF NeedsApproval[c.resource] THEN "pending" ELSE "confirmed"]
       IN IF MayBook(s, c)
            THEN Write(q, [s EXCEPT !.bookings[q] = row, !.participants[q] = c.by])
            ELSE Reject(q)

\* PATCH /api/reservations/[id] and updateReservationServer: the owner or staff;
\* capacity is compared only when the time changes, any status is accepted.  The
\* route loads the store once more before, for the permission check alone: who
\* owns a booking never changes (BookingsArePermanent), so the loads are one here.
MayPatch(s, c) ==
    /\ s.bookings[c.target] # NoRow
    /\ s.bookings[c.target].by = c.by \/ IsStaff(c.by)
    /\ c.window # Keep =>
         LET b == s.bookings[c.target]
             others == [s EXCEPT !.bookings[c.target] = NoRow]
         IN /\ s.resources[b.resource] # NoRow
            /\ HasRoom(others, b.resource, c.window, b.party)

\* Mutant of Patched: an absent time is written as it came.
PatchedBlindly(b, c) == [b EXCEPT !.status = IF c.status = Keep THEN @ ELSE c.status,
                                  !.window = c.window]

Patched(b, c) == [b EXCEPT !.status = IF c.status = Keep THEN @ ELSE c.status,
                           !.window = IF c.window = Keep THEN @ ELSE c.window]

DecidePatch(q) ==
    /\ Ready(q, "patch")
    /\ LET c == call[q]
           s == snap[q]
       IN IF MayPatch(s, c)
            THEN Write(q, [s EXCEPT !.bookings[c.target] = Patched(@, c)])
            ELSE Reject(q)

\* PATCH /api/resources/[id] and updateResourceServer
DecideManage(q) ==
    /\ Ready(q, "manage")
    /\ LET c == call[q]
           s == snap[q]
       IN IF s.resources[c.resource] # NoRow
            THEN Write(q, [s EXCEPT !.resources[c.resource] = c.status])
            ELSE Reject(q)

\* createResourceServer: the resource and its generated slots
DecideCreate(q) ==
    /\ Ready(q, "create")
    /\ Write(q, [snap[q] EXCEPT !.resources[call[q].resource] = "active",
                                !.slots[call[q].resource] = "generated"])

\* What a committed patch does to the set of bookings nobody counted.
Uncounted(q) ==
    LET k == call[q].target
        was == db.bookings[k]
        is  == snap[q].bookings[k]
    IN IF call[q].kind # "patch" THEN unchecked
       ELSE IF call[q].window # Keep THEN unchecked \ {k}
       ELSE IF was.status \notin ActiveStatuses /\ is.status \in ActiveStatuses
              THEN unchecked \cup {k}
              ELSE unchecked

\* One of the four UPSERTs takes effect.  With a write fault its answer is lost.
Commit(q, t) ==
    /\ pc[q] = "writing"
    /\ t \in todo[q]
    /\ PolicyAllows(call[q].by, t, snap[q][t])
    /\ ReferencesHold(t, snap[q][t])
    /\ db' = [db EXCEPT ![t] = Upsert(@, snap[q][t])]
    /\ todo' = [todo EXCEPT ![q] = @ \ {t}]
    /\ failed' \in {failed} \cup (IF "write" \in Faults
                                    THEN {[failed EXCEPT ![q] = TRUE]} ELSE {})
    /\ unchecked' = IF t = "bookings" THEN Uncounted(q) ELSE unchecked
    /\ UNCHANGED <<pc, call, snap, loaded, notices, audits>>

\* One of them is refused, or never reaches the database.
FailWrite(q, t) ==
    /\ pc[q] = "writing"
    /\ t \in todo[q]
    /\ \/ "write" \in Faults
       \/ ~PolicyAllows(call[q].by, t, snap[q][t])
       \/ ~ReferencesHold(t, snap[q][t])
    /\ todo' = [todo EXCEPT ![q] = @ \ {t}]
    /\ failed' = [failed EXCEPT ![q] = TRUE]
    /\ UNCHANGED <<db, pc, call, snap, loaded, notices, audits, unchecked>>

\* Every statement has been answered: any failure fails the request, whatever
\* the others committed.
AlwaysOk(q) == "ok" \* mutant

Verdict(q) == IF failed[q] THEN "error" ELSE "ok"

\* The confirmation and the audit entry are best effort.
Confirmed(q) == call[q].kind = "book" /\ snap[q].bookings[q].status = "confirmed"

Audited(q) == \/ call[q].kind = "manage"
              \/ call[q].kind = "patch" /\ call[q].status = "cancelled"

Finish(q) ==
    /\ pc[q] = "writing"
    /\ todo[q] = {}
    /\ notices' \in {notices} \cup (IF ~failed[q] /\ Confirmed(q)
                                      THEN {notices \cup {q}} ELSE {})
    /\ audits' \in {audits} \cup (IF ~failed[q] /\ Audited(q)
                                    THEN {audits \cup {q}} ELSE {})
    /\ End(q, Verdict(q))

\* The server process dies, or is frozen, between two steps of a request.
Crash(q) ==
    /\ "crash" \in Faults
    /\ q \in InFlight
    /\ End(q, "lost")
    /\ UNCHANGED <<notices, audits>>

Next == \E q \in Requests :
          \/ \E c \in Calls : Start(q, c)
          \/ \E t \in Tables : Read(q, t) \/ FailRead(q, t)
                               \/ Commit(q, t) \/ FailWrite(q, t)
          \/ DecideBook(q) \/ DecidePatch(q) \/ DecideManage(q) \/ DecideCreate(q)
          \/ Finish(q)
          \/ Crash(q)

Spec == Init /\ [][Next]_vars

-----------------------------------------------------------------------------

Answered(q) == pc[q] = "ok"

\* A booking answered 201 is in the database together with its creator's
\* participant row: the tables are written by independent statements, and the
\* answer is computed after all of them (persistStore, POST /api/reservations).
\* A confirmation is sent for no other booking.
AnsweredBookingIsStored ==
    \A q \in Requests : (Answered(q) /\ call[q].kind = "book") \/ q \in notices =>
           /\ db.bookings[q] # NoRow
           /\ db.participants[q] = db.bookings[q].by

\* A row, stored or loaded by anyone, is what the request that created it asked
\* for: no write-back of a stale store changes the person, resource, context or
\* party of a booking, or whose participant row it is.
Identity(b) == <<b.by, b.resource, b.context, b.party>>

Asked(k) == /\ pc[k] \notin {"idle", "reading"}
            /\ call[k].kind = "book"

RowsAreAsAsked(s) ==
    \A k \in Requests :
        /\ s.bookings[k] # NoRow =>
              Asked(k) /\ Identity(s.bookings[k]) = Identity(call[k])
        /\ s.participants[k] # NoRow =>
              Asked(k) /\ s.participants[k] = call[k].by

RowsMatchCalls == RowsAreAsAsked(db) /\ \A q \in Requests : RowsAreAsAsked(snap[q])

\* Whatever snapshot is written back, no booking is ever lost and none changes
\* hands.
BookingsArePermanent ==
    [][\A k \in Requests : db.bookings[k] # NoRow =>
          /\ db'.bookings[k] # NoRow
          /\ Identity(db'.bookings[k]) = Identity(db.bookings[k])]_vars

\* Part of the inductive invariant: a booking request that is writing has its
\* two rows in its snapshot, and in the database once their statements are done
\* (unless one of them failed).
BookingInProgress ==
    \A q \in Requests : pc[q] = "writing" /\ call[q].kind = "book" =>
        \A t \in {"bookings", "participants"} :
            /\ snap[q][t][q] # NoRow
            /\ ~failed[q] /\ t \notin todo[q] => db[t][q] # NoRow

\* A change that was answered 200 holds until the next call on the same row:
\* a cancelled booking stays cancelled, a resource in maintenance stays there.
SameRow(c, d) == /\ c # NoCall /\ d # NoCall /\ c.kind = d.kind
                 /\ c.kind = "patch" => c.target = d.target
                 /\ c.kind = "manage" => c.resource = d.resource

OnlyCallOnItsRow(q) ==
    \A p \in Requests \ {q} : ~SameRow(call[p], call[q])

AnsweredChangesHold ==
    \A q \in Requests :
        Answered(q) /\ OnlyCallOnItsRow(q) =>
          /\ call[q].kind = "patch" /\ call[q].status # Keep =>
                db.bookings[call[q].target].status = call[q].status
          /\ call[q].kind = "manage" =>
                db.resources[call[q].resource] = call[q].status

\* The seats held at minute t by the active bookings of r.
HeldAt(r, t) ==
    {k \in Requests : /\ db.bookings[k] # NoRow
                      /\ db.bookings[k].resource = r
                      /\ db.bookings[k].status \in ActiveStatuses
                      /\ Covers(db.bookings[k].window, t)}

Minutes == UNION {w.from..w.to : w \in Windows}

SeatsHeldAt(r, t) == Cardinality(SeatsOf(db.bookings, HeldAt(r, t), MaxParty))

\* No minute of a resource is sold twice ("availability prevents double
\* booking", reservations-isolation.test.ts).
NeverOverbooked ==
    \A r \in Resources, t \in Minutes : SeatsHeldAt(r, t) <= Capacity[r]

\* A change of time is counted at the booking's own resource only.
Moved(k) == \E q \in Requests : /\ pc[q] \notin {"idle", "reading", "rejected"}
                               /\ call[q].kind = "patch"
                               /\ call[q].target = k
                               /\ call[q].window # Keep

AskedTheFacility(k) == db.bookings[k].context = "resource" /\ ~Moved(k)

\* The activities that hold facility r at minute t, one place each, by a booking
\* that asked for it.
ActivitiesAt(r, t) ==
    {a \in Resources \ {r} :
        Facility[a] = r /\ \E k \in HeldAt(a, t) \ unchecked : AskedTheFacility(k)}

\* One request at a time, a facility is never given both to its own bookings and
\* to more of the activities held on it than it has places for ("asset conflict
\* blocks double-book", ADR-031): the two kinds of booking look at each other by
\* different rules.  Left out are the bookings that never asked: one made through
\* a service, one that was moved, and one that a bare status change made active
\* again.
FacilityNotOverbooked ==
    \A r \in Stored, t \in Minutes :
        Cardinality(SeatsOf(db.bookings, HeldAt(r, t) \ unchecked, MaxParty))
            + Cardinality(ActivitiesAt(r, t)) <= Capacity[r]

\* Under row-level security a statement changes no booking of anyone but the
\* person of its request, although every statement proposes a whole table.
OnlyOwnBookingsChange ==
    [][\A k \in Requests : db'.bookings[k] # db.bookings[k] =>
          \E q \in InFlight : /\ todo'[q] # todo[q]
                              /\ db'.bookings[k].by = call[q].by]_vars

\* One request at a time, with every SELECT answered, the tables behave as the
\* ledger of BookingLedger: a booking enters the active set only if it fits.
LedgerView ==
    [k \in Requests |->
        IF db.bookings[k] = NoRow THEN NoRow
        ELSE [resource |-> db.bookings[k].resource,
              window   |-> db.bookings[k].window,
              party    |-> db.bookings[k].party,
              active   |-> db.bookings[k].status \in ActiveStatuses]]

Ledger == INSTANCE BookingLedger WITH
              Ids <- Requests, NoBooking <- NoRow, ledger <- LedgerView

ASSUME NoRowIsNoEntry == NoRow \notin Ledger!Entry

SerialBookingsFollowLedger == Ledger!Spec

\* And so no minute of a resource is sold twice among the bookings that were
\* counted, however often bookings are moved, cancelled and revived.
CountedBookingsFit == Ledger!CapacityAtEveryMinute

=============================================================================
