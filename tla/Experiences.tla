---------------------------- MODULE Experiences -----------------------------
(***************************************************************************)
(* The experience repository of apps/web (activities with seats and a      *)
(* waitlist) and its calls into the reservation repository, against the    *)
(* database with the service-role client.  Like reservations, a request    *)
(* loads its whole store, decides on it, and upserts it back; joining,     *)
(* leaving and cancelling also load and write back the bookings, between   *)
(* the load and the write of the experiences.  No transaction spans them.  *)
(***************************************************************************)
EXTENDS Seats

CONSTANTS Persons, Managers,   \* Managers: capability experience.manage
          Experiences, Requests,
          Owner, FirstCapacity, FirstSlot,
          Facility,            \* resourceId, or NoRow
          Places,              \* capacity of each facility
          Stored,              \* experiences that exist at the start
          Slots,               \* intervals of one day
          MaxCapacity,         \* bound: largest capacity
          Calls,               \* the calls a client may make
          MaxInFlight,         \* bound: requests between start and answer
          Faults,              \* the failures considered
          NoRow, Keep, NoCall

\* Of the five statuses only "published" and "cancelled" are told apart.
Statuses == {"draft", "published", "cancelled"}

Roles == {"creator", "participant", "waitlist", "invited", "cancelled"}

\* The CHECK constraint of experience_participants
StorableRoles == {"creator", "participant", "waitlist", "cancelled"}

OccupyingRoles == {"creator", "participant"}

Tables == {"experiences", "participants"}

\* A participation is named by the request that made it, the creator's own by
\* the experience; a booking by the join that made it.
Ids == Requests \cup Experiences

Experience == [status : Statuses, capacity : 1..MaxCapacity, slot : Slots]

Participation == [experience : Experiences, person : Persons, role : Roles,
                  booking : Requests \cup {NoRow}]

Booking == [experience : Experiences, by : Persons, slot : Slots, active : BOOLEAN]

Store == [experiences  : [Experiences -> Experience \cup {NoRow}],
          participants : [Ids -> Participation \cup {NoRow}],
          bookings     : [Requests -> Booking \cup {NoRow}]]

CreateCalls == {c \in [kind : {"create"}, by : Persons, experience : Experiences,
                       status : Statuses] : c.by = Owner[c.experience]}

\* A page that moves a community event, in the state it has, to an experience
\* named after it; one event is left to be moved.  Who takes part in an event is
\* not stored, so that nobody is enrolled.
BackfillCalls == [kind : {"backfill"}, by : Persons, experience : Experiences,
                  status : Statuses]

SeatCalls == [kind : {"join", "leave", "cancel"}, by : Persons, experience : Experiences]

InviteCalls == [kind : {"invite"}, by : Persons, experience : Experiences,
                guest : Persons]

UpdateCalls == [kind : {"update"}, by : Persons, experience : Experiences,
                status : Statuses \cup {Keep}, slot : Slots \cup {Keep},
                capacity : 0..MaxCapacity]   \* 0: not given

ASSUME ExperienceConstants ==
    /\ IsFiniteSet(Requests) /\ IsFiniteSet(Persons)
    /\ Experiences \cap Requests = {}
    /\ Managers \subseteq Persons
    /\ Stored \subseteq Experiences
    /\ MaxCapacity \in Nat \ {0} /\ MaxInFlight \in Nat \ {0}
    /\ Owner \in [Experiences -> Persons]
    /\ FirstCapacity \in [Experiences -> 1..MaxCapacity]
    /\ FirstSlot \in [Experiences -> Slots]
    /\ Slots \subseteq [from : Nat, to : Nat]
    /\ \A e \in Experiences : Facility[e] = NoRow \/ Places[Facility[e]] \in Nat
    /\ Calls \subseteq CreateCalls \cup BackfillCalls \cup SeatCalls \cup InviteCalls \cup UpdateCalls
    /\ Faults \subseteq {"read", "write", "crash"}
    /\ NoRow \notin Experience /\ NoRow \notin Participation /\ NoRow \notin Booking
    /\ NoRow \notin Requests
    /\ Keep \notin Statuses /\ Keep \notin Slots
    /\ NoCall \notin Calls

VARIABLES db,       \* the tables
          pc, call, \* where each request is, and what was asked
          snap,     \* what a request has loaded (and then modified)
          loaded,   \* the tables it has read
          work,     \* the bookings it still has to make or cancel
          failed,   \* the first of the two upserts failed
          apart     \* so far no two requests overlapped and no SELECT failed unnoticed

vars == <<db, pc, call, snap, loaded, work, failed>>

NoStore == [experiences  |-> [e \in Experiences |-> NoRow],
            participants |-> [i \in Ids |-> NoRow],
            bookings     |-> [q \in Requests |-> NoRow]]

\* A backfill loads the store three times, the other calls once.
Loading == {"loading", "checking", "adding"}

InFlight == {q \in Requests : pc[q] \in Loading \cup {"booking", "reserving",
                                                   "storing", "enrolling"}}

-----------------------------------------------------------------------------

OccupiesSeat(row) == row # NoRow /\ row.role \in OccupyingRoles

RowsOf(s, e) == {i \in Ids : s.participants[i] # NoRow /\ s.participants[i].experience = e}

OfPerson(s, e, p) == {i \in RowsOf(s, e) : s.participants[i].person = p}

OccupyingCount(s, e) == Cardinality({i \in RowsOf(s, e) : OccupiesSeat(s.participants[i])})

\* Mutant of IsFull
IsOverfull(s, e) == OccupyingCount(s, e) > s.experiences[e].capacity

IsFull(s, e) == OccupyingCount(s, e) >= s.experiences[e].capacity

\* Bookings of one place each that collide with slot w.
Holding(bookings, E, w) ==
    {k \in DOMAIN bookings : /\ bookings[k] # NoRow
                             /\ bookings[k].active
                             /\ bookings[k].experience \in E
                             /\ Overlaps(bookings[k].slot, w)}

\* Mutant of HasPlace: the facility is not asked.
HasOwnPlace(bookings, e, w, capacity) ==
    Cardinality(Holding(bookings, {e}, w)) + 1 <= capacity

HasPlace(bookings, e, w, capacity) ==
    /\ Cardinality(Holding(bookings, {e}, w)) + 1 <= capacity
    /\ Facility[e] # NoRow =>
         LET sharing == {x \in Experiences : Facility[x] = Facility[e]}
         IN Cardinality(Holding(bookings, sharing, w)) + 1 <= Places[Facility[e]]

\* A person's participation is replaced in place, and keeps its id.
IdFor(q, s, e, p) == IF OfPerson(s, e, p) = {} THEN q
                     ELSE CHOOSE i \in OfPerson(s, e, p) : TRUE

WithRole(q, s, e, p, role, booking) ==
    [s EXCEPT !.participants[IdFor(q, s, e, p)] =
        [experience |-> e, person |-> p, role |-> role, booking |-> booking]]

\* Mutant of Upsert: the table is replaced by the snapshot.
ReplaceAll(table, rows) == rows

Upsert(table, rows) ==
    [k \in DOMAIN table |-> IF rows[k] # NoRow THEN rows[k] ELSE table[k]]

\* The constraints of experience_participants: roles, references, and one row
\* per person.
Admissible(rows) ==
    /\ \A i \in Ids : rows[i] # NoRow =>
          /\ rows[i].role \in StorableRoles
          /\ db.experiences[rows[i].experience] # NoRow
          /\ rows[i].booking # NoRow => db.bookings[rows[i].booking] # NoRow
    /\ \A i, j \in Ids : i # j /\ rows[i] # NoRow /\ rows[j] # NoRow =>
          <<rows[i].experience, rows[i].person>> # <<rows[j].experience, rows[j].person>>

-----------------------------------------------------------------------------

TypeOK ==
    /\ db \in Store
    /\ pc \in [Requests -> Loading \cup {"idle", "booking", "reserving", "storing",
                                       "enrolling", "ok", "rejected", "error", "lost"}]
    /\ call \in [Requests -> Calls \cup {NoCall}]
    /\ snap \in [Requests -> Store]
    /\ loaded \in [Requests -> SUBSET (Tables \cup {"bookings"})]
    /\ work \in [Requests -> SUBSET Requests]
    /\ failed \in [Requests -> BOOLEAN]
    /\ \A q \in Requests : call[q] = NoCall <=> pc[q] = "idle"

FirstRow(e, status) == [status |-> status, capacity |-> FirstCapacity[e],
                        slot |-> FirstSlot[e]]

CreatorRow(e) == [experience |-> e, person |-> Owner[e], role |-> "creator",
                  booking |-> NoRow]

Init ==
    /\ apart = TRUE
    /\ db = [NoStore EXCEPT
               !.experiences = [e \in Experiences |->
                   IF e \in Stored THEN FirstRow(e, "published") ELSE NoRow],
               !.participants = [i \in Ids |->
                   IF i \in Stored THEN CreatorRow(i) ELSE NoRow]]
    /\ pc = [q \in Requests |-> "idle"]
    /\ call = [q \in Requests |-> NoCall]
    /\ snap = [q \in Requests |-> NoStore]
    /\ loaded = [q \in Requests |-> {}]
    /\ work = [q \in Requests |-> {}]
    /\ failed = [q \in Requests |-> FALSE]

\* The id of an experience is minted by the call that creates it.
Fresh(c) == c.kind = "create" =>
                /\ db.experiences[c.experience] = NoRow
                /\ \A q \in Requests : call[q] # NoCall =>
                      call[q].kind # "create" \/ call[q].experience # c.experience

Start(q, c) ==
    /\ pc[q] = "idle"
    /\ Cardinality(InFlight) < MaxInFlight
    /\ Fresh(c)
    /\ pc' = [pc EXCEPT ![q] = "loading"]
    /\ call' = [call EXCEPT ![q] = c]
    /\ UNCHANGED <<db, snap, loaded, work, failed>>

End(q, answer) ==
    /\ pc' = [pc EXCEPT ![q] = answer]
    /\ snap' = [snap EXCEPT ![q] = NoStore]
    /\ loaded' = [loaded EXCEPT ![q] = {}]
    /\ work' = [work EXCEPT ![q] = {}]
    /\ failed' = [failed EXCEPT ![q] = FALSE]
    /\ UNCHANGED call

Reject(q) == End(q, "rejected") /\ UNCHANGED db

\* One SELECT: of the experience store at the start, of the bookings whenever a
\* reservation is made or cancelled.
Reads(q, t) == /\ t \notin loaded[q]
               /\ \/ pc[q] \in Loading /\ t \in Tables
                  \/ pc[q] = "booking" /\ work[q] # {} /\ t = "bookings"

Read(q, t) ==
    /\ Reads(q, t)
    /\ snap' = [snap EXCEPT ![q] = [@ EXCEPT ![t] = db[t]]]
    /\ loaded' = [loaded EXCEPT ![q] = @ \cup {t}]
    /\ UNCHANGED <<db, pc, call, work, failed>>

\* Both loaders look only at the error of their first SELECT: participants and
\* bookings that could not be read are taken for none.
FailRead(q, t) ==
    /\ "read" \in Faults
    /\ Reads(q, t)
    /\ \/ t \in {"experiences", "bookings"} /\ End(q, "error") /\ UNCHANGED db
       \/ /\ t # "experiences"
          /\ snap' = [snap EXCEPT ![q] = [@ EXCEPT ![t] = NoStore[t]]]
          /\ loaded' = [loaded EXCEPT ![q] = @ \cup {t}]
          /\ UNCHANGED <<db, pc, call, work, failed>>

Ready(q, kind) == /\ pc[q] \in Loading
                  /\ loaded[q] = Tables
                  /\ call[q].kind = kind

Advance(q, place, s, bookings) ==
    /\ pc' = [pc EXCEPT ![q] = place]
    /\ snap' = [snap EXCEPT ![q] = s]
    /\ work' = [work EXCEPT ![q] = bookings]
    /\ UNCHANGED <<db, call, loaded, failed>>

IsPublished(s, e) == s.experiences[e] # NoRow /\ s.experiences[e].status = "published"

MayManage(s, c) == /\ s.experiences[c.experience] # NoRow
                   /\ c.by = Owner[c.experience] \/ c.by \in Managers

\* createExperienceServer: the creator's row has an id of its own, in place of
\* any row of theirs it has loaded.
Opened(q, s, e, status) ==
    [s EXCEPT !.experiences[e] = FirstRow(e, status),
              !.participants = [i \in Ids |-> IF i = q THEN CreatorRow(e)
                                  ELSE IF i \in OfPerson(s, e, Owner[e]) THEN NoRow
                                  ELSE s.participants[i]]]

DecideCreate(q) ==
    /\ Ready(q, "create")
    /\ LET c == call[q]
       IN Advance(q, "storing", Opened(q, snap[q], c.experience, c.status), {})

MovedOpenly(s, e) == IsPublished(s, e) \* mutant

Moved(s, e) == s.experiences[e] # NoRow

\* backfillCommunityEventsToExperiences: the list, getExperienceServer and the
\* store that is written back are loaded one after the other; the last of them
\* is not looked at.
DecideBackfill(q) ==
    /\ Ready(q, "backfill")
    /\ LET c == call[q]
       IN IF pc[q] = "adding"
            THEN Advance(q, "storing", Opened(q, snap[q], c.experience, c.status), {})
          ELSE IF Moved(snap[q], c.experience)
            THEN End(q, "ok") /\ UNCHANGED db
            ELSE /\ pc' = [pc EXCEPT ![q] = IF @ = "loading" THEN "checking" ELSE "adding"]
                 /\ snap' = [snap EXCEPT ![q] = NoStore]
                 /\ loaded' = [loaded EXCEPT ![q] = {}]
                 /\ UNCHANGED <<db, call, work, failed>>

\* Mutant of Updated: a capacity that was not given is written.
UpdatedBlindly(x, c) == [status   |-> IF c.status = Keep THEN x.status ELSE c.status,
                         capacity |-> c.capacity,
                         slot     |-> IF c.slot = Keep THEN x.slot ELSE c.slot]

\* updateExperienceServer: seats and bookings are left as they are.
Updated(x, c) == [status   |-> IF c.status = Keep THEN x.status ELSE c.status,
                  capacity |-> IF c.capacity = 0 THEN x.capacity ELSE c.capacity,
                  slot     |-> IF c.slot = Keep THEN x.slot ELSE c.slot]

DecideUpdate(q) ==
    /\ Ready(q, "update")
    /\ LET c == call[q]
       IN IF MayManage(snap[q], c)
            THEN Advance(q, "storing",
                         [snap[q] EXCEPT !.experiences[c.experience] = Updated(@, c)], {})
            ELSE Reject(q)

Seated(s, e, p) == \E i \in OfPerson(s, e, p) : OccupiesSeat(s.participants[i])

\* joinExperienceServer: with a seat free the place is booked first.
DecideJoin(q) ==
    /\ Ready(q, "join")
    /\ LET c == call[q]
           s == snap[q]
       IN IF ~IsPublished(s, c.experience) \/ Seated(s, c.experience, c.by)
            THEN Reject(q)
          ELSE IF IsFull(s, c.experience)
            THEN Advance(q, "storing", WithRole(q, s, c.experience, c.by, "waitlist", NoRow), {})
            ELSE Advance(q, "booking", s, {q})

\* inviteParticipation and inviteExperienceParticipantServer
DecideInvite(q) ==
    /\ Ready(q, "invite")
    /\ LET c == call[q]
           s == snap[q]
           takesPart == \E i \in OfPerson(s, c.experience, c.by) :
                            s.participants[i].role # "cancelled"
       IN IF /\ takesPart /\ c.guest # c.by
             /\ IsPublished(s, c.experience)
             /\ ~Seated(s, c.experience, c.guest)
            THEN Advance(q, "storing",
                         WithRole(q, s, c.experience, c.guest, "invited", NoRow), {})
            ELSE Reject(q)

\* leaveExperienceServer: the booking is cancelled first.
DecideLeave(q) ==
    /\ Ready(q, "leave")
    /\ LET c == call[q]
           s == snap[q]
           mine == OfPerson(s, c.experience, c.by)
       IN IF \/ s.experiences[c.experience] = NoRow \/ mine = {}
             \/ \E i \in mine : s.participants[i].role = "creator"
            THEN Reject(q)
            ELSE LET row == s.participants[CHOOSE i \in mine : TRUE]
                 IN Advance(q, IF row.booking = NoRow THEN "storing" ELSE "booking",
                            WithRole(q, s, c.experience, c.by, "cancelled", row.booking),
                            {row.booking} \ {NoRow})

\* Mutant of Linked: bookings of the waitlist and of those who left, too few.
LinkedLeavers(s, e) ==
    {s.participants[i].booking : i \in {j \in RowsOf(s, e) :
        ~OccupiesSeat(s.participants[j])}} \ {NoRow}

Linked(s, e) == {s.participants[i].booking : i \in RowsOf(s, e)} \ {NoRow}

\* cancelExperienceServer: every linked booking, then the participations.
Dismissed(s, e) ==
    [s EXCEPT !.experiences[e].status = "cancelled",
              !.participants = [i \in Ids |->
                  IF i \in RowsOf(s, e) /\ OccupiesSeat(s.participants[i])
                    THEN [s.participants[i] EXCEPT !.role = "cancelled"]
                    ELSE s.participants[i]]]

DecideCancel(q) ==
    /\ Ready(q, "cancel")
    /\ LET c == call[q]
           s == snap[q]
           linked == Linked(s, c.experience)
       IN IF MayManage(s, c)
            THEN Advance(q, IF linked = {} THEN "storing" ELSE "booking",
                         Dismissed(s, c.experience), linked)
            ELSE Reject(q)

\* createReservationServer, context experience: the experience is read again,
\* the time is the one the join started from.  The facility is there and may be
\* booked: the refusals of one that is not are left out.
CountPlaces(q) ==
    /\ pc[q] = "booking" /\ call[q].kind = "join"
    /\ "bookings" \in loaded[q]
    /\ LET e == call[q].experience
           p == call[q].by
           s == snap[q]
           w == s.experiences[e].slot
           row == [experience |-> e, by |-> p, slot |-> w, active |-> TRUE]
       IN IF HasPlace(s.bookings, e, w, db.experiences[e].capacity)
            THEN Advance(q, "reserving",
                         [WithRole(q, s, e, p, "participant", q) EXCEPT !.bookings[q] = row], {})
            ELSE Advance(q, "storing",
                         [WithRole(q, s, e, p, "waitlist", NoRow) EXCEPT
                             !.bookings = NoStore.bookings], {})

\* persistStore of the reservation repository, its bookings.
Reserve(q) ==
    /\ pc[q] = "reserving"
    /\ db' = [db EXCEPT !.bookings = Upsert(@, snap[q].bookings)]
    /\ pc' = [pc EXCEPT ![q] = "storing"]
    /\ snap' = [snap EXCEPT ![q].bookings = NoStore.bookings]
    /\ UNCHANGED <<call, loaded, work, failed>>

Cancelled(bookings, k) == [bookings EXCEPT ![k].active = FALSE]

\* updateReservationServer with status cancelled; a booking it does not find is
\* passed over without a word.
Release(q, k) ==
    /\ pc[q] = "booking" /\ call[q].kind \in {"leave", "cancel"}
    /\ "bookings" \in loaded[q]
    /\ k \in work[q]
    /\ IF snap[q].bookings[k] = NoRow
         THEN UNCHANGED db
         ELSE db' = [db EXCEPT !.bookings = Upsert(@, Cancelled(snap[q].bookings, k))]
    /\ snap' = [snap EXCEPT ![q].bookings = NoStore.bookings]
    /\ loaded' = [loaded EXCEPT ![q] = Tables]
    /\ work' = [work EXCEPT ![q] = @ \ {k}]
    /\ pc' = [pc EXCEPT ![q] = IF work[q] = {k} THEN "storing" ELSE "booking"]
    /\ UNCHANGED <<call, failed>>

\* A reservation statement that fails ends the request with an error, whether
\* it took effect or not.
FailBooking(q) ==
    /\ "write" \in Faults
    /\ \/ /\ pc[q] = "reserving"
          /\ db' \in {db, [db EXCEPT !.bookings = Upsert(@, snap[q].bookings)]}
       \/ /\ pc[q] = "booking" /\ call[q].kind \in {"leave", "cancel"}
          /\ "bookings" \in loaded[q]
          /\ \E k \in work[q] :
                /\ snap[q].bookings[k] # NoRow
                /\ db' \in {db, [db EXCEPT !.bookings =
                                    Upsert(@, Cancelled(snap[q].bookings, k))]}
    /\ End(q, "error")

\* persistStore: the experiences, and then, whatever came of it, the participants.
StoreExperiences(q) ==
    /\ pc[q] = "storing"
    /\ \/ /\ db' = [db EXCEPT !.experiences = Upsert(@, snap[q].experiences)]
          /\ failed' \in {failed} \cup (IF "write" \in Faults
                                          THEN {[failed EXCEPT ![q] = TRUE]} ELSE {})
       \/ /\ "write" \in Faults
          /\ failed' = [failed EXCEPT ![q] = TRUE]
          /\ UNCHANGED db
    /\ pc' = [pc EXCEPT ![q] = "enrolling"]
    /\ UNCHANGED <<call, snap, loaded, work>>

AlwaysOk(q, stored) == "ok" \* mutant

Verdict(q, stored) == IF failed[q] \/ ~stored THEN "error" ELSE "ok"

\* A join, stored, is answered with an error all the same when its host cannot be
\* told or its conversation cannot be opened.
StoreParticipants(q) ==
    /\ pc[q] = "enrolling"
    /\ LET rows == Upsert(db.participants, snap[q].participants)
       IN \/ /\ Admissible(rows)
             /\ db' = [db EXCEPT !.participants = rows]
             /\ \/ End(q, Verdict(q, TRUE))
                \/ "write" \in Faults /\ End(q, Verdict(q, FALSE))
          \/ /\ ~Admissible(rows) \/ "write" \in Faults
             /\ UNCHANGED db
             /\ End(q, Verdict(q, FALSE))

\* The process dies between two steps.
Crash(q) ==
    /\ "crash" \in Faults
    /\ q \in InFlight
    /\ End(q, "lost")
    /\ UNCHANGED db

Move == \E q \in Requests :
          \/ \E c \in Calls : Start(q, c)
          \/ \E t \in Tables \cup {"bookings"} : Read(q, t) \/ FailRead(q, t)
          \/ DecideCreate(q) \/ DecideBackfill(q) \/ DecideUpdate(q) \/ DecideJoin(q)
          \/ DecideInvite(q) \/ DecideLeave(q) \/ DecideCancel(q)
          \/ CountPlaces(q) \/ Reserve(q)
          \/ \E k \in Requests : Release(q, k)
          \/ FailBooking(q)
          \/ StoreExperiences(q) \/ StoreParticipants(q)
          \/ Crash(q)

Next == /\ Move
        /\ apart' = /\ apart /\ Cardinality(InFlight') <= 1
                    /\ \A q \in Requests, t \in Tables \cup {"bookings"} :
                          t \in loaded'[q] \ loaded[q] => snap'[q][t] = db[t]

Spec == Init /\ [][Next]_<<vars, apart>>

-----------------------------------------------------------------------------

Quiet == InFlight = {}

ActiveBookings(e, p) == {k \in Requests : /\ db.bookings[k] # NoRow
                                          /\ db.bookings[k].active
                                          /\ db.bookings[k].experience = e
                                          /\ db.bookings[k].by = p}

\* Between requests, the two stores tell the same story: whoever is listed as a
\* participant holds exactly one active booking, and nobody else holds any,
\* however often people leave and come back (join, leave and cancel write the
\* two stores in turn); and "cancelling an Experience should release or cancel
\* linked Resource holds" (ADR-031): nobody keeps a place in one.
SeatAndBookingAgree ==
    Quiet => \A e \in Experiences, p \in Persons :
        /\ Cardinality(ActiveBookings(e, p)) =
               IF \E i \in OfPerson(db, e, p) : db.participants[i].role = "participant"
                 THEN 1 ELSE 0
        /\ db.experiences[e] # NoRow /\ db.experiences[e].status = "cancelled" =>
               ActiveBookings(e, p) = {}

\* "Conflicts fail closed for double-booking" (ADR-031): at no minute do the
\* experiences that share a facility hold more places in it than it has.
FacilityNotOverfull ==
    \A f \in {Facility[e] : e \in Experiences} \ {NoRow}, t \in UNION {w.from..w.to : w \in Slots} :
        Cardinality({k \in Requests : /\ db.bookings[k] # NoRow
                                      /\ db.bookings[k].active
                                      /\ Facility[db.bookings[k].experience] = f
                                      /\ Covers(db.bookings[k].slot, t)}) <= Places[f]

\* Whatever statement, answer or process fails between the booking and the
\* participation, a place held by a join that was answered is held by somebody
\* who is listed, as long as requests come one after the other and what they
\* read was there: no booking outlives the participation silently.
NoHiddenBooking ==
    apart => \A q \in Requests :
        /\ pc[q] = "ok" /\ call[q].kind = "join"
        /\ db.bookings[q] # NoRow /\ db.bookings[q].active
        => \E i \in Ids : /\ db.participants[i] # NoRow
                          /\ db.participants[i].booking = q
                          /\ OccupiesSeat(db.participants[i])

\* "Idempotent": as long as requests come one after the other, showing the page
\* of an event again never resets the experience it became, whatever its members
\* made of it meanwhile, and whichever statement or process failed before.
EventsMoveOnce ==
    [][\A q \in Requests, e \in Experiences :
          /\ apart' /\ pc'[q] # pc[q]
          /\ call[q] # NoCall /\ call[q].kind = "backfill"
          /\ db.experiences[e] # NoRow
          => db'.experiences[e] = db.experiences[e]]_vars

\* Under every interleaving and failure of two requests, a listed participant's
\* booking exists and is theirs, although both tables are overwritten with
\* stale snapshots; and a join that was answered is on the list.
SeatsAreBacked ==
    /\ \A i \in Ids :
          LET row == db.participants[i]
          IN row # NoRow /\ row.booking # NoRow =>
                /\ db.bookings[row.booking] # NoRow
                /\ db.bookings[row.booking].by = row.person
                /\ db.bookings[row.booking].experience = row.experience
    /\ \A q \in Requests : pc[q] = "ok" /\ call[q].kind = "join" =>
          OfPerson(db, call[q].experience, call[q].by) # {}

\* One request at a time and with no failures, the tables behave as Attendance.
WithRoleIn(e, roles) ==
    {p \in Persons : \E i \in OfPerson(db, e, p) : db.participants[i].role \in roles}

Attends == INSTANCE Attendance WITH
    People <- Persons, Activities <- Experiences, Host <- Owner,
    MostSeats <- MaxCapacity,
    status  <- [e \in Experiences |-> IF db.experiences[e] = NoRow THEN "absent"
                                      ELSE db.experiences[e].status],
    seats   <- [e \in Experiences |-> IF db.experiences[e] = NoRow THEN FirstCapacity[e]
                                      ELSE db.experiences[e].capacity],
    seated  <- [e \in Experiences |-> WithRoleIn(e, OccupyingRoles)],
    waiting <- [e \in Experiences |-> WithRoleIn(e, {"waitlist"})]

SerialAttendance == Attends!Spec

=============================================================================
