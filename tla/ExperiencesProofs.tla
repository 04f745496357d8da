------------------------- MODULE ExperiencesProofs --------------------------
(***************************************************************************)
(* What holds of the experience repository for any persons, experiences,   *)
(* facilities, calls, failures and number of concurrent requests; what     *)
(* holds as long as no two requests overlap; and what it implements one    *)
(* request at a time.                                                      *)
(***************************************************************************)
EXTENDS Experiences, FiniteSetTheorems, TLAPS


Answers == {"ok", "rejected", "error", "lost"}

Stages == Loading \cup Answers \cup {"booking", "reserving", "storing", "enrolling"}

-----------------------------------------------------------------------------
(* The invariant.                                                          *)

\* Whose participation a call is about.
Whose(c) == CASE c.kind = "invite" -> c.guest
              [] c.kind \in {"create", "backfill"} -> Owner[c.experience]
              [] OTHER -> c.by

\* A row is of the experience and the person its id tells, and so is its booking.
RowIsNamed(calls, i, row) ==
    /\ i \in Experiences => row.experience = i /\ row.person = Owner[i]
    /\ i \in Requests => /\ calls[i] # NoCall
                         /\ row.experience = calls[i].experience
                         /\ row.person = Whose(calls[i])
    /\ row.booking # NoRow =>
          /\ calls[row.booking] # NoCall /\ calls[row.booking].kind = "join"
          /\ row.experience = calls[row.booking].experience
          /\ row.person = calls[row.booking].by

BookingIsNamed(calls, k, row) ==
    /\ calls[k] # NoCall /\ calls[k].kind = "join"
    /\ row.experience = calls[k].experience /\ row.by = calls[k].by

RowsNamed(calls, rows) == \A i \in Ids : rows[i] # NoRow => RowIsNamed(calls, i, rows[i])

BookingsNamed(calls, rows) ==
    \A k \in Requests : rows[k] # NoRow => BookingIsNamed(calls, k, rows[k])

Named(calls, s) == RowsNamed(calls, s.participants) /\ BookingsNamed(calls, s.bookings)

Referring ==
    \A i \in Ids : db.participants[i] # NoRow =>
        /\ db.participants[i].role \in StorableRoles
        /\ db.experiences[db.participants[i].experience] # NoRow
        /\ db.participants[i].booking # NoRow => db.bookings[db.participants[i].booking] # NoRow

OneRowEach ==
    \A i, j \in Ids :
        /\ db.participants[i] # NoRow /\ db.participants[j] # NoRow
        /\ db.participants[i].experience = db.participants[j].experience
        /\ db.participants[i].person = db.participants[j].person
        => i = j

\* A booking that request q knows of is stored, or is the one it is about to make.
Kept(q, k) == db.bookings[k] # NoRow \/ (k = q /\ pc[q] = "reserving")

Holds(q) ==
    /\ Named(call, snap[q])
    /\ \A k \in Requests : snap[q].bookings[k] # NoRow => Kept(q, k)
    /\ \A i \in Ids : snap[q].participants[i] # NoRow /\ snap[q].participants[i].booking # NoRow
                        => Kept(q, snap[q].participants[i].booking)

\* What the place of a request tells of its call and its booking.
Phase(q) ==
    /\ pc[q] = "idle" => loaded[q] = {}
    /\ pc[q] \in {"checking", "adding"} => call[q].kind = "backfill"
    /\ pc[q] = "booking" => call[q].kind \in {"join", "leave", "cancel"}
    /\ pc[q] = "booking" /\ call[q].kind = "join" =>
          snap[q].experiences[call[q].experience] # NoRow
    /\ pc[q] = "reserving" => call[q].kind = "join" /\ snap[q].bookings[q] # NoRow
    /\ pc[q] \in Loading \cup {"idle", "booking"} => db.bookings[q] = NoRow

\* A join keeps a row for its person, linked to the booking it makes.
Listed(q) ==
    /\ pc[q] \in {"reserving", "storing", "enrolling"} /\ call[q].kind = "join" =>
          \E i \in OfPerson(snap[q], call[q].experience, call[q].by) :
             db.bookings[q] # NoRow \/ pc[q] = "reserving" =>
                /\ snap[q].participants[i].role = "participant"
                /\ snap[q].participants[i].booking = q
    /\ pc[q] = "ok" /\ call[q].kind = "join" =>
          OfPerson(db, call[q].experience, call[q].by) # {}

Inv == /\ TypeOK /\ Named(call, db) /\ Referring /\ OneRowEach
       /\ \A q \in Requests : Holds(q) /\ Phase(q) /\ Listed(q)

-----------------------------------------------------------------------------
(* Steps.                                                                  *)

\* What request q may do next.
Acts(q) == \/ \E c \in Calls : Start(q, c)
           \/ \E t \in Tables \cup {"bookings"} : Read(q, t) \/ FailRead(q, t)
           \/ DecideCreate(q) \/ DecideBackfill(q) \/ DecideUpdate(q) \/ DecideJoin(q)
           \/ DecideInvite(q) \/ DecideLeave(q) \/ DecideCancel(q)
           \/ CountPlaces(q) \/ Reserve(q)
           \/ \E k \in Requests : Release(q, k)
           \/ FailBooking(q)
           \/ StoreExperiences(q) \/ StoreParticipants(q)
           \/ Crash(q)

LEMMA SomebodyActs == Move <=> \E q \in Requests : Acts(q)
  BY DEF Move, Acts

-----------------------------------------------------------------------------
(* Types.                                                                  *)

LEMMA NoStoreIsAStore == NoStore \in Store
  BY DEF NoStore, Store

LEMMA StoreParts ==
    ASSUME NEW s \in Store
    PROVE  /\ s.experiences \in [Experiences -> Experience \cup {NoRow}]
           /\ s.participants \in [Ids -> Participation \cup {NoRow}]
           /\ s.bookings \in [Requests -> Booking \cup {NoRow}]
           /\ s = [experiences |-> s.experiences, participants |-> s.participants,
                   bookings |-> s.bookings]
  BY DEF Store

\* A call has the fields of its kind.
LEMMA CallsHaveFields ==
    ASSUME NEW c \in Calls
    PROVE  /\ c.experience \in Experiences /\ c.by \in Persons
           /\ c.kind \in {"create", "backfill", "update", "join", "leave", "cancel", "invite"}
           /\ c.kind \in {"create", "backfill"} => c.status \in Statuses
           /\ c.kind = "create" => c.by = Owner[c.experience]
           /\ c.kind = "update" => /\ c.status \in Statuses \cup {Keep}
                                   /\ c.slot \in Slots \cup {Keep}
                                   /\ c.capacity \in 0..MaxCapacity
           /\ c.kind = "invite" => c.guest \in Persons
  BY ExperienceConstants DEF CreateCalls, BackfillCalls, SeatCalls, InviteCalls, UpdateCalls

LEMMA StartedHaveCalls ==
    ASSUME TypeOK, NEW q \in Requests, pc[q] # "idle"
    PROVE  call[q] \in Calls
  BY DEF TypeOK

\* A store with one table replaced, and with one row.
LEMMA WithTable ==
    ASSUME NEW s \in Store
    PROVE  /\ \A rows \in [Experiences -> Experience \cup {NoRow}] :
                 /\ [s EXCEPT !.experiences = rows] \in Store
                 /\ [s EXCEPT !["experiences"] = rows] \in Store
           /\ \A rows \in [Ids -> Participation \cup {NoRow}] :
                 /\ [s EXCEPT !.participants = rows] \in Store
                 /\ [s EXCEPT !["participants"] = rows] \in Store
           /\ \A rows \in [Requests -> Booking \cup {NoRow}] :
                 /\ [s EXCEPT !.bookings = rows] \in Store
                 /\ [s EXCEPT !["bookings"] = rows] \in Store
  BY DEF Store

LEMMA UpsertKeepsTable ==
    ASSUME NEW K, NEW R, NEW a \in [K -> R], NEW b \in [K -> R]
    PROVE  Upsert(a, b) \in [K -> R]
  BY DEF Upsert

\* A person's row is one of theirs, or new.
LEMMA IdForIsAnId ==
    ASSUME NEW q \in Requests, NEW s, NEW e, NEW p
    PROVE  /\ IdFor(q, s, e, p) \in Ids
           /\ \/ IdFor(q, s, e, p) \in OfPerson(s, e, p)
              \/ IdFor(q, s, e, p) = q /\ OfPerson(s, e, p) = {}
  BY DEF IdFor, OfPerson, RowsOf, Ids

\* What WithRole changes.
RowOf(e, p, role, b) == [experience |-> e, person |-> p, role |-> role, booking |-> b]

LEMMA WithRoleWrites ==
    ASSUME NEW q \in Requests, NEW s \in Store, NEW e \in Experiences, NEW p \in Persons,
           NEW role \in Roles, NEW b \in Requests \cup {NoRow}
    PROVE  /\ RowOf(e, p, role, b) \in Participation
           /\ WithRole(q, s, e, p, role, b) \in Store
           /\ WithRole(q, s, e, p, role, b).experiences = s.experiences
           /\ WithRole(q, s, e, p, role, b).bookings = s.bookings
           /\ WithRole(q, s, e, p, role, b).participants[IdFor(q, s, e, p)] = RowOf(e, p, role, b)
           /\ \A i \in Ids \ {IdFor(q, s, e, p)} :
                 WithRole(q, s, e, p, role, b).participants[i] = s.participants[i]
<1> DEFINE i == IdFor(q, s, e, p)
           row == RowOf(e, p, role, b)
<1>1. i \in Ids
  BY IdForIsAnId
<1>2. row \in Participation
  BY DEF Participation, RowOf
<1>3. s.participants \in [Ids -> Participation \cup {NoRow}]
  BY StoreParts
<1>4. WithRole(q, s, e, p, role, b) = [s EXCEPT !.participants[i] = row]
  BY DEF WithRole, RowOf
<1> HIDE DEF i, row
<1>5. [s.participants EXCEPT ![i] = row] \in [Ids -> Participation \cup {NoRow}]
  BY <1>1, <1>2, <1>3
<1>6. [s EXCEPT !.participants[i] = row] = [s EXCEPT !.participants = [s.participants EXCEPT ![i] = row]]
  BY DEF Store
<1>7. [s EXCEPT !.participants[i] = row] \in Store
  BY <1>5, <1>6, WithTable
<1>8. /\ [s EXCEPT !.participants[i] = row].experiences = s.experiences
      /\ [s EXCEPT !.participants[i] = row].bookings = s.bookings
      /\ [s EXCEPT !.participants[i] = row].participants = [s.participants EXCEPT ![i] = row]
  BY DEF Store
<1> QED
  BY <1>1, <1>2, <1>3, <1>4, <1>7, <1>8 DEF i, row

-----------------------------------------------------------------------------
(* What a step writes.                                                     *)

\* The other requests stay as they are.
OthersRest(q) == \A p \in Requests \ {q} :
    /\ pc'[p] = pc[p] /\ call'[p] = call[p] /\ snap'[p] = snap[p]
    /\ loaded'[p] = loaded[p] /\ work'[p] = work[p] /\ failed'[p] = failed[p]

\* Where a step leaves its request and the tables.
Leaves(q, place, s, tables, ks) ==
    /\ pc'[q] = place /\ snap'[q] = s /\ loaded'[q] = tables /\ work'[q] = ks
    /\ OthersRest(q)

LEMMA StepEffect ==
    ASSUME TypeOK, NEW q \in Requests, NEW place \in Stages, NEW c \in Calls, NEW s \in Store,
           NEW tables \in SUBSET (Tables \cup {"bookings"}), NEW ks \in SUBSET Requests,
           db' \in Store,
           pc' = [pc EXCEPT ![q] = place], call' = [call EXCEPT ![q] = c],
           snap' = [snap EXCEPT ![q] = s], loaded' = [loaded EXCEPT ![q] = tables],
           work' = [work EXCEPT ![q] = ks],
           failed' \in [Requests -> BOOLEAN], \A p \in Requests \ {q} : failed'[p] = failed[p]
    PROVE  TypeOK' /\ Leaves(q, place, s, tables, ks) /\ call'[q] = c
<1>1. /\ pc' \in [Requests -> Stages \cup {"idle"}] /\ call' \in [Requests -> Calls \cup {NoCall}]
      /\ snap' \in [Requests -> Store] /\ loaded' \in [Requests -> SUBSET (Tables \cup {"bookings"})]
      /\ work' \in [Requests -> SUBSET Requests]
  BY DEF TypeOK, Stages, Answers
<1>2. Leaves(q, place, s, tables, ks) /\ call'[q] = c
  BY DEF TypeOK, Leaves, OthersRest
<1>3. \A p \in Requests : call'[p] = NoCall <=> pc'[p] = "idle"
  BY <1>2, ExperienceConstants DEF TypeOK, Leaves, OthersRest, Stages, Answers, Loading
<1> QED
  BY <1>1, <1>2, <1>3 DEF TypeOK, Stages, Answers

\* An answer, or the end of the process.
LEMMA EndEffect ==
    ASSUME TypeOK, NEW q \in Requests, pc[q] # "idle", NEW answer \in Answers, End(q, answer),
           db' \in Store
    PROVE  /\ TypeOK' /\ Leaves(q, answer, NoStore, {}, {})
           /\ call' = call /\ failed'[q] = FALSE
<1>1. call' = [call EXCEPT ![q] = call[q]]
  BY DEF End, TypeOK
<1>2. call[q] \in Calls
  BY StartedHaveCalls
<1>3. /\ failed' \in [Requests -> BOOLEAN] /\ \A p \in Requests \ {q} : failed'[p] = failed[p]
  BY DEF End, TypeOK
<1>4. /\ pc' = [pc EXCEPT ![q] = answer] /\ snap' = [snap EXCEPT ![q] = NoStore]
      /\ loaded' = [loaded EXCEPT ![q] = {}] /\ work' = [work EXCEPT ![q] = {}]
  BY DEF End
<1>5. /\ answer \in Stages /\ NoStore \in Store
      /\ {} \in SUBSET (Tables \cup {"bookings"}) /\ {} \in SUBSET Requests
  BY NoStoreIsAStore DEF Stages
<1>6. TypeOK' /\ Leaves(q, answer, NoStore, {}, {})
  BY <1>1, <1>2, <1>3, <1>4, <1>5, StepEffect
<1> QED
  BY <1>6 DEF End, TypeOK

\* A decision.
LEMMA AdvanceEffect ==
    ASSUME TypeOK, NEW q \in Requests, pc[q] # "idle", NEW place \in Stages, NEW s \in Store,
           NEW ks \in SUBSET Requests, Advance(q, place, s, ks)
    PROVE  /\ TypeOK' /\ Leaves(q, place, s, loaded[q], ks)
           /\ call' = call /\ db' = db /\ failed' = failed
<1>1. call' = [call EXCEPT ![q] = call[q]] /\ loaded' = [loaded EXCEPT ![q] = loaded[q]]
  BY DEF Advance, TypeOK
<1>2. /\ call[q] \in Calls /\ loaded[q] \in SUBSET (Tables \cup {"bookings"})
      /\ db' \in Store
      /\ failed' \in [Requests -> BOOLEAN] /\ \A p \in Requests \ {q} : failed'[p] = failed[p]
  BY StartedHaveCalls DEF TypeOK, Advance
<1> QED
  BY <1>1, <1>2, StepEffect DEF Advance

LEMMA StartEffect ==
    ASSUME TypeOK, NEW q \in Requests, NEW c \in Calls, Start(q, c)
    PROVE  /\ TypeOK' /\ Leaves(q, "loading", snap[q], loaded[q], work[q])
           /\ call'[q] = c /\ db' = db /\ failed' = failed
<1>1. /\ snap' = [snap EXCEPT ![q] = snap[q]] /\ loaded' = [loaded EXCEPT ![q] = loaded[q]]
      /\ work' = [work EXCEPT ![q] = work[q]]
  BY DEF Start, TypeOK
<1>2. /\ snap[q] \in Store /\ loaded[q] \in SUBSET (Tables \cup {"bookings"})
      /\ work[q] \in SUBSET Requests /\ db' \in Store /\ "loading" \in Stages
      /\ failed' \in [Requests -> BOOLEAN] /\ \A p \in Requests \ {q} : failed'[p] = failed[p]
  BY DEF Start, TypeOK, Stages, Loading
<1>3. /\ pc' = [pc EXCEPT ![q] = "loading"] /\ call' = [call EXCEPT ![q] = c]
  BY DEF Start
<1>4. TypeOK' /\ Leaves(q, "loading", snap[q], loaded[q], work[q]) /\ call'[q] = c
  BY <1>1, <1>2, <1>3, StepEffect
<1> QED
  BY <1>4 DEF Start

\* One SELECT, answered with the table or with nothing.
Selects(q, t, rows) ==
    /\ rows \in {db[t], NoStore[t]}
    /\ snap' = [snap EXCEPT ![q] = [@ EXCEPT ![t] = rows]]
    /\ loaded' = [loaded EXCEPT ![q] = @ \cup {t}]
    /\ UNCHANGED <<db, pc, call, work, failed>>

LEMMA SelectEffect ==
    ASSUME TypeOK, NEW q \in Requests, NEW t \in Tables \cup {"bookings"}, Reads(q, t),
           NEW rows, Selects(q, t, rows)
    PROVE  TypeOK' /\ Leaves(q, pc[q], [snap[q] EXCEPT ![t] = rows], loaded[q] \cup {t}, work[q])
<1>1. [snap[q] EXCEPT ![t] = rows] \in Store
  <2>1. snap[q] \in Store /\ db \in Store /\ NoStore \in Store /\ rows \in {db[t], NoStore[t]}
    BY NoStoreIsAStore DEF TypeOK, Selects
  <2>2. CASE t = "experiences"
    <3>1. rows \in [Experiences -> Experience \cup {NoRow}]
      BY <2>1, <2>2, StoreParts
    <3> QED
      BY <2>1, <2>2, <3>1, WithTable
  <2>3. CASE t = "participants"
    <3>1. rows \in [Ids -> Participation \cup {NoRow}]
      BY <2>1, <2>3, StoreParts
    <3> QED
      BY <2>1, <2>3, <3>1, WithTable
  <2>4. CASE t = "bookings"
    <3>1. rows \in [Requests -> Booking \cup {NoRow}]
      BY <2>1, <2>4, StoreParts
    <3> QED
      BY <2>1, <2>4, <3>1, WithTable
  <2> QED
    BY <2>2, <2>3, <2>4 DEF Tables
<1> DEFINE s == [snap[q] EXCEPT ![t] = rows]
           tables == loaded[q] \cup {t}
           place == pc[q]
           ks == work[q]
           c == call[q]
<1>2. pc[q] # "idle"
  BY DEF Reads, Loading
<1>3. /\ pc' = [pc EXCEPT ![q] = place] /\ call' = [call EXCEPT ![q] = c]
      /\ work' = [work EXCEPT ![q] = ks]
      /\ snap' = [snap EXCEPT ![q] = s] /\ loaded' = [loaded EXCEPT ![q] = tables]
  BY DEF TypeOK, Selects
<1>4. /\ place \in Stages /\ c \in Calls /\ ks \in SUBSET Requests
      /\ tables \in SUBSET (Tables \cup {"bookings"})
      /\ db' \in Store /\ s \in Store
      /\ failed' \in [Requests -> BOOLEAN] /\ \A p \in Requests \ {q} : failed'[p] = failed[p]
  BY <1>1, <1>2, StartedHaveCalls DEF TypeOK, Stages, Answers, Selects
<1> HIDE DEF s, tables, place, ks, c
<1>5. TypeOK' /\ Leaves(q, place, s, tables, ks)
  BY <1>3, <1>4, StepEffect
<1> QED
  BY <1>5 DEF s, tables, place, ks

\* The bookings of a snapshot are forgotten once they are written.
Forgotten(q) == [snap[q] EXCEPT !.bookings = NoStore.bookings]

LEMMA ForgottenIsAStore ==
    ASSUME TypeOK, NEW q \in Requests
    PROVE  /\ Forgotten(q) \in Store
           /\ Forgotten(q).bookings = NoStore.bookings
           /\ Forgotten(q).experiences = snap[q].experiences
           /\ Forgotten(q).participants = snap[q].participants
<1>1. snap[q] \in Store /\ NoStore.bookings \in [Requests -> Booking \cup {NoRow}]
  BY NoStoreIsAStore, StoreParts DEF TypeOK
<1>2. Forgotten(q) \in Store
  BY <1>1, WithTable DEF Forgotten
<1> QED
  BY <1>1, <1>2 DEF Forgotten, Store

\* Statements on the bookings.
LEMMA BookingsWithRows ==
    ASSUME TypeOK, NEW rows \in [Requests -> Booking \cup {NoRow}]
    PROVE  /\ [db EXCEPT !.bookings = Upsert(@, rows)] \in Store
           /\ [db EXCEPT !.bookings = Upsert(@, rows)].experiences = db.experiences
           /\ [db EXCEPT !.bookings = Upsert(@, rows)].participants = db.participants
           /\ \A k \in Requests : [db EXCEPT !.bookings = Upsert(@, rows)].bookings[k] =
                 IF rows[k] # NoRow THEN rows[k] ELSE db.bookings[k]
<1>1. db \in Store /\ db.bookings \in [Requests -> Booking \cup {NoRow}]
  BY StoreParts DEF TypeOK
<1>2. Upsert(db.bookings, rows) \in [Requests -> Booking \cup {NoRow}]
  BY <1>1, UpsertKeepsTable
<1>3. [db EXCEPT !.bookings = Upsert(@, rows)] = [db EXCEPT !.bookings = Upsert(db.bookings, rows)]
  BY <1>1 DEF Store
<1>4. [db EXCEPT !.bookings = Upsert(@, rows)] \in Store
  BY <1>1, <1>2, <1>3, WithTable
<1>5. [db EXCEPT !.bookings = Upsert(@, rows)].bookings = Upsert(db.bookings, rows)
  BY <1>1, <1>3 DEF Store
<1>6. \A k \in Requests : Upsert(db.bookings, rows)[k] =
         IF rows[k] # NoRow THEN rows[k] ELSE db.bookings[k]
  BY <1>1 DEF Upsert
<1> QED
  BY <1>1, <1>3, <1>4, <1>5, <1>6 DEF Store

LEMMA CancelledIsATable ==
    ASSUME TypeOK, NEW q \in Requests, NEW k \in Requests, snap[q].bookings[k] # NoRow
    PROVE  LET rows == Cancelled(snap[q].bookings, k)
           IN /\ rows \in [Requests -> Booking \cup {NoRow}]
              /\ \A j \in Requests \ {k} : rows[j] = snap[q].bookings[j]
              /\ rows[k] \in Booking /\ rows[k] # NoRow
              /\ rows[k].active = FALSE
              /\ rows[k].by = snap[q].bookings[k].by
              /\ rows[k].experience = snap[q].bookings[k].experience
              /\ rows[k].slot = snap[q].bookings[k].slot
<1>1. snap[q].bookings \in [Requests -> Booking \cup {NoRow}]
  BY StoreParts DEF TypeOK
<1>2. snap[q].bookings[k] \in Booking
  BY <1>1
<1>3. [snap[q].bookings[k] EXCEPT !.active = FALSE] \in Booking
  BY <1>2 DEF Booking
<1> DEFINE rows == Cancelled(snap[q].bookings, k)
           row == [snap[q].bookings[k] EXCEPT !.active = FALSE]
<1>4. rows = [snap[q].bookings EXCEPT ![k] = row]
  BY <1>1 DEF Cancelled
<1>5. /\ row.active = FALSE /\ row.by = snap[q].bookings[k].by
      /\ row.experience = snap[q].bookings[k].experience /\ row.slot = snap[q].bookings[k].slot
  BY <1>2 DEF Booking
<1>6. row # NoRow
  BY <1>3, ExperienceConstants
<1> HIDE DEF rows, row
<1>7. rows \in [Requests -> Booking \cup {NoRow}] /\ rows[k] = row
      /\ \A j \in Requests \ {k} : rows[j] = snap[q].bookings[j]
  BY <1>1, <1>3, <1>4 DEF row
<1>8. row \in Booking
  BY <1>3 DEF row
<1> QED
  BY <1>5, <1>6, <1>7, <1>8 DEF rows

LEMMA ReserveEffect ==
    ASSUME TypeOK, NEW q \in Requests, Reserve(q)
    PROVE  /\ TypeOK' /\ Leaves(q, "storing", Forgotten(q), loaded[q], work[q])
           /\ call' = call /\ failed' = failed
<1>1. /\ call' = [call EXCEPT ![q] = call[q]] /\ loaded' = [loaded EXCEPT ![q] = loaded[q]]
      /\ work' = [work EXCEPT ![q] = work[q]] /\ snap' = [snap EXCEPT ![q] = Forgotten(q)]
      /\ pc' = [pc EXCEPT ![q] = "storing"]
  BY DEF Reserve, TypeOK, Forgotten
<1>2. /\ call[q] \in Calls /\ loaded[q] \in SUBSET (Tables \cup {"bookings"})
      /\ work[q] \in SUBSET Requests /\ "storing" \in Stages /\ Forgotten(q) \in Store
      /\ failed' \in [Requests -> BOOLEAN] /\ \A p \in Requests \ {q} : failed'[p] = failed[p]
  BY StartedHaveCalls, ForgottenIsAStore DEF Reserve, TypeOK, Stages
<1>3. db' \in Store
  BY BookingsWithRows, StoreParts DEF Reserve, TypeOK
<1>4. TypeOK' /\ Leaves(q, "storing", Forgotten(q), loaded[q], work[q])
  BY <1>1, <1>2, <1>3, StepEffect
<1> QED
  BY <1>4 DEF Reserve

\* Whether a cancellation of booking k takes effect or not.
LEMMA CancellationKeepsTypes ==
    ASSUME TypeOK, NEW q \in Requests, NEW k \in Requests,
           db' = db \/ (/\ snap[q].bookings[k] # NoRow
                        /\ db' = [db EXCEPT !.bookings = Upsert(@, Cancelled(snap[q].bookings, k))])
    PROVE  db' \in Store
<1>1. CASE db' = db
  BY <1>1 DEF TypeOK
<1>2. CASE /\ snap[q].bookings[k] # NoRow
           /\ db' = [db EXCEPT !.bookings = Upsert(@, Cancelled(snap[q].bookings, k))]
  <2> DEFINE rows == Cancelled(snap[q].bookings, k)
  <2>1. rows \in [Requests -> Booking \cup {NoRow}]
    BY <1>2, CancelledIsATable
  <2> HIDE DEF rows
  <2>2. [db EXCEPT !.bookings = Upsert(@, rows)] \in Store
    BY <2>1, BookingsWithRows
  <2> QED
    BY <1>2, <2>2 DEF rows
<1> QED
  BY <1>1, <1>2

LEMMA ReleaseEffect ==
    ASSUME TypeOK, NEW q \in Requests, NEW k \in Requests, Release(q, k)
    PROVE  /\ TypeOK' /\ call' = call /\ failed' = failed
           /\ Leaves(q, IF work[q] = {k} THEN "storing" ELSE "booking", Forgotten(q), Tables,
                     work[q] \ {k})
<1> DEFINE place == IF work[q] = {k} THEN "storing" ELSE "booking"
           ks == work[q] \ {k}
<1>1. /\ call' = [call EXCEPT ![q] = call[q]] /\ loaded' = [loaded EXCEPT ![q] = Tables]
      /\ work' = [work EXCEPT ![q] = ks] /\ snap' = [snap EXCEPT ![q] = Forgotten(q)]
      /\ pc' = [pc EXCEPT ![q] = place]
  BY DEF Release, TypeOK, Forgotten
<1>2. /\ call[q] \in Calls /\ Tables \in SUBSET (Tables \cup {"bookings"})
      /\ ks \in SUBSET Requests /\ place \in Stages /\ Forgotten(q) \in Store
      /\ failed' \in [Requests -> BOOLEAN] /\ \A p \in Requests \ {q} : failed'[p] = failed[p]
  BY StartedHaveCalls, ForgottenIsAStore DEF Release, TypeOK, Stages
<1>3. db' \in Store
  BY CancellationKeepsTypes DEF Release
<1> HIDE DEF place, ks
<1>4. TypeOK' /\ Leaves(q, place, Forgotten(q), Tables, ks)
  BY <1>1, <1>2, <1>3, StepEffect
<1> QED
  BY <1>4 DEF Release, place, ks

LEMMA StoreExperiencesEffect ==
    ASSUME TypeOK, NEW q \in Requests, StoreExperiences(q)
    PROVE  /\ TypeOK' /\ call' = call
           /\ Leaves(q, "enrolling", snap[q], loaded[q], work[q])
           /\ db'.participants = db.participants /\ db'.bookings = db.bookings
           /\ \/ db' = db /\ failed'[q] = TRUE
              \/ \A x \in Experiences : db'.experiences[x] =
                    IF snap[q].experiences[x] # NoRow THEN snap[q].experiences[x]
                    ELSE db.experiences[x]
<1>1. /\ call' = [call EXCEPT ![q] = call[q]] /\ loaded' = [loaded EXCEPT ![q] = loaded[q]]
      /\ work' = [work EXCEPT ![q] = work[q]] /\ snap' = [snap EXCEPT ![q] = snap[q]]
      /\ pc' = [pc EXCEPT ![q] = "enrolling"]
  BY DEF StoreExperiences, TypeOK
<1>2. /\ call[q] \in Calls /\ loaded[q] \in SUBSET (Tables \cup {"bookings"})
      /\ work[q] \in SUBSET Requests /\ "enrolling" \in Stages /\ snap[q] \in Store
  BY StartedHaveCalls DEF StoreExperiences, TypeOK, Stages
<1>3. failed' = failed \/ failed' = [failed EXCEPT ![q] = TRUE]
  BY DEF StoreExperiences
<1>4. failed' \in [Requests -> BOOLEAN] /\ \A p \in Requests \ {q} : failed'[p] = failed[p]
  BY <1>3 DEF TypeOK
<1>5. db' = db \/ db' = [db EXCEPT !.experiences = Upsert(db.experiences, snap[q].experiences)]
  <2>1. [db EXCEPT !.experiences = Upsert(@, snap[q].experiences)]
          = [db EXCEPT !.experiences = Upsert(db.experiences, snap[q].experiences)]
    BY DEF TypeOK, Store
  <2> QED
    BY <2>1 DEF StoreExperiences
<1>6. db' \in Store
  <2>1. Upsert(db.experiences, snap[q].experiences) \in [Experiences -> Experience \cup {NoRow}]
    BY UpsertKeepsTable, StoreParts DEF TypeOK
  <2> QED
    BY <1>5, <2>1, WithTable DEF TypeOK
<1>7. TypeOK' /\ Leaves(q, "enrolling", snap[q], loaded[q], work[q])
  BY <1>1, <1>2, <1>4, <1>6, StepEffect
<1>8. /\ db'.participants = db.participants /\ db'.bookings = db.bookings
      /\ db' = db \/ db'.experiences = Upsert(db.experiences, snap[q].experiences)
  BY <1>5 DEF TypeOK, Store
<1>9. \A x \in Experiences : Upsert(db.experiences, snap[q].experiences)[x] =
                    IF snap[q].experiences[x] # NoRow THEN snap[q].experiences[x]
                    ELSE db.experiences[x]
  BY StoreParts DEF Upsert, TypeOK
<1>10. \/ db' = db /\ failed'[q] = TRUE
       \/ db' = [db EXCEPT !.experiences = Upsert(@, snap[q].experiences)]
  BY DEF StoreExperiences, TypeOK
<1>11. db' = [db EXCEPT !.experiences = Upsert(@, snap[q].experiences)]
         => db'.experiences = Upsert(db.experiences, snap[q].experiences)
  BY DEF TypeOK, Store
<1>12. \/ db' = db /\ failed'[q] = TRUE
       \/ \A x \in Experiences : db'.experiences[x] =
                    IF snap[q].experiences[x] # NoRow THEN snap[q].experiences[x]
                    ELSE db.experiences[x]
  BY <1>9, <1>10, <1>11
<1> QED
  BY <1>7, <1>8, <1>12 DEF StoreExperiences

-----------------------------------------------------------------------------
(* What the decisions make of a snapshot.                                  *)

LEMMA FirstRowIsARow ==
    ASSUME NEW e \in Experiences, NEW status \in Statuses
    PROVE  /\ FirstRow(e, status) \in Experience /\ FirstRow(e, status) # NoRow
           /\ CreatorRow(e) \in Participation /\ CreatorRow(e) # NoRow
<1>1. FirstRow(e, status) \in Experience
  BY ExperienceConstants DEF FirstRow, Experience
<1>2. CreatorRow(e) \in Participation
  BY ExperienceConstants DEF CreatorRow, Participation, Roles
<1> QED
  BY <1>1, <1>2, ExperienceConstants

LEMMA OpenedParts ==
    ASSUME NEW q \in Requests, NEW s \in Store, NEW e \in Experiences, NEW status \in Statuses
    PROVE  LET new == Opened(q, s, e, status)
           IN /\ new \in Store /\ new.bookings = s.bookings
              /\ new.experiences[e] = FirstRow(e, status)
              /\ \A x \in Experiences \ {e} : new.experiences[x] = s.experiences[x]
              /\ new.participants[q] = CreatorRow(e)
              /\ \A i \in Ids \ {q} : new.participants[i] =
                    IF i \in OfPerson(s, e, Owner[e]) THEN NoRow ELSE s.participants[i]
<1> DEFINE xs == [s.experiences EXCEPT ![e] = FirstRow(e, status)]
           rows == [i \in Ids |-> IF i = q THEN CreatorRow(e)
                                  ELSE IF i \in OfPerson(s, e, Owner[e]) THEN NoRow
                                  ELSE s.participants[i]]
<1>0. Opened(q, s, e, status) = [s EXCEPT !.experiences[e] = FirstRow(e, status),
                                          !.participants = rows]
  BY DEF Opened
<1>2. xs \in [Experiences -> Experience \cup {NoRow}]
  BY StoreParts, FirstRowIsARow
<1>3. rows \in [Ids -> Participation \cup {NoRow}]
  BY StoreParts, FirstRowIsARow
<1>4. q \in Ids
  BY DEF Ids
<1>5. rows[q] = CreatorRow(e) /\ \A i \in Ids \ {q} : rows[i] =
                    IF i \in OfPerson(s, e, Owner[e]) THEN NoRow ELSE s.participants[i]
  BY <1>4
<1> HIDE DEF rows
<1>1. Opened(q, s, e, status) =
        [experiences |-> xs, participants |-> rows, bookings |-> s.bookings]
  BY <1>0 DEF Store
<1>7. xs[e] = FirstRow(e, status) /\ \A x \in Experiences \ {e} : xs[x] = s.experiences[x]
  BY StoreParts
<1> HIDE DEF xs
<1>6. [experiences |-> xs, participants |-> rows, bookings |-> s.bookings] \in Store
  BY <1>2, <1>3, StoreParts DEF Store
<1> QED
  BY <1>1, <1>5, <1>6, <1>7

LEMMA UpdatedParts ==
    ASSUME NEW s \in Store, NEW c \in Calls, c.kind = "update",
           s.experiences[c.experience] # NoRow
    PROVE  LET e == c.experience
               new == [s EXCEPT !.experiences[e] = Updated(@, c)]
           IN /\ new \in Store /\ new.bookings = s.bookings
              /\ new.participants = s.participants
              /\ new.experiences[e] = Updated(s.experiences[e], c)
              /\ \A x \in Experiences \ {e} : new.experiences[x] = s.experiences[x]
              /\ Updated(s.experiences[e], c) \in Experience
<1> DEFINE e == c.experience
           row == Updated(s.experiences[e], c)
           xs == [s.experiences EXCEPT ![e] = row]
<1>1. s.experiences[e] \in Experience /\ e \in Experiences
  BY CallsHaveFields, StoreParts
<1>2. row \in Experience
  BY <1>1, CallsHaveFields, ExperienceConstants DEF Updated, Experience
<1> HIDE DEF row
<1>3. xs \in [Experiences -> Experience \cup {NoRow}]
  BY <1>1, <1>2, StoreParts
<1>4. [s EXCEPT !.experiences[e] = Updated(@, c)] = [s EXCEPT !.experiences = xs]
  BY DEF row, Store
<1>5. xs[e] = row /\ \A x \in Experiences \ {e} : xs[x] = s.experiences[x]
  BY <1>1, StoreParts
<1>6. /\ [s EXCEPT !.experiences = xs] \in Store
      /\ [s EXCEPT !.experiences = xs].bookings = s.bookings
      /\ [s EXCEPT !.experiences = xs].participants = s.participants
      /\ [s EXCEPT !.experiences = xs].experiences = xs
  BY <1>3, WithTable DEF Store
<1> QED
  BY <1>2, <1>4, <1>5, <1>6 DEF row

LEMMA DismissedParts ==
    ASSUME NEW s \in Store, NEW e \in Experiences, s.experiences[e] # NoRow
    PROVE  LET new == Dismissed(s, e)
           IN /\ new \in Store /\ new.bookings = s.bookings
              /\ new.experiences[e] \in Experience
              /\ new.experiences[e].status = "cancelled"
              /\ new.experiences[e].capacity = s.experiences[e].capacity
              /\ new.experiences[e].slot = s.experiences[e].slot
              /\ \A x \in Experiences \ {e} : new.experiences[x] = s.experiences[x]
              /\ \A i \in Ids : new.participants[i] =
                    IF i \in RowsOf(s, e) /\ OccupiesSeat(s.participants[i])
                      THEN [s.participants[i] EXCEPT !.role = "cancelled"]
                      ELSE s.participants[i]
<1> DEFINE row == [s.experiences[e] EXCEPT !.status = "cancelled"]
           xs == [s.experiences EXCEPT ![e] = row]
           rows == [i \in Ids |-> IF i \in RowsOf(s, e) /\ OccupiesSeat(s.participants[i])
                                    THEN [s.participants[i] EXCEPT !.role = "cancelled"]
                                    ELSE s.participants[i]]
<1>1. s.experiences[e] \in Experience
  BY StoreParts
<1>2. row \in Experience
  BY <1>1 DEF Experience, Statuses
<1>3. xs \in [Experiences -> Experience \cup {NoRow}]
  BY <1>2, StoreParts
<1>4. rows \in [Ids -> Participation \cup {NoRow}]
  <2>1. SUFFICES ASSUME NEW i \in Ids
                 PROVE  rows[i] \in Participation \cup {NoRow}
    OBVIOUS
  <2>2. s.participants[i] \in Participation \cup {NoRow}
    BY StoreParts
  <2>3. CASE i \in RowsOf(s, e) /\ OccupiesSeat(s.participants[i])
    <3>1. s.participants[i] \in Participation
      BY <2>2, <2>3 DEF OccupiesSeat
    <3>2. [s.participants[i] EXCEPT !.role = "cancelled"] \in Participation
      BY <3>1 DEF Participation, Roles
    <3> QED
      BY <2>3, <3>2
  <2> QED
    BY <2>2, <2>3
<1>0. Dismissed(s, e) = [s EXCEPT !.experiences[e].status = "cancelled",
                                  !.participants = rows]
  BY DEF Dismissed
<1>6. /\ xs[e] = row /\ \A x \in Experiences \ {e} : xs[x] = s.experiences[x]
      /\ row.status = "cancelled" /\ row.capacity = s.experiences[e].capacity
      /\ row.slot = s.experiences[e].slot
  BY <1>1, StoreParts DEF Experience
<1>7. \A i \in Ids : rows[i] = IF i \in RowsOf(s, e) /\ OccupiesSeat(s.participants[i])
                                    THEN [s.participants[i] EXCEPT !.role = "cancelled"]
                                    ELSE s.participants[i]
  OBVIOUS
<1> HIDE DEF rows
<1>5. Dismissed(s, e) = [experiences |-> xs, participants |-> rows, bookings |-> s.bookings]
  BY <1>0 DEF Store
<1> HIDE DEF xs, row
<1>8. [experiences |-> xs, participants |-> rows, bookings |-> s.bookings] \in Store
  BY <1>3, <1>4, StoreParts DEF Store
<1> QED
  BY <1>2, <1>5, <1>6, <1>7, <1>8

\* A row for whom the call is about, with a booking of theirs, has its name.
LEMMA WithRoleNamed ==
    ASSUME TypeOK, NEW q \in Requests, pc[q] # "idle", NEW s \in Store,
           RowsNamed(call, s.participants),
           NEW role \in Roles, NEW b \in Requests \cup {NoRow},
           b # NoRow => /\ call[b] # NoCall /\ call[b].kind = "join"
                        /\ call[b].experience = call[q].experience
                        /\ call[b].by = Whose(call[q])
    PROVE  /\ RowsNamed(call, WithRole(q, s, call[q].experience, Whose(call[q]), role, b).participants)
           /\ Whose(call[q]) \in Persons
<1> DEFINE e == call[q].experience
           p == Whose(call[q])
           i == IdFor(q, s, e, p)
           row == RowOf(e, p, role, b)
           new == WithRole(q, s, e, p, role, b)
<1>1. call[q] \in Calls /\ call[q] # NoCall
  BY StartedHaveCalls, ExperienceConstants
<1>2. e \in Experiences /\ p \in Persons
  BY <1>1, CallsHaveFields, ExperienceConstants DEF Whose
<1>3. i \in Ids /\ (i \in OfPerson(s, e, p) \/ i = q)
  BY IdForIsAnId
<1> HIDE DEF e, p
<1>4. new.participants[i] = row /\ \A j \in Ids \ {i} : new.participants[j] = s.participants[j]
  BY <1>2, WithRoleWrites
<1> USE DEF e, p
<1>5. RowIsNamed(call, i, row)
  <2>1. CASE i \in OfPerson(s, e, p)
    <3>1. s.participants[i] # NoRow /\ s.participants[i].experience = e /\ s.participants[i].person = p
      BY <2>1 DEF OfPerson, RowsOf
    <3>2. RowIsNamed(call, i, s.participants[i])
      BY <1>3, <3>1 DEF RowsNamed
    <3> QED
      BY <3>1, <3>2, ExperienceConstants DEF RowIsNamed, RowOf
  <2>2. CASE i = q
    <3>1. q \notin Experiences
      BY ExperienceConstants
    <3> QED
      BY <1>1, <2>2, <3>1 DEF RowIsNamed, RowOf
  <2> QED
    BY <1>3, <2>1, <2>2
<1> HIDE DEF i, row, new, e, p
<1>6. RowsNamed(call, new.participants)
  BY <1>3, <1>4, <1>5 DEF RowsNamed
<1> QED
  BY <1>2, <1>6 DEF new, e, p

\* A decision keeps the bookings it has read, and links rows to those only.
Keeps(q, s) ==
    /\ s.bookings = snap[q].bookings
    /\ RowsNamed(call, s.participants)
    /\ \A i \in Ids : s.participants[i] # NoRow /\ s.participants[i].booking # NoRow =>
          \E j \in Ids : /\ snap[q].participants[j] # NoRow
                         /\ snap[q].participants[j].booking = s.participants[i].booking

LEMMA WithRoleKeeps ==
    ASSUME TypeOK, NEW q \in Requests, pc[q] # "idle", Holds(q), NEW role \in Roles,
           NEW b \in Requests \cup {NoRow},
           b # NoRow => \E j \in OfPerson(snap[q], call[q].experience, Whose(call[q])) :
                           snap[q].participants[j].booking = b
    PROVE  LET s == WithRole(q, snap[q], call[q].experience, Whose(call[q]), role, b)
           IN /\ s \in Store /\ Keeps(q, s)
              /\ OfPerson(s, call[q].experience, Whose(call[q])) # {}
<1> DEFINE e == call[q].experience
           p == Whose(call[q])
           i == IdFor(q, snap[q], e, p)
           s == WithRole(q, snap[q], e, p, role, b)
<1>1. call[q] \in Calls /\ e \in Experiences /\ snap[q] \in Store
  BY StartedHaveCalls, CallsHaveFields DEF TypeOK
<1>2. RowsNamed(call, snap[q].participants)
  BY DEF Holds, Named
<1>3. b # NoRow => /\ call[b] # NoCall /\ call[b].kind = "join"
                   /\ call[b].experience = call[q].experience
                   /\ call[b].by = Whose(call[q])
  BY <1>2 DEF RowsNamed, RowIsNamed, OfPerson, RowsOf
<1>4. RowsNamed(call, s.participants) /\ p \in Persons
  BY <1>1, <1>2, <1>3, WithRoleNamed
<1> HIDE DEF e, p
<1>5. /\ s \in Store /\ s.bookings = snap[q].bookings
      /\ s.participants[i] = RowOf(e, p, role, b)
      /\ s.participants[i] \in Participation
      /\ \A j \in Ids \ {i} : s.participants[j] = snap[q].participants[j]
  BY <1>1, <1>4, WithRoleWrites
<1>6. i \in Ids /\ s.participants[i] # NoRow
  BY <1>5, IdForIsAnId, ExperienceConstants
<1> HIDE DEF i, s
<1> USE DEF e, p
<1>7. ASSUME NEW j \in Ids, s.participants[j] # NoRow, s.participants[j].booking # NoRow
      PROVE  \E k \in Ids : /\ snap[q].participants[k] # NoRow
                            /\ snap[q].participants[k].booking = s.participants[j].booking
  <2>1. CASE j = i
    BY <1>5, <1>7, <2>1 DEF OfPerson, RowsOf, RowOf
  <2>2. CASE j # i
    BY <1>5, <1>7, <2>2
  <2> QED
    BY <2>1, <2>2
<1>8. i \in OfPerson(s, e, p)
  BY <1>5, <1>6 DEF OfPerson, RowsOf, RowOf
<1> QED
  BY <1>4, <1>5, <1>7, <1>8 DEF Keeps, s

LEMMA OpenedKeeps ==
    ASSUME TypeOK, NEW q \in Requests, pc[q] # "idle", Holds(q),
           call[q].kind \in {"create", "backfill"}
    PROVE  LET s == Opened(q, snap[q], call[q].experience, call[q].status)
           IN s \in Store /\ Keeps(q, s)
<1> DEFINE e == call[q].experience
           s == Opened(q, snap[q], e, call[q].status)
<1>1. /\ call[q] \in Calls /\ e \in Experiences /\ snap[q] \in Store /\ call[q].status \in Statuses
      /\ call[q] # NoCall /\ q \notin Experiences
  BY StartedHaveCalls, CallsHaveFields, ExperienceConstants DEF TypeOK
<1>2. /\ s \in Store /\ s.bookings = snap[q].bookings
      /\ s.participants[q] = CreatorRow(e)
      /\ \A i \in Ids \ {q} : s.participants[i] \in {NoRow, snap[q].participants[i]}
  <2> DEFINE status == call[q].status
  <2>1. status \in Statuses
    BY <1>1
  <2> HIDE DEF e, status
  <2> QED
    BY <1>1, <2>1, OpenedParts DEF status
<1>3. RowIsNamed(call, q, CreatorRow(e)) /\ CreatorRow(e).booking = NoRow
  BY <1>1, ExperienceConstants DEF RowIsNamed, CreatorRow, Whose
<1> HIDE DEF s
<1>4. RowsNamed(call, s.participants)
  BY <1>2, <1>3 DEF RowsNamed, Holds, Named
<1>5. ASSUME NEW i \in Ids, s.participants[i] # NoRow, s.participants[i].booking # NoRow
      PROVE  \E j \in Ids : /\ snap[q].participants[j] # NoRow
                            /\ snap[q].participants[j].booking = s.participants[i].booking
  BY <1>2, <1>3, <1>5
<1> QED
  BY <1>2, <1>4, <1>5 DEF Keeps, s

LEMMA DismissedKeeps ==
    ASSUME TypeOK, NEW q \in Requests, Holds(q), NEW e \in Experiences,
           snap[q].experiences[e] # NoRow
    PROVE  Dismissed(snap[q], e) \in Store /\ Keeps(q, Dismissed(snap[q], e))
<1> DEFINE s == Dismissed(snap[q], e)
<1>1. snap[q] \in Store /\ snap[q].participants \in [Ids -> Participation \cup {NoRow}]
  BY StoreParts DEF TypeOK
<1>2. /\ s \in Store /\ s.bookings = snap[q].bookings
      /\ \A i \in Ids : s.participants[i] =
            IF i \in RowsOf(snap[q], e) /\ OccupiesSeat(snap[q].participants[i])
              THEN [snap[q].participants[i] EXCEPT !.role = "cancelled"]
              ELSE snap[q].participants[i]
  BY <1>1, DismissedParts
<1> HIDE DEF s
<1>3. ASSUME NEW i \in Ids, s.participants[i] # NoRow
      PROVE  /\ snap[q].participants[i] # NoRow
             /\ s.participants[i].experience = snap[q].participants[i].experience
             /\ s.participants[i].person = snap[q].participants[i].person
             /\ s.participants[i].booking = snap[q].participants[i].booking
  <2>1. CASE i \in RowsOf(snap[q], e) /\ OccupiesSeat(snap[q].participants[i])
    <3>1. snap[q].participants[i] \in Participation
      BY <1>1, <2>1 DEF OccupiesSeat
    <3> QED
      BY <1>2, <2>1, <3>1, ExperienceConstants DEF Participation
  <2>2. CASE ~(i \in RowsOf(snap[q], e) /\ OccupiesSeat(snap[q].participants[i]))
    BY <1>2, <1>3, <2>2
  <2> QED
    BY <2>1, <2>2
<1>4. RowsNamed(call, s.participants)
  BY <1>3 DEF RowsNamed, Holds, Named, RowIsNamed
<1> QED
  BY <1>2, <1>3, <1>4 DEF Keeps, s

-----------------------------------------------------------------------------
(* What a request may do, by the way it changes the state.                 *)

\* A decision to write, or to see to the bookings first.
Decides(q) == \E place \in {"booking", "storing"}, s \in Store, ks \in SUBSET Requests :
    /\ Advance(q, place, s, ks) /\ Keeps(q, s)
    /\ place = "booking" => /\ call[q].kind \in {"join", "leave", "cancel"}
                            /\ call[q].kind = "join" => s.experiences[call[q].experience] # NoRow
    /\ place = "storing" /\ call[q].kind = "join" =>
          OfPerson(s, call[q].experience, call[q].by) # {}

Refuses(q) == \E answer \in Answers :
    End(q, answer) /\ db' = db /\ (answer = "ok" => call[q].kind # "join")

LoadsAgain(q) ==
    /\ call[q].kind = "backfill"
    /\ pc' = [pc EXCEPT ![q] = IF @ = "loading" THEN "checking" ELSE "adding"]
    /\ snap' = [snap EXCEPT ![q] = NoStore]
    /\ loaded' = [loaded EXCEPT ![q] = {}]
    /\ UNCHANGED <<db, call, work, failed>>

LEMMA RejectRefuses == \A q \in Requests : Reject(q) => Refuses(q)
  BY DEF Reject, Refuses, Answers

LEMMA WhoseIsBy ==
    ASSUME NEW c, c.kind \in {"join", "leave", "cancel", "update"}
    PROVE  Whose(c) = c.by
  BY DEF Whose

LEMMA CreateDecides ==
    ASSUME TypeOK, NEW q \in Requests, Holds(q), DecideCreate(q)
    PROVE  Decides(q)
<1> DEFINE s == Opened(q, snap[q], call[q].experience, call[q].status)
<1>1. pc[q] # "idle" /\ call[q].kind = "create" /\ Advance(q, "storing", s, {})
  BY DEF DecideCreate, Ready, Loading
<1>2. s \in Store /\ Keeps(q, s)
  BY <1>1, OpenedKeeps
<1> HIDE DEF s
<1> QED
  BY <1>1, <1>2 DEF Decides

LEMMA BackfillDecides ==
    ASSUME TypeOK, NEW q \in Requests, Holds(q), DecideBackfill(q)
    PROVE  Decides(q) \/ Refuses(q) \/ LoadsAgain(q)
<1> DEFINE s == Opened(q, snap[q], call[q].experience, call[q].status)
<1>1. pc[q] # "idle" /\ call[q].kind = "backfill"
  BY DEF DecideBackfill, Ready, Loading
<1>2. CASE pc[q] = "adding"
  <2>1. Advance(q, "storing", s, {})
    BY <1>2 DEF DecideBackfill
  <2>2. s \in Store /\ Keeps(q, s)
    BY <1>1, OpenedKeeps
  <2> HIDE DEF s
  <2> QED
    BY <1>1, <2>1, <2>2 DEF Decides
<1>3. CASE pc[q] # "adding" /\ Moved(snap[q], call[q].experience)
  BY <1>1, <1>3 DEF DecideBackfill, Refuses, Answers
<1>4. CASE pc[q] # "adding" /\ ~Moved(snap[q], call[q].experience)
  BY <1>1, <1>4 DEF DecideBackfill, LoadsAgain
<1> QED
  BY <1>2, <1>3, <1>4

LEMMA UpdateDecides ==
    ASSUME TypeOK, NEW q \in Requests, Holds(q), DecideUpdate(q)
    PROVE  Decides(q) \/ Refuses(q)
<1> DEFINE c == call[q]
           s == [snap[q] EXCEPT !.experiences[c.experience] = Updated(@, c)]
<1>1. pc[q] # "idle" /\ c.kind = "update" /\ c \in Calls /\ snap[q] \in Store
  BY StartedHaveCalls DEF DecideUpdate, Ready, Loading, TypeOK
<1>2. CASE MayManage(snap[q], c)
  <2>1. Advance(q, "storing", s, {})
    BY <1>2 DEF DecideUpdate
  <2>2. s \in Store /\ s.bookings = snap[q].bookings /\ s.participants = snap[q].participants
    BY <1>1, <1>2, UpdatedParts DEF MayManage
  <2> HIDE DEF s
  <2>3. Keeps(q, s)
    BY <2>2 DEF Keeps, Holds, Named
  <2> QED
    BY <1>1, <2>1, <2>2, <2>3 DEF Decides
<1>3. CASE ~MayManage(snap[q], c)
  BY <1>3, RejectRefuses DEF DecideUpdate
<1> QED
  BY <1>2, <1>3

LEMMA JoinDecides ==
    ASSUME TypeOK, NEW q \in Requests, Holds(q), DecideJoin(q)
    PROVE  Decides(q) \/ Refuses(q)
<1> DEFINE c == call[q]
           s == WithRole(q, snap[q], c.experience, c.by, "waitlist", NoRow)
<1>1. pc[q] # "idle" /\ c.kind = "join" /\ snap[q] \in Store /\ c.by = Whose(c)
  BY WhoseIsBy DEF DecideJoin, Ready, Loading, TypeOK
<1>2. CASE ~IsPublished(snap[q], c.experience) \/ Seated(snap[q], c.experience, c.by)
  BY <1>2, RejectRefuses DEF DecideJoin
<1>3. CASE /\ ~(~IsPublished(snap[q], c.experience) \/ Seated(snap[q], c.experience, c.by))
           /\ IsFull(snap[q], c.experience)
  <2>1. Advance(q, "storing", s, {})
    BY <1>3 DEF DecideJoin
  <2>2. s \in Store /\ Keeps(q, s) /\ OfPerson(s, c.experience, c.by) # {}
    BY <1>1, WithRoleKeeps DEF Roles
  <2> HIDE DEF s
  <2> QED
    BY <1>1, <2>1, <2>2 DEF Decides
<1>4. CASE /\ ~(~IsPublished(snap[q], c.experience) \/ Seated(snap[q], c.experience, c.by))
           /\ ~IsFull(snap[q], c.experience)
  <2>1. Advance(q, "booking", snap[q], {q})
    BY <1>4 DEF DecideJoin
  <2>2. Keeps(q, snap[q]) /\ snap[q].experiences[c.experience] # NoRow
    BY <1>4 DEF Keeps, Holds, Named, IsPublished
  <2> QED
    BY <1>1, <2>1, <2>2 DEF Decides
<1> QED
  BY <1>2, <1>3, <1>4

LEMMA InviteDecides ==
    ASSUME TypeOK, NEW q \in Requests, Holds(q), DecideInvite(q)
    PROVE  Decides(q) \/ Refuses(q)
<1> DEFINE c == call[q]
           s == WithRole(q, snap[q], c.experience, c.guest, "invited", NoRow)
<1>1. pc[q] # "idle" /\ c.kind = "invite" /\ c.guest = Whose(c)
  BY DEF DecideInvite, Ready, Loading, Whose
<1>2. Reject(q) \/ Advance(q, "storing", s, {})
  BY DEF DecideInvite
<1>3. s \in Store /\ Keeps(q, s)
  BY <1>1, WithRoleKeeps DEF Roles
<1> HIDE DEF s
<1> QED
  BY <1>1, <1>2, <1>3, RejectRefuses DEF Decides

LEMMA LeaveDecides ==
    ASSUME TypeOK, NEW q \in Requests, Holds(q), DecideLeave(q)
    PROVE  Decides(q) \/ Refuses(q)
<1> DEFINE c == call[q]
           mine == OfPerson(snap[q], c.experience, c.by)
           row == snap[q].participants[CHOOSE i \in mine : TRUE]
           place == IF row.booking = NoRow THEN "storing" ELSE "booking"
           s == WithRole(q, snap[q], c.experience, c.by, "cancelled", row.booking)
           ks == {row.booking} \ {NoRow}
<1>1. pc[q] # "idle" /\ c.kind = "leave" /\ c.by = Whose(c)
  BY WhoseIsBy DEF DecideLeave, Ready, Loading
<1>2. Reject(q) \/ (mine # {} /\ Advance(q, place, s, ks))
  BY DEF DecideLeave
<1>3. CASE mine # {} /\ Advance(q, place, s, ks)
  <2>1. PICK j \in mine : row = snap[q].participants[j]
    BY <1>3
  <2>2. j \in Ids /\ snap[q].participants[j] # NoRow
    BY DEF OfPerson, RowsOf
  <2>3. row.booking \in Requests \cup {NoRow}
    BY <2>1, <2>2, StoreParts DEF TypeOK, Participation
  <2>4. s \in Store /\ Keeps(q, s)
    BY <1>1, <2>1, <2>3, WithRoleKeeps DEF Roles
  <2>5. ks \in SUBSET Requests /\ place \in {"booking", "storing"}
    BY <2>3
  <2> HIDE DEF s, ks, place
  <2> QED
    BY <1>1, <1>3, <2>4, <2>5 DEF Decides
<1> QED
  BY <1>2, <1>3, RejectRefuses

LEMMA LinkedAreRequests ==
    ASSUME NEW s \in Store, NEW e
    PROVE  Linked(s, e) \subseteq Requests
  BY StoreParts DEF Linked, RowsOf, Participation

LEMMA CancelDecides ==
    ASSUME TypeOK, NEW q \in Requests, Holds(q), DecideCancel(q)
    PROVE  Decides(q) \/ Refuses(q)
<1> DEFINE c == call[q]
           s == Dismissed(snap[q], c.experience)
           ks == Linked(snap[q], c.experience)
           place == IF ks = {} THEN "storing" ELSE "booking"
<1>1. pc[q] # "idle" /\ c.kind = "cancel" /\ c.experience \in Experiences
  BY StartedHaveCalls, CallsHaveFields DEF DecideCancel, Ready, Loading
<1>2. CASE MayManage(snap[q], c)
  <2>1. Advance(q, place, s, ks)
    BY <1>2 DEF DecideCancel
  <2>2. s \in Store /\ Keeps(q, s)
    BY <1>1, <1>2, DismissedKeeps DEF MayManage
  <2>3. ks \in SUBSET Requests /\ place \in {"booking", "storing"}
    BY LinkedAreRequests DEF TypeOK
  <2> HIDE DEF s, ks, place
  <2> QED
    BY <1>1, <2>1, <2>2, <2>3 DEF Decides
<1>3. CASE ~MayManage(snap[q], c)
  BY <1>3, RejectRefuses DEF DecideCancel
<1> QED
  BY <1>2, <1>3

\* Once the places are counted, the join books one and lists its person as a
\* participant, or lists them as waiting.
Books(q) == \E s \in Store :
    /\ Advance(q, "reserving", s, {})
    /\ RowsNamed(call, s.participants)
    /\ s.bookings[q] # NoRow
    /\ s.bookings[q].by = call[q].by /\ s.bookings[q].experience = call[q].experience
    /\ \A k \in Requests \ {q} : s.bookings[k] = snap[q].bookings[k]
    /\ \E i \in OfPerson(s, call[q].experience, call[q].by) :
          s.participants[i].role = "participant" /\ s.participants[i].booking = q
    /\ \A i \in Ids : s.participants[i] # NoRow /\ s.participants[i].booking \notin {NoRow, q} =>
          snap[q].participants[i] # NoRow /\ snap[q].participants[i].booking = s.participants[i].booking

Waits(q) == \E s \in Store :
    /\ Advance(q, "storing", s, {})
    /\ RowsNamed(call, s.participants)
    /\ s.bookings = NoStore.bookings
    /\ OfPerson(s, call[q].experience, call[q].by) # {}
    /\ \A i \in Ids : s.participants[i] # NoRow /\ s.participants[i].booking # NoRow =>
          snap[q].participants[i] # NoRow /\ snap[q].participants[i].booking = s.participants[i].booking

LEMMA CountBooksOrWaits ==
    ASSUME TypeOK, NEW q \in Requests, Holds(q), Phase(q), CountPlaces(q)
    PROVE  Books(q) \/ Waits(q)
<1> DEFINE e == call[q].experience
           p == call[q].by
           read == snap[q]
           i == IdFor(q, read, e, p)
           w == read.experiences[e].slot
           row == [experience |-> e, by |-> p, slot |-> w, active |-> TRUE]
           joined == WithRole(q, read, e, p, "participant", q)
           waiting == WithRole(q, read, e, p, "waitlist", NoRow)
<1>1. /\ pc[q] # "idle" /\ call[q].kind = "join" /\ p = Whose(call[q])
      /\ call[q] \in Calls /\ call[q] # NoCall
      /\ e \in Experiences /\ p \in Persons /\ read \in Store
      /\ read.experiences[e] # NoRow
  BY StartedHaveCalls, CallsHaveFields, WhoseIsBy, ExperienceConstants
  DEF CountPlaces, Phase, TypeOK
<1>2. row \in Booking /\ row # NoRow
  <2>1. read.experiences[e] \in Experience
    BY <1>1, StoreParts
  <2>2. row \in Booking
    BY <1>1, <2>1 DEF Booking, Experience
  <2> QED
    BY <2>2, ExperienceConstants
<1>3. \/ Advance(q, "reserving", [joined EXCEPT !.bookings[q] = row], {})
      \/ Advance(q, "storing", [waiting EXCEPT !.bookings = NoStore.bookings], {})
  BY DEF CountPlaces
<1>4. i \in Ids
  BY IdForIsAnId
<1>5. RowsNamed(call, read.participants)
  BY DEF Holds, Named
<1>6. /\ RowsNamed(call, joined.participants)
      /\ RowsNamed(call, waiting.participants)
  BY <1>1, <1>5, WithRoleNamed DEF Roles
<1>7. row.by = p /\ row.experience = e
  OBVIOUS
<1> HIDE DEF e, p, w, row, read
<1>8. /\ joined \in Store /\ joined.bookings = read.bookings
      /\ joined.participants[i] = RowOf(e, p, "participant", q)
      /\ joined.participants[i] \in Participation
      /\ \A j \in Ids \ {i} : joined.participants[j] = read.participants[j]
  BY <1>1, WithRoleWrites DEF Roles
<1>9. /\ waiting \in Store
      /\ waiting.participants[i] = RowOf(e, p, "waitlist", NoRow)
      /\ waiting.participants[i] \in Participation
      /\ \A j \in Ids \ {i} : waiting.participants[j] = read.participants[j]
  BY <1>1, WithRoleWrites DEF Roles
<1>10. joined.participants[i] # NoRow /\ waiting.participants[i] # NoRow
  BY <1>8, <1>9, ExperienceConstants
<1> HIDE DEF i, joined, waiting
<1>11. i \in OfPerson(joined, e, p) /\ i \in OfPerson(waiting, e, p)
  BY <1>4, <1>8, <1>9, <1>10 DEF OfPerson, RowsOf, RowOf
<1>12. CASE Advance(q, "reserving", [joined EXCEPT !.bookings[q] = row], {})
  <2> DEFINE s == [joined EXCEPT !.bookings[q] = row]
             rows == [read.bookings EXCEPT ![q] = row]
  <2>1. s = [joined EXCEPT !.bookings = rows]
    BY <1>8 DEF Store
  <2>2. rows \in [Requests -> Booking \cup {NoRow}]
    BY <1>1, <1>2, StoreParts
  <2>3. s \in Store
    BY <1>8, <2>1, <2>2, WithTable
  <2>4. s.participants = joined.participants /\ s.bookings = rows
    BY <1>8, <2>1 DEF Store
  <2>5. rows[q] = row /\ \A k \in Requests \ {q} : rows[k] = read.bookings[k]
    BY <1>1, StoreParts
  <2>6. i \in OfPerson(s, e, p)
    BY <1>11, <2>4 DEF OfPerson, RowsOf
  <2>7. ASSUME NEW j \in Ids, s.participants[j] # NoRow, s.participants[j].booking \notin {NoRow, q}
        PROVE  /\ read.participants[j] # NoRow
               /\ read.participants[j].booking = s.participants[j].booking
    BY <1>8, <2>4, <2>7 DEF RowOf
  <2>8. s.participants[i].role = "participant" /\ s.participants[i].booking = q
    BY <1>8, <2>4 DEF RowOf
  <2>9. Advance(q, "reserving", s, {}) /\ RowsNamed(call, s.participants)
    BY <1>6, <1>12, <2>4
  <2> HIDE DEF s, rows
  <2> QED
    BY <1>2, <1>7, <2>3, <2>4, <2>5, <2>6, <2>7, <2>8, <2>9 DEF Books, read, e, p
<1>13. CASE Advance(q, "storing", [waiting EXCEPT !.bookings = NoStore.bookings], {})
  <2> DEFINE s == [waiting EXCEPT !.bookings = NoStore.bookings]
  <2>1. s \in Store
    BY <1>9, NoStoreIsAStore, StoreParts, WithTable
  <2>2. s.participants = waiting.participants /\ s.bookings = NoStore.bookings
    BY <1>9 DEF Store
  <2>3. i \in OfPerson(s, e, p)
    BY <1>11, <2>2 DEF OfPerson, RowsOf
  <2>4. ASSUME NEW j \in Ids, s.participants[j] # NoRow, s.participants[j].booking # NoRow
        PROVE  /\ read.participants[j] # NoRow
               /\ read.participants[j].booking = s.participants[j].booking
    BY <1>9, <2>2, <2>4 DEF RowOf
  <2>5. Advance(q, "storing", s, {}) /\ RowsNamed(call, s.participants)
    BY <1>6, <1>13, <2>2
  <2> HIDE DEF s
  <2> QED
    BY <2>1, <2>2, <2>3, <2>4, <2>5 DEF Waits, read, e, p
<1> QED
  BY <1>3, <1>12, <1>13

\* What a request may do next, by its effect.
LEMMA EffectsOfActs ==
    ASSUME TypeOK, NEW q \in Requests, Holds(q), Phase(q), Acts(q)
    PROVE  \/ \E c \in Calls : Start(q, c)
           \/ \E t \in Tables \cup {"bookings"} : \E rows \in {db[t], NoStore[t]} :
                 Reads(q, t) /\ Selects(q, t, rows)
           \/ pc[q] # "idle" /\ Refuses(q)
           \/ pc[q] \in Loading /\ Decides(q)
           \/ pc[q] \in Loading /\ LoadsAgain(q)
           \/ pc[q] = "booking" /\ call[q].kind = "join" /\ (Books(q) \/ Waits(q))
           \/ Reserve(q)
           \/ \E k \in Requests : Release(q, k)
           \/ FailBooking(q)
           \/ StoreExperiences(q)
           \/ StoreParticipants(q)
<1>1. ASSUME NEW t \in Tables \cup {"bookings"}, Read(q, t)
      PROVE  Reads(q, t) /\ Selects(q, t, db[t])
  BY <1>1 DEF Read, Selects
<1>2. ASSUME NEW t \in Tables \cup {"bookings"}, FailRead(q, t)
      PROVE  (pc[q] # "idle" /\ Refuses(q)) \/ (Reads(q, t) /\ Selects(q, t, NoStore[t]))
  <2>1. CASE End(q, "error") /\ UNCHANGED db
    BY <1>2, <2>1 DEF FailRead, Refuses, Answers, Reads, Loading
  <2>2. CASE /\ snap' = [snap EXCEPT ![q] = [@ EXCEPT ![t] = NoStore[t]]]
             /\ loaded' = [loaded EXCEPT ![q] = @ \cup {t}]
             /\ UNCHANGED <<db, pc, call, work, failed>>
    BY <1>2, <2>2 DEF FailRead, Selects
  <2> QED
    BY <1>2, <2>1, <2>2 DEF FailRead
<1>3. ASSUME \/ DecideCreate(q) \/ DecideUpdate(q) \/ DecideJoin(q)
             \/ DecideInvite(q) \/ DecideLeave(q) \/ DecideCancel(q) \/ DecideBackfill(q)
      PROVE  pc[q] \in Loading /\ (Decides(q) \/ Refuses(q) \/ LoadsAgain(q))
  <2>1. pc[q] \in Loading
    BY <1>3 DEF DecideCreate, DecideUpdate, DecideJoin, DecideInvite, DecideLeave,
                DecideCancel, DecideBackfill, Ready
  <2> QED
    BY <1>3, <2>1, CreateDecides, UpdateDecides, JoinDecides, InviteDecides, LeaveDecides,
       CancelDecides, BackfillDecides
<1>4. ASSUME CountPlaces(q)
      PROVE  pc[q] = "booking" /\ call[q].kind = "join" /\ (Books(q) \/ Waits(q))
  <2>1. pc[q] = "booking" /\ call[q].kind = "join"
    BY <1>4 DEF CountPlaces
  <2> QED
    BY <1>4, <2>1, CountBooksOrWaits
<1>5. ASSUME Crash(q)
      PROVE  pc[q] # "idle" /\ Refuses(q)
  BY <1>5 DEF Crash, InFlight, Loading, Refuses, Answers
<1>6. "idle" \notin Loading
  BY DEF Loading
<1> QED
  BY <1>1, <1>2, <1>3, <1>4, <1>5, <1>6 DEF Acts

-----------------------------------------------------------------------------
(* The tables.                                                             *)

\* Nothing is removed from the tables, calls stay, and a booking is made by its join.
Grows(q) ==
    /\ \A k \in Requests : call[k] # NoCall => call'[k] = call[k]
    /\ \A e \in Experiences : db.experiences[e] # NoRow => db'.experiences[e] # NoRow
    /\ \A k \in Requests : db.bookings[k] # NoRow => db'.bookings[k] # NoRow
    /\ \A k \in Requests : db'.bookings[k] # NoRow =>
          db.bookings[k] # NoRow \/ (k = q /\ pc[q] = "reserving")
    /\ \A i \in Ids : db.participants[i] # NoRow => db'.participants[i] # NoRow

LEMMA NamesStay ==
    ASSUME NEW calls, NEW later, \A k \in Requests : calls[k] # NoCall => later[k] = calls[k]
    PROVE  /\ \A rows \in [Ids -> Participation \cup {NoRow}] :
                 RowsNamed(calls, rows) => RowsNamed(later, rows)
           /\ \A rows : BookingsNamed(calls, rows) => BookingsNamed(later, rows)
<1>1. ASSUME NEW rows \in [Ids -> Participation \cup {NoRow}], RowsNamed(calls, rows)
      PROVE  RowsNamed(later, rows)
  <2>1. SUFFICES ASSUME NEW i \in Ids, rows[i] # NoRow
                 PROVE  RowIsNamed(later, i, rows[i])
    BY DEF RowsNamed
  <2>2. RowIsNamed(calls, i, rows[i])
    BY <1>1, <2>1 DEF RowsNamed
  <2>3. calls[i] # NoCall /\ i \in Requests => later[i] = calls[i]
    OBVIOUS
  <2>4. rows[i].booking \in Requests \cup {NoRow}
    BY <2>1 DEF Participation
  <2> QED
    BY <2>2, <2>4 DEF RowIsNamed
<1>2. ASSUME NEW rows, BookingsNamed(calls, rows)
      PROVE  BookingsNamed(later, rows)
  BY <1>2 DEF BookingsNamed, BookingIsNamed
<1> QED
  BY <1>1, <1>2

Tidy == Named(call, db) /\ Referring /\ OneRowEach

LEMMA SameTables ==
    ASSUME TypeOK, NEW q \in Requests, Tidy, db' = db,
           \A k \in Requests : call[k] # NoCall => call'[k] = call[k]
    PROVE  Grows(q) /\ Tidy'
<1>1. db.participants \in [Ids -> Participation \cup {NoRow}]
  BY StoreParts DEF TypeOK
<1>2. RowsNamed(call', db.participants) /\ BookingsNamed(call', db.bookings)
  BY <1>1, NamesStay DEF Tidy, Named
<1>3. Named(call', db')
  BY <1>2 DEF Named
<1>4. Referring' /\ OneRowEach'
  BY DEF Tidy, Referring, OneRowEach
<1>5. Grows(q)
  BY DEF Grows
<1> QED
  BY <1>3, <1>4, <1>5 DEF Tidy

\* A statement on the bookings.
LEMMA NewBookings ==
    ASSUME TypeOK, NEW q \in Requests, Tidy, Holds(q), NEW rows \in [Requests -> Booking \cup {NoRow}],
           \A k \in Requests : rows[k] # NoRow => /\ snap[q].bookings[k] # NoRow
                                                  /\ rows[k].by = snap[q].bookings[k].by
                                                  /\ rows[k].experience = snap[q].bookings[k].experience,
           call' = call, db' = [db EXCEPT !.bookings = Upsert(@, rows)]
    PROVE  Grows(q) /\ Tidy'
<1>1. /\ db'.experiences = db.experiences /\ db'.participants = db.participants
      /\ \A k \in Requests : db'.bookings[k] = IF rows[k] # NoRow THEN rows[k] ELSE db.bookings[k]
  BY BookingsWithRows
<1>2. Grows(q)
  BY <1>1 DEF Grows, Holds, Kept
<1>3. BookingsNamed(call, db'.bookings)
  BY <1>1 DEF BookingsNamed, BookingIsNamed, Holds, Tidy, Named
<1>4. Named(call', db')
  BY <1>1, <1>3 DEF Named, Tidy
<1>5. Referring' /\ OneRowEach'
  <2>1. Referring'
    <3>1. SUFFICES ASSUME NEW i \in Ids, db.participants[i] # NoRow
                   PROVE  /\ db.participants[i].role \in StorableRoles
                          /\ db.experiences[db.participants[i].experience] # NoRow
                          /\ db.participants[i].booking # NoRow =>
                                db'.bookings[db.participants[i].booking] # NoRow
      BY <1>1 DEF Referring
    <3>2. db.participants[i].booking \in Requests \cup {NoRow}
      BY <3>1, StoreParts DEF TypeOK, Participation
    <3> QED
      BY <1>2, <3>1, <3>2 DEF Grows, Tidy, Referring
  <2>2. OneRowEach'
    BY <1>1 DEF OneRowEach, Tidy
  <2> QED
    BY <2>1, <2>2
<1> QED
  BY <1>2, <1>4, <1>5 DEF Tidy

LEMMA NewExperiences ==
    ASSUME TypeOK, NEW q \in Requests, Tidy, StoreExperiences(q)
    PROVE  Grows(q) /\ Tidy'
<1>1. /\ call' = call /\ db'.participants = db.participants /\ db'.bookings = db.bookings
      /\ \/ db' = db
         \/ \A x \in Experiences : db'.experiences[x] =
               IF snap[q].experiences[x] # NoRow THEN snap[q].experiences[x]
               ELSE db.experiences[x]
  BY StoreExperiencesEffect
<1>2. Grows(q)
  BY <1>1 DEF Grows
<1>3. Named(call', db')
  BY <1>1 DEF Named, Tidy
<1>4. Referring'
  <2>1. SUFFICES ASSUME NEW i \in Ids, db.participants[i] # NoRow
                 PROVE  /\ db.participants[i].role \in StorableRoles
                        /\ db'.experiences[db.participants[i].experience] # NoRow
                        /\ db.participants[i].booking # NoRow =>
                              db.bookings[db.participants[i].booking] # NoRow
    BY <1>1 DEF Referring
  <2>2. db.participants[i].experience \in Experiences
    BY <2>1, StoreParts DEF TypeOK, Participation
  <2> QED
    BY <1>2, <2>1, <2>2 DEF Grows, Tidy, Referring
<1>5. OneRowEach'
  BY <1>1 DEF OneRowEach, Tidy
<1> QED
  BY <1>2, <1>3, <1>4, <1>5 DEF Tidy

\* Rows are stored only when the constraints allow them.
LEMMA NewParticipants ==
    ASSUME TypeOK, NEW q \in Requests, Tidy, Holds(q),
           Admissible(Upsert(db.participants, snap[q].participants)),
           db' = [db EXCEPT !.participants = Upsert(db.participants, snap[q].participants)],
           call' = call
    PROVE  Grows(q) /\ Tidy' /\ db' \in Store
           /\ \A i \in Ids : db'.participants[i] =
                 IF snap[q].participants[i] # NoRow THEN snap[q].participants[i]
                 ELSE db.participants[i]
<1> DEFINE rows == Upsert(db.participants, snap[q].participants)
<1>1. /\ db.participants \in [Ids -> Participation \cup {NoRow}]
      /\ snap[q].participants \in [Ids -> Participation \cup {NoRow}]
  BY StoreParts DEF TypeOK
<1>2. rows \in [Ids -> Participation \cup {NoRow}]
  BY <1>1, UpsertKeepsTable
<1>3. \A i \in Ids : rows[i] = IF snap[q].participants[i] # NoRow THEN snap[q].participants[i]
                               ELSE db.participants[i]
  BY <1>1 DEF Upsert
<1>4. Admissible(rows) /\ db' = [db EXCEPT !.participants = rows]
  OBVIOUS
<1> HIDE DEF rows
<1>5. /\ db' \in Store /\ db'.experiences = db.experiences /\ db'.bookings = db.bookings
      /\ db'.participants = rows
  BY <1>2, <1>4, WithTable DEF TypeOK, Store
<1>6. Grows(q)
  BY <1>3, <1>5 DEF Grows
<1>7. Named(call', db')
  BY <1>3, <1>5 DEF Named, RowsNamed, Tidy, Holds
<1>8. Referring'
  BY <1>4, <1>5 DEF Admissible, Referring
<1>9. OneRowEach'
  <2>1. SUFFICES ASSUME NEW i \in Ids, NEW j \in Ids, rows[i] # NoRow, rows[j] # NoRow,
                        rows[i].experience = rows[j].experience,
                        rows[i].person = rows[j].person, i # j
                 PROVE  FALSE
    BY <1>5 DEF OneRowEach
  <2>2. <<rows[i].experience, rows[i].person>> # <<rows[j].experience, rows[j].person>>
    BY <1>4, <2>1 DEF Admissible
  <2> QED
    BY <2>1, <2>2
<1> QED
  BY <1>3, <1>5, <1>6, <1>7, <1>8, <1>9 DEF Tidy

LEMMA ReservedIsWritten ==
    ASSUME TypeOK, NEW q \in Requests, Tidy, Holds(q), call' = call,
           db' = [db EXCEPT !.bookings = Upsert(@, snap[q].bookings)]
    PROVE  db' \in Store /\ Grows(q) /\ Tidy'
<1>1. snap[q].bookings \in [Requests -> Booking \cup {NoRow}]
  BY StoreParts DEF TypeOK
<1>2. db' \in Store
  BY <1>1, BookingsWithRows
<1>3. Grows(q) /\ Tidy'
  BY <1>1, NewBookings
<1> QED
  BY <1>2, <1>3

LEMMA CancelledIsWritten ==
    ASSUME TypeOK, NEW q \in Requests, Tidy, Holds(q), call' = call, NEW k \in Requests,
           snap[q].bookings[k] # NoRow,
           db' = [db EXCEPT !.bookings = Upsert(@, Cancelled(snap[q].bookings, k))]
    PROVE  db' \in Store /\ Grows(q) /\ Tidy'
<1> DEFINE rows == Cancelled(snap[q].bookings, k)
<1>1. /\ rows \in [Requests -> Booking \cup {NoRow}]
      /\ \A j \in Requests \ {k} : rows[j] = snap[q].bookings[j]
      /\ rows[k].by = snap[q].bookings[k].by
      /\ rows[k].experience = snap[q].bookings[k].experience
  BY CancelledIsATable
<1>2. db' = [db EXCEPT !.bookings = Upsert(@, rows)]
  OBVIOUS
<1>3. \A j \in Requests : rows[j] # NoRow => /\ snap[q].bookings[j] # NoRow
                                             /\ rows[j].by = snap[q].bookings[j].by
                                             /\ rows[j].experience = snap[q].bookings[j].experience
  BY <1>1
<1> HIDE DEF rows
<1>4. db' \in Store
  BY <1>1, <1>2, BookingsWithRows
<1>5. Grows(q) /\ Tidy'
  BY <1>1, <1>2, <1>3, NewBookings
<1> QED
  BY <1>4, <1>5

-----------------------------------------------------------------------------
(* The requests.                                                           *)

Fine(q) == Holds(q) /\ Phase(q) /\ Listed(q)

Advanced(q) == TypeOK' /\ OthersRest(q) /\ Grows(q) /\ Tidy'

\* Rows keep their experience and their person.
LEMMA PeopleStay ==
    ASSUME Tidy, NEW q \in Requests, Grows(q), Tidy'
    PROVE  /\ \A i \in Ids : db.participants[i] # NoRow =>
                 /\ db'.participants[i] # NoRow
                 /\ db'.participants[i].experience = db.participants[i].experience
                 /\ db'.participants[i].person = db.participants[i].person
           /\ \A e, p : OfPerson(db, e, p) \subseteq OfPerson(db', e, p)
<1>1. ASSUME NEW i \in Ids, db.participants[i] # NoRow
      PROVE  /\ db'.participants[i] # NoRow
             /\ db'.participants[i].experience = db.participants[i].experience
             /\ db'.participants[i].person = db.participants[i].person
  <2>1. db'.participants[i] # NoRow
    BY <1>1 DEF Grows
  <2>2. RowIsNamed(call, i, db.participants[i]) /\ RowIsNamed(call', i, db'.participants[i])
    BY <1>1, <2>1 DEF Tidy, Named, RowsNamed
  <2>3. CASE i \in Experiences
    BY <2>1, <2>2, <2>3 DEF RowIsNamed
  <2>4. CASE i \in Requests
    <3>1. call'[i] = call[i]
      BY <2>2, <2>4 DEF RowIsNamed, Grows
    <3> QED
      BY <2>1, <2>2, <2>4, <3>1 DEF RowIsNamed
  <2> QED
    BY <2>3, <2>4 DEF Ids
<1> QED
  BY <1>1 DEF OfPerson, RowsOf

LEMMA OthersStayFine ==
    ASSUME TypeOK, Tidy, NEW q \in Requests, Advanced(q), NEW p \in Requests \ {q}, Fine(p)
    PROVE  Fine(p)'
<1>1. /\ pc'[p] = pc[p] /\ call'[p] = call[p] /\ snap'[p] = snap[p] /\ loaded'[p] = loaded[p]
  BY DEF Advanced, OthersRest
<1>2. snap[p] \in Store /\ snap[p].participants \in [Ids -> Participation \cup {NoRow}]
  BY StoreParts DEF TypeOK
<1>3. Holds(p)'
  <2>1. Named(call', snap'[p])
    BY <1>1, <1>2, NamesStay DEF Named, Fine, Holds, Advanced, Grows
  <2>2. \A k \in Requests : Kept(p, k) => Kept(p, k)'
    BY <1>1 DEF Kept, Advanced, Grows
  <2>3. ASSUME NEW i \in Ids, snap[p].participants[i] # NoRow, snap[p].participants[i].booking # NoRow
        PROVE  snap[p].participants[i].booking \in Requests
    BY <1>2, <2>3 DEF Participation
  <2> QED
    BY <1>1, <2>1, <2>2, <2>3 DEF Fine, Holds
<1>4. Phase(p)'
  BY <1>1 DEF Fine, Phase, Advanced, Grows
<1>5. Listed(p)'
  <2>1. pc[p] = "ok" /\ call[p].kind = "join" => OfPerson(db', call[p].experience, call[p].by) # {}
    BY PeopleStay DEF Fine, Listed, Advanced
  <2>2. OfPerson(snap'[p], call'[p].experience, call'[p].by)
          = OfPerson(snap[p], call[p].experience, call[p].by)
    BY <1>1
  <2>3. db'.bookings[p] # NoRow => db.bookings[p] # NoRow
    BY DEF Advanced, Grows
  <2> QED
    BY <1>1, <2>1, <2>2, <2>3 DEF Fine, Listed
<1> QED
  BY <1>3, <1>4, <1>5 DEF Fine

\* A request that has nothing in hand.
LEMMA EmptyHanded ==
    ASSUME TypeOK, Tidy, NEW q \in Requests, Advanced(q), Fine(q), snap'[q] = NoStore,
           loaded'[q] = {}, call'[q] = call[q],
           \/ pc'[q] \in Answers
           \/ pc[q] \in Loading /\ pc'[q] \in {"checking", "adding"} /\ call[q].kind = "backfill",
           pc'[q] = "ok" /\ call[q].kind = "join" =>
               OfPerson(db', call[q].experience, call[q].by) # {}
    PROVE  Fine(q)'
<1>1. Holds(q)'
  BY DEF Holds, Named, RowsNamed, BookingsNamed, NoStore
<1>2. Phase(q)'
  BY DEF Phase, Fine, Advanced, Grows, Answers, Loading
<1>3. Listed(q)'
  BY DEF Listed, Answers
<1> QED
  BY <1>1, <1>2, <1>3 DEF Fine

LEMMA StartKeepsInv ==
    ASSUME TypeOK, Tidy, NEW q \in Requests, Fine(q), NEW c \in Calls, Start(q, c)
    PROVE  Advanced(q) /\ Fine(q)'
<1>1. /\ TypeOK' /\ pc'[q] = "loading" /\ snap'[q] = snap[q] /\ loaded'[q] = loaded[q]
      /\ OthersRest(q) /\ call'[q] = c /\ db' = db
  BY StartEffect DEF Leaves
<1>2. pc[q] = "idle" /\ call[q] = NoCall
  BY DEF Start, TypeOK
<1>3. \A k \in Requests : call[k] # NoCall => call'[k] = call[k]
  BY <1>1, <1>2 DEF OthersRest
<1>4. Advanced(q)
  BY <1>1, <1>3, SameTables DEF Advanced
<1>5. Holds(q)'
  <2>1. snap[q] \in Store /\ snap[q].participants \in [Ids -> Participation \cup {NoRow}]
    BY StoreParts DEF TypeOK
  <2>2. Named(call', snap'[q])
    BY <1>1, <1>3, <2>1, NamesStay DEF Named, Fine, Holds
  <2> QED
    BY <1>1, <1>2, <2>2 DEF Fine, Holds, Kept
<1>6. Phase(q)'
  BY <1>1, <1>2 DEF Phase, Fine, Loading
<1>7. Listed(q)'
  BY <1>1 DEF Listed
<1> QED
  BY <1>4, <1>5, <1>6, <1>7 DEF Fine

LEMMA SelectKeepsInv ==
    ASSUME TypeOK, Tidy, NEW q \in Requests, Fine(q), NEW t \in Tables \cup {"bookings"},
           NEW rows \in {db[t], NoStore[t]}, Reads(q, t), Selects(q, t, rows)
    PROVE  Advanced(q) /\ Fine(q)'
<1>1. /\ TypeOK' /\ pc'[q] = pc[q] /\ snap'[q] = [snap[q] EXCEPT ![t] = rows]
      /\ OthersRest(q)
  BY SelectEffect DEF Leaves
<1>2. call' = call /\ db' = db
  BY DEF Selects
<1>3. Advanced(q)
  BY <1>1, <1>2, SameTables DEF Advanced
<1>4. pc[q] \in Loading \cup {"booking"} /\ (pc[q] = "booking" => t = "bookings")
  BY DEF Reads, Loading
<1>5. /\ snap'[q].participants = (IF t = "participants" THEN rows ELSE snap[q].participants)
      /\ snap'[q].bookings = (IF t = "bookings" THEN rows ELSE snap[q].bookings)
      /\ snap'[q].experiences = (IF t = "experiences" THEN rows ELSE snap[q].experiences)
  BY <1>1 DEF TypeOK, Store, Tables
<1>6. /\ t = "participants" => RowsNamed(call, rows)
      /\ t = "bookings" => BookingsNamed(call, rows)
  BY DEF Tidy, Named, RowsNamed, BookingsNamed, NoStore
<1>7. Named(call', snap'[q])
  BY <1>2, <1>5, <1>6 DEF Fine, Holds, Named
<1>8. t = "bookings" => \A k \in Requests : rows[k] # NoRow => db.bookings[k] # NoRow
  BY DEF NoStore
<1>9. t = "participants" => \A i \in Ids : rows[i] # NoRow /\ rows[i].booking # NoRow
                               => db.bookings[rows[i].booking] # NoRow
  BY DEF NoStore, Tidy, Referring
<1>10. \A k \in Requests : snap'[q].bookings[k] # NoRow => db'.bookings[k] # NoRow
  BY <1>1, <1>2, <1>4, <1>5, <1>8 DEF Fine, Holds, Kept, Loading
<1>11. \A i \in Ids : snap'[q].participants[i] # NoRow /\ snap'[q].participants[i].booking # NoRow
                         => db'.bookings[snap'[q].participants[i].booking] # NoRow
  BY <1>1, <1>2, <1>4, <1>5, <1>9 DEF Fine, Holds, Kept, Loading
<1>12. Holds(q)'
  BY <1>7, <1>10, <1>11 DEF Holds, Kept
<1>13. Phase(q)'
  BY <1>1, <1>2, <1>4, <1>5 DEF Phase, Fine, Loading
<1>14. Listed(q)'
  BY <1>1, <1>4 DEF Listed, Loading
<1> QED
  BY <1>3, <1>12, <1>13, <1>14 DEF Fine

LEMMA RefusalKeepsInv ==
    ASSUME TypeOK, Tidy, NEW q \in Requests, Fine(q), pc[q] # "idle", Refuses(q)
    PROVE  Advanced(q) /\ Fine(q)'
<1>1. PICK answer \in Answers : End(q, answer) /\ db' = db /\ (answer = "ok" => call[q].kind # "join")
  BY DEF Refuses
<1>2. db' \in Store
  BY <1>1 DEF TypeOK
<1>3. /\ TypeOK' /\ pc'[q] = answer /\ snap'[q] = NoStore /\ loaded'[q] = {}
      /\ OthersRest(q) /\ call' = call
  BY <1>1, <1>2, EndEffect DEF Leaves
<1>4. Advanced(q)
  BY <1>1, <1>3, SameTables DEF Advanced
<1> QED
  BY <1>1, <1>3, <1>4, EmptyHanded

LEMMA LoadingAgainKeepsInv ==
    ASSUME TypeOK, Tidy, NEW q \in Requests, Fine(q), pc[q] \in Loading, LoadsAgain(q)
    PROVE  Advanced(q) /\ Fine(q)'
<1> DEFINE place == IF pc[q] = "loading" THEN "checking" ELSE "adding"
           c == call[q]
           ks == work[q]
<1>1. /\ pc' = [pc EXCEPT ![q] = place] /\ call' = [call EXCEPT ![q] = c]
      /\ snap' = [snap EXCEPT ![q] = NoStore] /\ loaded' = [loaded EXCEPT ![q] = {}]
      /\ work' = [work EXCEPT ![q] = ks]
  BY DEF LoadsAgain, TypeOK
<1>2. pc[q] # "idle"
  BY DEF Loading
<1>3. /\ place \in Stages /\ c \in Calls /\ ks \in SUBSET Requests
      /\ {} \in SUBSET (Tables \cup {"bookings"}) /\ NoStore \in Store /\ db' \in Store
      /\ failed' \in [Requests -> BOOLEAN] /\ \A p \in Requests \ {q} : failed'[p] = failed[p]
  BY <1>2, StartedHaveCalls, NoStoreIsAStore DEF TypeOK, Stages, LoadsAgain, Loading
<1>4. place \in {"checking", "adding"}
  OBVIOUS
<1> HIDE DEF place, c, ks
<1>5. TypeOK' /\ Leaves(q, place, NoStore, {}, ks)
  BY <1>1, <1>3, StepEffect
<1>6. db' = db /\ call' = call /\ call[q].kind = "backfill"
  BY DEF LoadsAgain
<1>7. Advanced(q)
  BY <1>5, <1>6, SameTables DEF Advanced, Leaves
<1> QED
  BY <1>4, <1>5, <1>6, <1>7, EmptyHanded DEF Leaves

LEMMA DecisionKeepsInv ==
    ASSUME TypeOK, Tidy, NEW q \in Requests, Fine(q), pc[q] \in Loading, Decides(q)
    PROVE  Advanced(q) /\ Fine(q)'
<1>1. PICK place \in {"booking", "storing"}, s \in Store, ks \in SUBSET Requests :
        /\ Advance(q, place, s, ks) /\ Keeps(q, s)
        /\ place = "booking" => /\ call[q].kind \in {"join", "leave", "cancel"}
                                /\ call[q].kind = "join" => s.experiences[call[q].experience] # NoRow
        /\ place = "storing" /\ call[q].kind = "join" =>
              OfPerson(s, call[q].experience, call[q].by) # {}
  BY DEF Decides
<1>2. pc[q] # "idle" /\ pc[q] # "reserving" /\ place \in Stages
  BY DEF Loading, Stages
<1>3. /\ TypeOK' /\ pc'[q] = place /\ snap'[q] = s /\ loaded'[q] = loaded[q]
      /\ OthersRest(q) /\ call' = call /\ db' = db
  BY <1>1, <1>2, AdvanceEffect DEF Leaves
<1>4. Advanced(q)
  BY <1>3, SameTables DEF Advanced
<1>5. Holds(q)'
  <2>1. Named(call', snap'[q])
    BY <1>1, <1>3 DEF Named, Keeps, Fine, Holds
  <2>2. \A k \in Requests : s.bookings[k] # NoRow => db.bookings[k] # NoRow
    BY <1>1, <1>2 DEF Keeps, Fine, Holds, Kept
  <2>3. ASSUME NEW i \in Ids, s.participants[i] # NoRow, s.participants[i].booking # NoRow
        PROVE  db.bookings[s.participants[i].booking] # NoRow
    BY <1>1, <1>2, <2>3 DEF Keeps, Fine, Holds, Kept
  <2> QED
    BY <1>3, <2>1, <2>2, <2>3 DEF Holds, Kept
<1>6. Phase(q)'
  BY <1>1, <1>2, <1>3 DEF Phase, Fine, Loading
<1>7. Listed(q)'
  <2>1. db.bookings[q] = NoRow
    BY DEF Phase, Fine
  <2> QED
    BY <1>1, <1>3, <2>1 DEF Listed
<1> QED
  BY <1>4, <1>5, <1>6, <1>7 DEF Fine

LEMMA BookingKeepsInv ==
    ASSUME TypeOK, Tidy, NEW q \in Requests, Fine(q), pc[q] = "booking", call[q].kind = "join",
           Books(q)
    PROVE  Advanced(q) /\ Fine(q)'
<1>1. PICK s \in Store :
        /\ Advance(q, "reserving", s, {})
        /\ RowsNamed(call, s.participants)
        /\ s.bookings[q] # NoRow
        /\ s.bookings[q].by = call[q].by /\ s.bookings[q].experience = call[q].experience
        /\ \A k \in Requests \ {q} : s.bookings[k] = snap[q].bookings[k]
        /\ \E i \in OfPerson(s, call[q].experience, call[q].by) :
              s.participants[i].role = "participant" /\ s.participants[i].booking = q
        /\ \A i \in Ids : s.participants[i] # NoRow /\ s.participants[i].booking \notin {NoRow, q} =>
              snap[q].participants[i] # NoRow /\ snap[q].participants[i].booking = s.participants[i].booking
  BY DEF Books
<1>2. "reserving" \in Stages /\ {} \in SUBSET Requests /\ call[q] # NoCall
  BY DEF Stages, TypeOK
<1>3. /\ TypeOK' /\ pc'[q] = "reserving" /\ snap'[q] = s /\ loaded'[q] = loaded[q]
      /\ OthersRest(q) /\ call' = call /\ db' = db
  BY <1>1, <1>2, AdvanceEffect DEF Leaves
<1>4. Advanced(q)
  BY <1>3, SameTables DEF Advanced
<1>5. Holds(q)'
  <2>1. BookingsNamed(call, s.bookings)
    BY <1>1, <1>2 DEF BookingsNamed, BookingIsNamed, Fine, Holds, Named
  <2>2. \A k \in Requests \ {q} : s.bookings[k] # NoRow => db.bookings[k] # NoRow
    BY <1>1 DEF Fine, Holds, Kept
  <2>3. ASSUME NEW i \in Ids, s.participants[i] # NoRow, s.participants[i].booking \notin {NoRow, q}
        PROVE  db.bookings[s.participants[i].booking] # NoRow
    BY <1>1, <2>3 DEF Fine, Holds, Kept
  <2> QED
    BY <1>1, <1>3, <2>1, <2>2, <2>3 DEF Holds, Named, Kept
<1>6. Phase(q)'
  BY <1>1, <1>3 DEF Phase, Loading
<1>7. Listed(q)'
  BY <1>1, <1>3 DEF Listed
<1> QED
  BY <1>4, <1>5, <1>6, <1>7 DEF Fine

LEMMA WaitingKeepsInv ==
    ASSUME TypeOK, Tidy, NEW q \in Requests, Fine(q), pc[q] = "booking", call[q].kind = "join",
           Waits(q)
    PROVE  Advanced(q) /\ Fine(q)'
<1>1. PICK s \in Store :
        /\ Advance(q, "storing", s, {})
        /\ RowsNamed(call, s.participants)
        /\ s.bookings = NoStore.bookings
        /\ OfPerson(s, call[q].experience, call[q].by) # {}
        /\ \A i \in Ids : s.participants[i] # NoRow /\ s.participants[i].booking # NoRow =>
              snap[q].participants[i] # NoRow /\ snap[q].participants[i].booking = s.participants[i].booking
  BY DEF Waits
<1>2. "storing" \in Stages /\ {} \in SUBSET Requests
  BY DEF Stages
<1>3. /\ TypeOK' /\ pc'[q] = "storing" /\ snap'[q] = s /\ loaded'[q] = loaded[q]
      /\ OthersRest(q) /\ call' = call /\ db' = db
  BY <1>1, <1>2, AdvanceEffect DEF Leaves
<1>4. Advanced(q)
  BY <1>3, SameTables DEF Advanced
<1>5. Holds(q)'
  <2>1. BookingsNamed(call, s.bookings) /\ \A k \in Requests : s.bookings[k] = NoRow
    BY <1>1 DEF BookingsNamed, NoStore
  <2>2. ASSUME NEW i \in Ids, s.participants[i] # NoRow, s.participants[i].booking # NoRow
        PROVE  db.bookings[s.participants[i].booking] # NoRow
    BY <1>1, <2>2 DEF Fine, Holds, Kept
  <2> QED
    BY <1>1, <1>3, <2>1, <2>2 DEF Holds, Named, Kept
<1>6. Phase(q)'
  BY <1>1, <1>3 DEF Phase, Loading
<1>7. Listed(q)'
  <2>1. db.bookings[q] = NoRow
    BY DEF Phase, Fine
  <2> QED
    BY <1>1, <1>3, <2>1 DEF Listed
<1> QED
  BY <1>4, <1>5, <1>6, <1>7 DEF Fine

LEMMA ReservingKeepsInv ==
    ASSUME TypeOK, Tidy, NEW q \in Requests, Fine(q), Reserve(q)
    PROVE  Advanced(q) /\ Fine(q)'
<1>1. /\ TypeOK' /\ pc'[q] = "storing" /\ snap'[q] = Forgotten(q) /\ loaded'[q] = loaded[q]
      /\ OthersRest(q) /\ call' = call
  BY ReserveEffect DEF Leaves
<1>2. pc[q] = "reserving" /\ db' = [db EXCEPT !.bookings = Upsert(@, snap[q].bookings)]
  BY DEF Reserve
<1>3. Grows(q) /\ Tidy'
  BY <1>1, <1>2, ReservedIsWritten DEF Fine
<1>4. Advanced(q)
  BY <1>1, <1>3 DEF Advanced
<1>5. /\ Forgotten(q).bookings = NoStore.bookings
      /\ Forgotten(q).participants = snap[q].participants
      /\ snap[q].participants \in [Ids -> Participation \cup {NoRow}]
  BY ForgottenIsAStore, StoreParts DEF TypeOK
<1>6. \A k \in Requests : db'.bookings[k] = IF snap[q].bookings[k] # NoRow THEN snap[q].bookings[k]
                                            ELSE db.bookings[k]
  <2>1. snap[q].bookings \in [Requests -> Booking \cup {NoRow}]
    BY StoreParts DEF TypeOK
  <2> QED
    BY <1>2, <2>1, BookingsWithRows
<1>7. db'.bookings[q] # NoRow
  BY <1>2, <1>6 DEF Fine, Phase
<1>8. Holds(q)'
  <2>1. Named(call', Forgotten(q))
    BY <1>1, <1>5 DEF Named, BookingsNamed, NoStore, Fine, Holds
  <2>2. ASSUME NEW i \in Ids, snap[q].participants[i] # NoRow, snap[q].participants[i].booking # NoRow
        PROVE  db'.bookings[snap[q].participants[i].booking] # NoRow
    <3>1. snap[q].participants[i].booking \in Requests
      BY <1>5, <2>2 DEF Participation
    <3> QED
      BY <1>3, <1>7, <2>2, <3>1 DEF Fine, Holds, Kept, Grows
  <2>3. \A k \in Requests : Forgotten(q).bookings[k] = NoRow
    BY <1>5 DEF NoStore
  <2> QED
    BY <1>1, <1>5, <2>1, <2>2, <2>3 DEF Holds, Kept
<1>9. Phase(q)'
  BY <1>1 DEF Phase, Loading
<1>10. Listed(q)'
  BY <1>1, <1>2, <1>5 DEF Listed, Fine, OfPerson, RowsOf
<1> QED
  BY <1>4, <1>8, <1>9, <1>10 DEF Fine

LEMMA ReleasingKeepsInv ==
    ASSUME TypeOK, Tidy, NEW q \in Requests, Fine(q), NEW k \in Requests, Release(q, k)
    PROVE  Advanced(q) /\ Fine(q)'
<1>1. /\ TypeOK' /\ pc'[q] \in {"booking", "storing"} /\ snap'[q] = Forgotten(q)
      /\ OthersRest(q) /\ call' = call
  BY ReleaseEffect DEF Leaves
<1>2. pc[q] = "booking" /\ call[q].kind \in {"leave", "cancel"}
  BY DEF Release
<1>3. Grows(q) /\ Tidy'
  <2>1. CASE snap[q].bookings[k] = NoRow
    BY <1>1, <2>1, SameTables DEF Release
  <2>2. CASE snap[q].bookings[k] # NoRow
    BY <1>1, <2>2, CancelledIsWritten DEF Release, Fine
  <2> QED
    BY <2>1, <2>2
<1>4. Advanced(q)
  BY <1>1, <1>3 DEF Advanced
<1>5. /\ Forgotten(q).bookings = NoStore.bookings
      /\ Forgotten(q).participants = snap[q].participants
      /\ snap[q].participants \in [Ids -> Participation \cup {NoRow}]
  BY ForgottenIsAStore, StoreParts DEF TypeOK
<1>6. Holds(q)'
  <2>1. Named(call', Forgotten(q))
    BY <1>1, <1>5 DEF Named, BookingsNamed, NoStore, Fine, Holds
  <2>2. ASSUME NEW i \in Ids, snap[q].participants[i] # NoRow, snap[q].participants[i].booking # NoRow
        PROVE  db'.bookings[snap[q].participants[i].booking] # NoRow
    <3>1. snap[q].participants[i].booking \in Requests
      BY <1>5, <2>2 DEF Participation
    <3> QED
      BY <1>2, <1>3, <2>2, <3>1 DEF Fine, Holds, Kept, Grows
  <2>3. \A j \in Requests : Forgotten(q).bookings[j] = NoRow
    BY <1>5 DEF NoStore
  <2> QED
    BY <1>1, <1>5, <2>1, <2>2, <2>3 DEF Holds, Kept
<1>7. Phase(q)'
  BY <1>1, <1>2, <1>3 DEF Phase, Loading, Fine, Grows
<1>8. Listed(q)'
  BY <1>1, <1>2 DEF Listed
<1> QED
  BY <1>4, <1>6, <1>7, <1>8 DEF Fine

LEMMA FailedBookingKeepsInv ==
    ASSUME TypeOK, Tidy, NEW q \in Requests, Fine(q), FailBooking(q)
    PROVE  Advanced(q) /\ Fine(q)'
<1>1. End(q, "error") /\ call' = call /\ "error" \in Answers /\ pc[q] # "idle"
  BY DEF FailBooking, End, Answers
<1>2. db' \in Store /\ Grows(q) /\ Tidy'
  <2>1. CASE db' = db
    BY <1>1, <2>1, SameTables DEF TypeOK
  <2>2. CASE db' = [db EXCEPT !.bookings = Upsert(@, snap[q].bookings)]
    BY <1>1, <2>2, ReservedIsWritten DEF Fine
  <2>3. ASSUME NEW k \in Requests, snap[q].bookings[k] # NoRow,
               db' = [db EXCEPT !.bookings = Upsert(@, Cancelled(snap[q].bookings, k))]
        PROVE  db' \in Store /\ Grows(q) /\ Tidy'
    BY <1>1, <2>3, CancelledIsWritten DEF Fine
  <2>4. \A k \in work[q] : k \in Requests
    BY DEF TypeOK
  <2> QED
    BY <2>1, <2>2, <2>3, <2>4 DEF FailBooking
<1>3. /\ TypeOK' /\ pc'[q] = "error" /\ snap'[q] = NoStore /\ loaded'[q] = {} /\ OthersRest(q)
  BY <1>1, <1>2, EndEffect DEF Leaves
<1>4. Advanced(q)
  BY <1>2, <1>3 DEF Advanced
<1> QED
  BY <1>1, <1>3, <1>4, EmptyHanded

LEMMA StoringKeepsInv ==
    ASSUME TypeOK, Tidy, NEW q \in Requests, Fine(q), StoreExperiences(q)
    PROVE  Advanced(q) /\ Fine(q)'
<1>1. /\ TypeOK' /\ pc'[q] = "enrolling" /\ snap'[q] = snap[q] /\ OthersRest(q) /\ call' = call
      /\ db'.participants = db.participants /\ db'.bookings = db.bookings
  BY StoreExperiencesEffect DEF Leaves
<1>2. pc[q] = "storing"
  BY DEF StoreExperiences
<1>3. Advanced(q)
  BY <1>1, NewExperiences DEF Advanced
<1>4. Holds(q)'
  BY <1>1, <1>2 DEF Holds, Kept, Fine
<1>5. Phase(q)'
  BY <1>1 DEF Phase, Loading
<1>6. Listed(q)'
  <2>1. OfPerson(snap'[q], call'[q].experience, call'[q].by)
          = OfPerson(snap[q], call[q].experience, call[q].by)
    BY <1>1
  <2> QED
    BY <1>1, <1>2, <2>1 DEF Listed, Fine
<1> QED
  BY <1>3, <1>4, <1>5, <1>6 DEF Fine

LEMMA EnrollingKeepsInv ==
    ASSUME TypeOK, Tidy, NEW q \in Requests, Fine(q), StoreParticipants(q)
    PROVE  Advanced(q) /\ Fine(q)'
<1> DEFINE rows == Upsert(db.participants, snap[q].participants)
<1>1. pc[q] = "enrolling"
  BY DEF StoreParticipants
<1>2. PICK answer \in Answers : /\ End(q, answer)
                                /\ \/ db' = db /\ answer # "ok"
                                   \/ Admissible(rows) /\ db' = [db EXCEPT !.participants = rows]
  <2>1. Verdict(q, FALSE) = "error" /\ Verdict(q, TRUE) \in {"ok", "error"}
    BY DEF Verdict
  <2> QED
    BY <2>1 DEF StoreParticipants, Answers
<1>3. call' = call
  BY <1>2 DEF End
<1>4. CASE db' = db /\ answer # "ok"
  <2>1. TypeOK' /\ Leaves(q, answer, NoStore, {}, {})
    BY <1>1, <1>2, <1>4, EndEffect DEF TypeOK
  <2>2. Advanced(q)
    BY <1>3, <1>4, <2>1, SameTables DEF Advanced, Leaves
  <2> QED
    BY <1>2, <1>3, <1>4, <2>1, <2>2, EmptyHanded DEF Leaves
<1>5. CASE Admissible(rows) /\ db' = [db EXCEPT !.participants = rows]
  <2>1. /\ Grows(q) /\ Tidy' /\ db' \in Store
        /\ \A i \in Ids : db'.participants[i] =
              IF snap[q].participants[i] # NoRow THEN snap[q].participants[i]
              ELSE db.participants[i]
    BY <1>3, <1>5, NewParticipants DEF Fine
  <2>2. TypeOK' /\ Leaves(q, answer, NoStore, {}, {})
    BY <1>1, <1>2, <2>1, EndEffect
  <2>3. Advanced(q)
    BY <2>1, <2>2 DEF Advanced, Leaves
  <2>4. call[q].kind = "join" => OfPerson(db', call[q].experience, call[q].by) # {}
    <3>1. OfPerson(snap[q], call[q].experience, call[q].by)
            \subseteq OfPerson(db', call[q].experience, call[q].by)
      BY <2>1 DEF OfPerson, RowsOf
    <3> QED
      BY <1>1, <3>1 DEF Fine, Listed
  <2> QED
    BY <1>3, <2>2, <2>3, <2>4, EmptyHanded DEF Leaves
<1> QED
  BY <1>2, <1>4, <1>5

\* Every step of a request keeps the invariant, for itself and for the others.
LEMMA ActsKeepInv ==
    ASSUME Inv, NEW q \in Requests, Acts(q)
    PROVE  Inv' /\ Advanced(q)
<1>1. TypeOK /\ Tidy /\ \A p \in Requests : Fine(p)
  BY DEF Inv, Tidy, Fine
<1>2. Advanced(q) /\ Fine(q)'
  BY <1>1, EffectsOfActs, StartKeepsInv, SelectKeepsInv, RefusalKeepsInv, DecisionKeepsInv,
     LoadingAgainKeepsInv, BookingKeepsInv, WaitingKeepsInv, ReservingKeepsInv,
     ReleasingKeepsInv, FailedBookingKeepsInv, StoringKeepsInv, EnrollingKeepsInv DEF Fine
<1>3. \A p \in Requests \ {q} : Fine(p)'
  BY <1>1, <1>2, OthersStayFine
<1> QED
  BY <1>2, <1>3 DEF Inv, Tidy, Fine, Advanced

LEMMA InvAtStart == Init => Inv
<1> SUFFICES ASSUME Init PROVE Inv
  OBVIOUS
<1> DEFINE xs == [e \in Experiences |-> IF e \in Stored THEN FirstRow(e, "published") ELSE NoRow]
           rows == [i \in Ids |-> IF i \in Stored THEN CreatorRow(i) ELSE NoRow]
<1>1. db = [NoStore EXCEPT !.experiences = xs, !.participants = rows]
  BY DEF Init
<1>2. xs \in [Experiences -> Experience \cup {NoRow}]
  BY FirstRowIsARow DEF Statuses
<1>3. rows \in [Ids -> Participation \cup {NoRow}]
  BY FirstRowIsARow, ExperienceConstants DEF Statuses
<1>4. \A i \in Ids : rows[i] # NoRow => /\ i \in Experiences /\ rows[i] = CreatorRow(i)
                                        /\ xs[i] # NoRow
  BY FirstRowIsARow, ExperienceConstants DEF Statuses
<1> HIDE DEF xs, rows
<1>5. db = [experiences |-> xs, participants |-> rows, bookings |-> NoStore.bookings]
  BY <1>1 DEF NoStore
<1>6. db \in Store
  BY <1>2, <1>3, <1>5, NoStoreIsAStore, StoreParts DEF Store
<1>7. TypeOK
  BY <1>6, NoStoreIsAStore DEF Init, TypeOK
<1>8. db.participants = rows /\ db.experiences = xs /\ db.bookings = NoStore.bookings
  BY <1>5
<1>9. Named(call, db)
  <2>1. \A i \in Experiences : RowIsNamed(call, i, CreatorRow(i))
    BY ExperienceConstants DEF RowIsNamed, CreatorRow
  <2> QED
    BY <1>4, <1>8, <2>1 DEF Named, RowsNamed, BookingsNamed, NoStore
<1>13. \A i \in Ids : db.participants[i] # NoRow =>
          /\ db.participants[i].experience = i /\ db.participants[i].role = "creator"
          /\ db.participants[i].booking = NoRow /\ db.experiences[i] # NoRow
  <2>1. SUFFICES ASSUME NEW i \in Ids, rows[i] # NoRow
                 PROVE  /\ rows[i].experience = i /\ rows[i].role = "creator"
                        /\ rows[i].booking = NoRow /\ xs[i] # NoRow
    BY <1>8
  <2>2. rows[i] = CreatorRow(i) /\ xs[i] # NoRow
    BY <1>4, <2>1
  <2> QED
    BY <2>2 DEF CreatorRow
<1>10. Referring
  BY <1>13 DEF Referring, StorableRoles
<1>11. OneRowEach
  BY <1>13 DEF OneRowEach
<1>12. ASSUME NEW q \in Requests
       PROVE  Holds(q) /\ Phase(q) /\ Listed(q)
  <2>1. snap[q] = NoStore /\ pc[q] = "idle" /\ loaded[q] = {}
    BY DEF Init
  <2>2. Holds(q)
    BY <2>1 DEF Holds, Named, RowsNamed, BookingsNamed, NoStore
  <2>3. Phase(q)
    BY <1>8, <2>1 DEF Phase, NoStore, Loading
  <2>4. Listed(q)
    BY <2>1 DEF Listed
  <2> QED
    BY <2>2, <2>3, <2>4
<1> QED
  BY <1>7, <1>9, <1>10, <1>11, <1>12 DEF Inv

LEMMA InvStep == Inv /\ [Next]_<<vars, apart>> => Inv'
<1>1. ASSUME Inv, Next
      PROVE  Inv'
  BY <1>1, SomebodyActs, ActsKeepInv DEF Next
<1>2. ASSUME Inv, UNCHANGED <<vars, apart>>
      PROVE  Inv'
  BY <1>2 DEF Inv, vars, TypeOK, Named, RowsNamed, BookingsNamed, RowIsNamed, BookingIsNamed,
              Referring, OneRowEach, Holds, Kept, Phase, Listed, OfPerson, RowsOf
<1> QED
  BY <1>1, <1>2

\* For any requests, calls and failures: a row, stored or loaded by anyone, is of
\* the experience and the person its id and its booking tell; it refers to what is
\* stored, and each person has one; no snapshot knows of a booking that is not
\* stored or about to be; an answered join has its row.
THEOREM ExperiencesInvariant == Spec => []Inv
<1>1. Init => Inv
  BY InvAtStart
<1>2. Inv /\ [Next]_<<vars, apart>> => Inv'
  BY InvStep
<1> QED
  BY <1>1, <1>2, PTL DEF Spec

\* The tables, the snapshots and the places of the requests hold what they declare.
THEOREM ExperiencesTypes == Spec => []TypeOK
<1>1. Inv => TypeOK
  BY DEF Inv
<1> QED
  BY <1>1, ExperiencesInvariant, PTL

\* Under every interleaving and failure, a listed participant's booking exists and
\* is theirs, and a join that was answered is on the list.
THEOREM ListedSeatsAreBacked == Spec => []SeatsAreBacked
<1>1. Inv => SeatsAreBacked
  <2> SUFFICES ASSUME Inv PROVE SeatsAreBacked
    OBVIOUS
  <2>1. ASSUME NEW i \in Ids, db.participants[i] # NoRow, db.participants[i].booking # NoRow
        PROVE  /\ db.bookings[db.participants[i].booking] # NoRow
               /\ db.bookings[db.participants[i].booking].by = db.participants[i].person
               /\ db.bookings[db.participants[i].booking].experience = db.participants[i].experience
    <3> DEFINE k == db.participants[i].booking
    <3>1. k \in Requests /\ db.bookings[k] # NoRow
      BY <2>1, StoreParts DEF Inv, Referring, TypeOK, Participation
    <3>2. BookingIsNamed(call, k, db.bookings[k]) /\ RowIsNamed(call, i, db.participants[i])
      BY <2>1, <3>1 DEF Inv, Named, RowsNamed, BookingsNamed
    <3> QED
      BY <2>1, <3>1, <3>2 DEF BookingIsNamed, RowIsNamed
  <2>2. \A q \in Requests : pc[q] = "ok" /\ call[q].kind = "join" =>
            OfPerson(db, call[q].experience, call[q].by) # {}
    BY DEF Inv, Listed
  <2> QED
    BY <2>1, <2>2 DEF SeatsAreBacked
<1> QED
  BY <1>1, ExperiencesInvariant, PTL

-----------------------------------------------------------------------------
(* No two requests at a time.                                              *)

AtMostOne == \A p, q \in InFlight : p = q

\* What a request has read is what is stored; what it is about to create is not.
Current(q) ==
    /\ pc[q] \in Loading => \A t \in loaded[q] : snap[q][t] = db[t]
    /\ pc[q] = "booking" /\ "bookings" \in loaded[q] => snap[q].bookings = db.bookings
    /\ \/ pc[q] \in {"checking", "adding"}
       \/ pc[q] = "loading" /\ call[q].kind = "create"
       => db.experiences[call[q].experience] = NoRow

\* What a request has decided, and has not written yet.
Acting == {"booking", "reserving", "storing", "enrolling"}

\* One row differs from the table, one experience, one booking.
OnlyRow(q, i) == \A j \in Ids \ {i} : snap[q].participants[j] = db.participants[j]

OnlyExperience(q, e) ==
    \A x \in Experiences \ {e} : snap[q].experiences[x] = db.experiences[x]

OnlyBooking(q, k) ==
    \A j \in Requests \ {k} : snap[q].bookings[j] = db.bookings[j]

\* Row i is the row of the person who calls, or their first.
Puts(q, i, role, booking) ==
    LET e == call[q].experience
        p == call[q].by
    IN /\ i \in OfPerson(db, e, p) \/ (i = q /\ OfPerson(db, e, p) = {})
       /\ snap[q].participants[i] = RowOf(e, p, role, booking)
       /\ OnlyRow(q, i)

\* A booking is cancelled, or will be.
Released(q, k) == (pc[q] = "booking" /\ k \in work[q]) \/ ~db.bookings[k].active

Creating(q) == LET e == call[q].experience IN
    /\ pc[q] \in {"storing", "enrolling"}
    /\ RowsOf(db, e) = {}
    /\ snap[q].participants[q] = CreatorRow(e) /\ OnlyRow(q, q)
    /\ pc[q] = "storing" => /\ db.experiences[e] = NoRow
                            /\ snap[q].experiences[e] = FirstRow(e, call[q].status)
                            /\ OnlyExperience(q, e)

Updating(q) == LET e == call[q].experience IN
    /\ pc[q] \in {"storing", "enrolling"}
    /\ db.experiences[e] # NoRow
    /\ snap[q].participants = db.participants
    /\ pc[q] = "storing" => /\ snap[q].experiences[e] = Updated(db.experiences[e], call[q])
                            /\ OnlyExperience(q, e)

MakesBooking(q) == LET e == call[q].experience
                       x == db.experiences[e]
    IN /\ db.bookings[q] = NoRow
       /\ snap[q].bookings[q] = [experience |-> e, by |-> call[q].by, slot |-> x.slot,
                                 active |-> TRUE]
       /\ OnlyBooking(q, q)
       /\ HasPlace(db.bookings, e, x.slot, x.capacity)

Joining(q) == LET e == call[q].experience IN
    /\ snap[q].experiences = db.experiences
    /\ IsPublished(db, e) /\ ~Seated(db, e, call[q].by)
    /\ \/ /\ pc[q] = "booking" /\ ~IsFull(db, e)
          /\ snap[q].participants = db.participants
       \/ /\ pc[q] = "reserving" /\ ~IsFull(db, e)
          /\ \E i \in Ids : Puts(q, i, "participant", q)
          /\ MakesBooking(q)
       \/ /\ pc[q] \in {"storing", "enrolling"} /\ ~IsFull(db, e)
          /\ \E i \in Ids : Puts(q, i, "participant", q)
          /\ db.bookings[q] # NoRow /\ db.bookings[q].active
       \/ /\ pc[q] \in {"storing", "enrolling"}
          /\ \E i \in Ids : Puts(q, i, "waitlist", NoRow)
          /\ db.bookings[q] = NoRow

Leaving(q) == LET e == call[q].experience IN
    /\ pc[q] \in {"booking", "storing", "enrolling"}
    /\ snap[q].experiences = db.experiences
    /\ \E i \in OfPerson(db, e, call[q].by) :
          /\ db.participants[i].role # "creator"
          /\ Puts(q, i, "cancelled", db.participants[i].booking)
          /\ db.participants[i].booking # NoRow => Released(q, db.participants[i].booking)
          /\ work[q] \subseteq {db.participants[i].booking} \ {NoRow}

Cancelling(q) == LET e == call[q].experience IN
    /\ pc[q] \in {"booking", "storing", "enrolling"}
    /\ db.experiences[e] # NoRow
    /\ \A i \in Ids : snap[q].participants[i] =
          IF i \in RowsOf(db, e) /\ OccupiesSeat(db.participants[i])
            THEN [db.participants[i] EXCEPT !.role = "cancelled"] ELSE db.participants[i]
    /\ \A k \in Linked(db, e) : Released(q, k)
    /\ work[q] \subseteq Linked(db, e)
    /\ IF pc[q] = "enrolling"
         THEN failed[q] \/ db.experiences[e].status = "cancelled"
         ELSE /\ snap[q].experiences[e] # NoRow
              /\ snap[q].experiences[e].status = "cancelled"
              /\ snap[q].experiences[e].capacity = db.experiences[e].capacity
              /\ OnlyExperience(q, e)

\* A role the table refuses: nothing comes of it.
Inviting(q) ==
    /\ pc[q] \in {"storing", "enrolling"}
    /\ snap[q].experiences = db.experiences
    /\ \E i \in Ids : snap[q].participants[i] # NoRow /\ snap[q].participants[i].role = "invited"

Doing(q) ==
    /\ call[q].kind \in {"create", "backfill"} => Creating(q)
    /\ call[q].kind = "update" => Updating(q)
    /\ call[q].kind = "join" => Joining(q)
    /\ call[q].kind = "leave" => Leaving(q)
    /\ call[q].kind = "cancel" => Cancelling(q)
    /\ call[q].kind = "invite" => Inviting(q)

Sure(q) == Current(q) /\ (pc[q] \in Acting => Doing(q))

SeqInv == apart => AtMostOne /\ \A q \in Requests : Sure(q)
ReadsAreTrue == \A q \in Requests, t \in Tables \cup {"bookings"} :
                    t \in loaded'[q] \ loaded[q] => snap'[q][t] = db[t]

\* The request that acts is the only one in flight.
LEMMA ActsAlone ==
    ASSUME TypeOK, SeqInv, NEW q \in Requests, Acts(q), OthersRest(q), TypeOK', Next, apart'
    PROVE  /\ apart /\ AtMostOne /\ AtMostOne' /\ Sure(q) /\ ReadsAreTrue
           /\ \A p \in Requests \ {q} : p \notin InFlight /\ p \notin InFlight'
<1>1. apart /\ Cardinality(InFlight') <= 1 /\ ReadsAreTrue
  BY DEF Next, ReadsAreTrue
<1>2. AtMostOne /\ Sure(q)
  BY <1>1 DEF SeqInv
<1>3. AtMostOne'
  <2>1. InFlight' \subseteq Requests /\ IsFiniteSet(Requests)
    BY ExperienceConstants DEF InFlight
  <2>2. IsFiniteSet(InFlight')
    BY <2>1, FS_Subset
  <2>3. ASSUME NEW p \in InFlight', NEW r \in InFlight', p # r
        PROVE  FALSE
    <3>1. {p, r} \subseteq InFlight'
      BY <2>3
    <3>2. Cardinality({p, r}) <= Cardinality(InFlight')
      BY <2>2, <3>1, FS_Subset
    <3>3. Cardinality({p}) = 1 /\ IsFiniteSet({p})
      BY FS_Singleton
    <3>4. Cardinality({p} \cup {r}) = 2
      BY <2>3, <3>3, FS_AddElement
    <3>5. {p} \cup {r} = {p, r}
      OBVIOUS
    <3>6. Cardinality(InFlight') \in Nat
      BY <2>2, FS_CardinalityType
    <3> QED
      BY <1>1, <3>2, <3>4, <3>5, <3>6
  <2> QED
    BY <2>3 DEF AtMostOne
<1>4. q \in InFlight \/ q \in InFlight'
  <2>1. ASSUME NEW c \in Calls, Start(q, c)
        PROVE  q \in InFlight'
    BY <2>1 DEF Start, InFlight, Loading, TypeOK
  <2>2. ASSUME NEW t \in Tables \cup {"bookings"}, Reads(q, t)
        PROVE  q \in InFlight
    BY <2>2 DEF Reads, InFlight, Loading
  <2>3. ASSUME NEW kind, Ready(q, kind)
        PROVE  q \in InFlight
    BY <2>3 DEF Ready, InFlight, Loading
  <2>4. ASSUME \/ CountPlaces(q) \/ Reserve(q) \/ \E k \in Requests : Release(q, k)
               \/ FailBooking(q) \/ StoreExperiences(q) \/ StoreParticipants(q) \/ Crash(q)
        PROVE  q \in InFlight
    BY <2>4 DEF CountPlaces, Reserve, Release, FailBooking, StoreExperiences,
                StoreParticipants, Crash, InFlight
  <2> QED
    BY <2>1, <2>2, <2>3, <2>4 DEF Acts, Read, FailRead, DecideCreate, DecideBackfill,
       DecideUpdate, DecideJoin, DecideInvite, DecideLeave, DecideCancel
<1>5. ASSUME NEW p \in Requests \ {q}
      PROVE  p \notin InFlight /\ p \notin InFlight'
  <2>1. pc'[p] = pc[p]
    BY DEF OthersRest
  <2>2. p \in InFlight <=> p \in InFlight'
    BY <2>1 DEF InFlight
  <2> QED
    BY <1>2, <1>3, <1>4, <2>2 DEF AtMostOne
<1> QED
  BY <1>1, <1>2, <1>3, <1>5

LEMMA OnlyOneIsSure ==
    ASSUME NEW q \in Requests, Sure(q)', \A p \in Requests \ {q} : p \notin InFlight'
    PROVE  \A p \in Requests : Sure(p)'
  BY DEF Sure, Current, InFlight, Acting, Loading

\* What is decided on a snapshot that is current is decided on the tables.
LEMMA DecidesOnTables ==
    ASSUME NEW q \in Requests, NEW kind, Current(q), Ready(q, kind)
    PROVE  /\ snap[q].experiences = db.experiences /\ snap[q].participants = db.participants
           /\ pc[q] \in Loading /\ call[q].kind = kind
           /\ loaded[q] = Tables
  BY DEF Current, Ready, Tables

LEMMA SameRows ==
    ASSUME NEW s, NEW r, s.participants = r.participants
    PROVE  /\ \A e : RowsOf(s, e) = RowsOf(r, e)
           /\ \A e, p : OfPerson(s, e, p) = OfPerson(r, e, p)
           /\ \A e, p : Seated(s, e, p) <=> Seated(r, e, p)
           /\ \A e : OccupyingCount(s, e) = OccupyingCount(r, e)
           /\ \A e : Linked(s, e) = Linked(r, e)
<1>1. \A e : RowsOf(s, e) = RowsOf(r, e)
  BY DEF RowsOf
<1>2. \A e, p : OfPerson(s, e, p) = OfPerson(r, e, p)
  BY <1>1 DEF OfPerson
<1>3. \A e, p : Seated(s, e, p) <=> Seated(r, e, p)
  BY <1>2 DEF Seated
<1>4. \A e : OccupyingCount(s, e) = OccupyingCount(r, e)
  BY <1>1 DEF OccupyingCount
<1>5. \A e : Linked(s, e) = Linked(r, e)
  BY <1>1 DEF Linked
<1> QED
  BY <1>1, <1>2, <1>3, <1>4, <1>5

LEMMA SameStore ==
    ASSUME NEW s, NEW r, s.participants = r.participants, s.experiences = r.experiences
    PROVE  /\ \A e : IsFull(s, e) <=> IsFull(r, e)
           /\ \A e : IsPublished(s, e) <=> IsPublished(r, e)
           /\ \A c : MayManage(s, c) <=> MayManage(r, c)
<1>1. \A e : OccupyingCount(s, e) = OccupyingCount(r, e)
  BY SameRows
<1> QED
  BY <1>1 DEF IsFull, IsPublished, MayManage

\* A call that creates an experience finds no row of it.
LEMMA NothingOfIt ==
    ASSUME TypeOK, Referring, NEW e \in Experiences, db.experiences[e] = NoRow
    PROVE  RowsOf(db, e) = {}
  BY StoreParts DEF Referring, RowsOf, TypeOK

LEMMA DecidedIsCurrent ==
    ASSUME NEW q \in Requests, pc'[q] \in {"booking", "storing"}, loaded'[q] = Tables
    PROVE  Current(q)'
  BY DEF Current, Loading, Tables

LEMMA EndedIsSure ==
    ASSUME NEW q \in Requests, pc'[q] \in Answers
    PROVE  Sure(q)'
  BY DEF Sure, Current, Acting, Loading, Answers

LEMMA OpeningIsSure ==
    ASSUME Inv, NEW q \in Requests, Current(q), pc[q] \in Loading, loaded[q] = Tables,
           call[q].kind \in {"create", "backfill"},
           snap[q].participants = db.participants, snap[q].experiences = db.experiences,
           db.experiences[call[q].experience] = NoRow,
           Advance(q, "storing", Opened(q, snap[q], call[q].experience, call[q].status), {})
    PROVE  Sure(q)'
<1> DEFINE e == call[q].experience
           status == call[q].status
           s == Opened(q, snap[q], e, status)
<1>1. /\ TypeOK /\ pc[q] # "idle" /\ call[q] \in Calls /\ e \in Experiences /\ status \in Statuses
      /\ snap[q] \in Store
  BY StartedHaveCalls, CallsHaveFields DEF Inv, TypeOK, Loading
<1>2. /\ s \in Store /\ s.participants[q] = CreatorRow(e)
      /\ s.experiences[e] = FirstRow(e, status)
      /\ \A x \in Experiences \ {e} : s.experiences[x] = snap[q].experiences[x]
      /\ \A i \in Ids \ {q} : s.participants[i] =
            IF i \in OfPerson(snap[q], e, Owner[e]) THEN NoRow ELSE snap[q].participants[i]
  <2> HIDE DEF e, status
  <2> QED
    BY <1>1, OpenedParts
<1>3. RowsOf(db, e) = {}
  BY <1>1, NothingOfIt DEF Inv
<1>4. OfPerson(snap[q], e, Owner[e]) = {}
  BY <1>3, SameRows DEF OfPerson
<1>5. Advance(q, "storing", s, {}) /\ "storing" \in Stages /\ {} \in SUBSET Requests
  BY DEF Stages
<1> HIDE DEF s
<1>6. /\ pc'[q] = "storing" /\ snap'[q] = s /\ loaded'[q] = loaded[q]
      /\ call' = call /\ db' = db
  BY <1>1, <1>2, <1>5, AdvanceEffect DEF Leaves
<1>7. Current(q)'
  BY <1>6, DecidedIsCurrent
<1>8. Creating(q)'
  BY <1>2, <1>3, <1>4, <1>6 DEF Creating, OnlyRow, OnlyExperience
<1> QED
  BY <1>6, <1>7, <1>8 DEF Sure, Doing

LEMMA CreatingIsSure ==
    ASSUME Inv, NEW q \in Requests, Current(q), DecideCreate(q)
    PROVE  Sure(q)'
<1>1. /\ pc[q] \in Loading /\ loaded[q] = Tables /\ call[q].kind = "create"
      /\ snap[q].participants = db.participants /\ snap[q].experiences = db.experiences
  BY DecidesOnTables DEF DecideCreate
<1>2. pc[q] = "loading"
  BY <1>1 DEF Inv, Phase, Loading
<1>3. db.experiences[call[q].experience] = NoRow
  BY <1>1, <1>2 DEF Current
<1>4. Advance(q, "storing", Opened(q, snap[q], call[q].experience, call[q].status), {})
  BY DEF DecideCreate
<1> QED
  BY <1>1, <1>3, <1>4, OpeningIsSure

LEMMA BackfillIsSure ==
    ASSUME Inv, NEW q \in Requests, Current(q), DecideBackfill(q), TypeOK'
    PROVE  Sure(q)'
<1>1. /\ pc[q] \in Loading /\ loaded[q] = Tables /\ call[q].kind = "backfill"
      /\ snap[q].participants = db.participants /\ snap[q].experiences = db.experiences
  BY DecidesOnTables DEF DecideBackfill
<1>2. CASE pc[q] = "adding"
  <2>1. db.experiences[call[q].experience] = NoRow
    BY <1>2 DEF Current
  <2>2. Advance(q, "storing", Opened(q, snap[q], call[q].experience, call[q].status), {})
    BY <1>2 DEF DecideBackfill
  <2> QED
    BY <1>1, <2>1, <2>2, OpeningIsSure
<1>3. CASE pc[q] # "adding" /\ Moved(snap[q], call[q].experience)
  <2>1. pc' = [pc EXCEPT ![q] = "ok"]
    BY <1>3 DEF DecideBackfill, End
  <2>2. pc'[q] \in Answers
    BY <2>1 DEF Inv, TypeOK, Answers
  <2> QED
    BY <2>2, EndedIsSure
<1>4. CASE pc[q] # "adding" /\ ~Moved(snap[q], call[q].experience)
  <2>1. /\ pc'[q] \in {"checking", "adding"} /\ loaded'[q] = {} /\ call' = call /\ db' = db
    BY <1>4 DEF DecideBackfill, Inv, TypeOK
  <2>2. db.experiences[call[q].experience] = NoRow
    BY <1>1, <1>4 DEF Moved
  <2> QED
    BY <2>1, <2>2 DEF Sure, Current, Acting, Loading
<1> QED
  BY <1>2, <1>3, <1>4

LEMMA RejectedIsSure ==
    ASSUME TypeOK, NEW q \in Requests, Reject(q)
    PROVE  Sure(q)'
<1>1. pc'[q] \in Answers
  BY DEF Reject, End, TypeOK, Answers
<1> QED
  BY <1>1, EndedIsSure

LEMMA UpdatingIsSure ==
    ASSUME Inv, NEW q \in Requests, Current(q), DecideUpdate(q)
    PROVE  Sure(q)'
<1> DEFINE c == call[q]
           e == c.experience
           s == [snap[q] EXCEPT !.experiences[c.experience] = Updated(@, c)]
<1>1. /\ pc[q] \in Loading /\ loaded[q] = Tables /\ c.kind = "update"
      /\ snap[q].participants = db.participants /\ snap[q].experiences = db.experiences
  BY DecidesOnTables DEF DecideUpdate
<1>2. TypeOK /\ pc[q] # "idle" /\ c \in Calls /\ snap[q] \in Store
  BY <1>1, StartedHaveCalls DEF Loading, TypeOK, Inv
<1>3. CASE MayManage(snap[q], c)
  <2>1. Advance(q, "storing", s, {}) /\ "storing" \in Stages /\ {} \in SUBSET Requests
    BY <1>3 DEF DecideUpdate, Stages
  <2>2. /\ s \in Store /\ s.participants = snap[q].participants
        /\ s.experiences[e] = Updated(snap[q].experiences[e], c)
        /\ \A x \in Experiences \ {e} : s.experiences[x] = snap[q].experiences[x]
        /\ snap[q].experiences[e] # NoRow
    BY <1>1, <1>2, <1>3, UpdatedParts DEF MayManage
  <2> HIDE DEF s
  <2>3. /\ pc'[q] = "storing" /\ snap'[q] = s /\ loaded'[q] = loaded[q]
        /\ call' = call /\ db' = db
    BY <1>2, <2>1, <2>2, AdvanceEffect DEF Leaves
  <2>4. Current(q)'
    BY <1>1, <2>3, DecidedIsCurrent
  <2>5. Updating(q)'
    BY <1>1, <2>2, <2>3 DEF Updating, OnlyExperience
  <2> QED
    BY <1>1, <2>3, <2>4, <2>5 DEF Sure, Doing
<1>4. CASE ~MayManage(snap[q], c)
  BY <1>2, <1>4, RejectedIsSure DEF DecideUpdate
<1> QED
  BY <1>3, <1>4

\* The row WithRole writes is the person's.
LEMMA WithRolePuts ==
    ASSUME NEW q \in Requests, NEW s \in Store, s.participants = db.participants,
           NEW e \in Experiences, NEW p \in Persons, NEW role \in Roles,
           NEW b \in Requests \cup {NoRow}
    PROVE  /\ WithRole(q, s, e, p, role, b) \in Store
           /\ WithRole(q, s, e, p, role, b).experiences = s.experiences
           /\ WithRole(q, s, e, p, role, b).bookings = s.bookings
           /\ IdFor(q, s, e, p) \in Ids
           /\ WithRole(q, s, e, p, role, b).participants[IdFor(q, s, e, p)] = RowOf(e, p, role, b)
           /\ \A j \in Ids \ {IdFor(q, s, e, p)} :
                 WithRole(q, s, e, p, role, b).participants[j] = db.participants[j]
           /\ \/ IdFor(q, s, e, p) \in OfPerson(db, e, p)
              \/ IdFor(q, s, e, p) = q /\ OfPerson(db, e, p) = {}
<1>1. OfPerson(s, e, p) = OfPerson(db, e, p)
  BY SameRows
<1> QED
  BY <1>1, IdForIsAnId, WithRoleWrites

LEMMA JoiningIsSure ==
    ASSUME Inv, NEW q \in Requests, Current(q), DecideJoin(q)
    PROVE  Sure(q)'
<1> DEFINE c == call[q]
           e == c.experience
           p == c.by
           read == snap[q]
           s == WithRole(q, read, e, p, "waitlist", NoRow)
<1>1. /\ pc[q] \in Loading /\ loaded[q] = Tables /\ c.kind = "join"
      /\ read.participants = db.participants /\ read.experiences = db.experiences
  BY DecidesOnTables DEF DecideJoin
<1>2. /\ TypeOK /\ pc[q] # "idle" /\ c \in Calls /\ read \in Store /\ db.bookings[q] = NoRow
      /\ e \in Experiences /\ p \in Persons
  BY <1>1, StartedHaveCalls, CallsHaveFields DEF Loading, TypeOK, Inv, Phase
<1>3. /\ IsPublished(read, e) <=> IsPublished(db, e)
      /\ Seated(read, e, p) <=> Seated(db, e, p)
      /\ IsFull(read, e) <=> IsFull(db, e)
  BY <1>1, SameStore, SameRows
<1>4. CASE ~IsPublished(read, e) \/ Seated(read, e, p)
  BY <1>2, <1>4, RejectedIsSure DEF DecideJoin
<1>5. CASE ~(~IsPublished(read, e) \/ Seated(read, e, p)) /\ IsFull(read, e)
  <2>1. Advance(q, "storing", s, {}) /\ "storing" \in Stages /\ {} \in SUBSET Requests
    BY <1>5 DEF DecideJoin, Stages
  <2>2. /\ s \in Store /\ s.experiences = db.experiences
        /\ \E i \in Ids :
              /\ s.participants[i] = RowOf(e, p, "waitlist", NoRow)
              /\ \A j \in Ids \ {i} : s.participants[j] = db.participants[j]
              /\ i \in OfPerson(db, e, p) \/ (i = q /\ OfPerson(db, e, p) = {})
    <3> HIDE DEF e, p, read
    <3> QED
      BY <1>1, <1>2, WithRolePuts DEF Roles
  <2> HIDE DEF s
  <2>3. /\ pc'[q] = "storing" /\ snap'[q] = s /\ loaded'[q] = loaded[q]
        /\ call' = call /\ db' = db
    BY <1>2, <2>1, <2>2, AdvanceEffect DEF Leaves
  <2>4. \E i \in Ids : Puts(q, i, "waitlist", NoRow)'
    BY <2>2, <2>3 DEF Puts, OnlyRow
  <2>5. Joining(q)'
    BY <1>2, <1>3, <1>5, <2>2, <2>3, <2>4 DEF Joining
  <2> QED
    BY <1>1, <2>3, <2>5, DecidedIsCurrent DEF Sure, Doing
<1>6. CASE ~(~IsPublished(read, e) \/ Seated(read, e, p)) /\ ~IsFull(read, e)
  <2>1. Advance(q, "booking", read, {q}) /\ "booking" \in Stages /\ {q} \in SUBSET Requests
    BY <1>6 DEF DecideJoin, Stages
  <2>2. /\ pc'[q] = "booking" /\ snap'[q] = read /\ loaded'[q] = loaded[q]
        /\ call' = call /\ db' = db
    BY <1>2, <2>1, AdvanceEffect DEF Leaves
  <2>3. Joining(q)'
    BY <1>1, <1>2, <1>3, <1>6, <2>2 DEF Joining
  <2> QED
    BY <1>1, <2>2, <2>3, DecidedIsCurrent DEF Sure, Doing
<1> QED
  BY <1>4, <1>5, <1>6

LEMMA InvitingIsSure ==
    ASSUME Inv, NEW q \in Requests, Current(q), DecideInvite(q)
    PROVE  Sure(q)'
<1> DEFINE c == call[q]
           e == c.experience
           p == c.guest
           read == snap[q]
           i == IdFor(q, read, e, p)
           s == WithRole(q, read, e, p, "invited", NoRow)
<1>1. /\ pc[q] \in Loading /\ loaded[q] = Tables /\ c.kind = "invite"
      /\ read.participants = db.participants /\ read.experiences = db.experiences
  BY DecidesOnTables DEF DecideInvite
<1>2. /\ TypeOK /\ pc[q] # "idle" /\ read \in Store /\ e \in Experiences /\ p \in Persons
      /\ i \in Ids
  BY <1>1, StartedHaveCalls, CallsHaveFields, IdForIsAnId DEF Loading, TypeOK, Inv
<1>3. Reject(q) \/ Advance(q, "storing", s, {})
  BY DEF DecideInvite
<1>4. CASE Advance(q, "storing", s, {})
  <2>1. Advance(q, "storing", s, {}) /\ "storing" \in Stages /\ {} \in SUBSET Requests
    BY <1>4 DEF Stages
  <2>2. /\ s \in Store /\ s.experiences = db.experiences
        /\ s.participants[i] = RowOf(e, p, "invited", NoRow)
        /\ RowOf(e, p, "invited", NoRow) \in Participation
    <3> HIDE DEF e, p, read
    <3> QED
      BY <1>1, <1>2, WithRoleWrites DEF Roles
  <2>3. s.participants[i] # NoRow /\ s.participants[i].role = "invited"
    BY <2>2, ExperienceConstants DEF RowOf
  <2> HIDE DEF s, i
  <2>4. /\ pc'[q] = "storing" /\ snap'[q] = s /\ loaded'[q] = loaded[q]
        /\ call' = call /\ db' = db
    BY <1>2, <2>1, <2>2, AdvanceEffect DEF Leaves
  <2>5. Inviting(q)'
    BY <1>2, <2>2, <2>3, <2>4 DEF Inviting
  <2> QED
    BY <1>1, <2>4, <2>5, DecidedIsCurrent DEF Sure, Doing
<1> QED
  BY <1>2, <1>3, <1>4, RejectedIsSure

LEMMA LeavingIsSure ==
    ASSUME Inv, NEW q \in Requests, Current(q), DecideLeave(q)
    PROVE  Sure(q)'
<1> DEFINE c == call[q]
           e == c.experience
           p == c.by
           read == snap[q]
           i == IdFor(q, read, e, p)
           row == read.participants[i]
           place == IF row.booking = NoRow THEN "storing" ELSE "booking"
           s == WithRole(q, read, e, p, "cancelled", row.booking)
           ks == {row.booking} \ {NoRow}
<1>1. /\ pc[q] \in Loading /\ loaded[q] = Tables /\ c.kind = "leave"
      /\ read.participants = db.participants /\ read.experiences = db.experiences
  BY DecidesOnTables DEF DecideLeave
<1>2. /\ TypeOK /\ pc[q] # "idle" /\ c \in Calls /\ read \in Store
      /\ e \in Experiences /\ p \in Persons
  BY <1>1, StartedHaveCalls, CallsHaveFields DEF Loading, TypeOK, Inv
<1>3. \/ Reject(q)
      \/ /\ OfPerson(read, e, p) # {}
         /\ \A j \in OfPerson(read, e, p) : read.participants[j].role # "creator"
         /\ Advance(q, place, s, ks)
  BY DEF DecideLeave, IdFor
<1>4. CASE /\ OfPerson(read, e, p) # {}
           /\ \A j \in OfPerson(read, e, p) : read.participants[j].role # "creator"
           /\ Advance(q, place, s, ks)
  <2>1. i \in OfPerson(read, e, p) /\ i \in OfPerson(db, e, p)
    BY <1>1, <1>4, IdForIsAnId, SameRows
  <2>2. i \in Ids /\ row # NoRow /\ row.booking \in Requests \cup {NoRow}
    BY <1>2, <2>1, StoreParts DEF OfPerson, RowsOf, Participation
  <2>3. /\ s \in Store /\ s.experiences = db.experiences
        /\ s.participants[i] = RowOf(e, p, "cancelled", row.booking)
        /\ \A j \in Ids \ {i} : s.participants[j] = db.participants[j]
    <3> DEFINE b == row.booking
    <3>1. b \in Requests \cup {NoRow}
      BY <2>2
    <3> HIDE DEF e, p, read, b
    <3> QED
      BY <1>1, <1>2, <3>1, WithRolePuts DEF Roles, b
  <2>4. /\ place \in {"storing", "booking"} /\ place \in Stages /\ ks \in SUBSET Requests
        /\ row = db.participants[i] /\ row.role # "creator"
        /\ row.booking # NoRow => place = "booking" /\ row.booking \in ks
    BY <1>1, <1>4, <2>1, <2>2 DEF Stages
  <2>5. ks = {row.booking} \ {NoRow} /\ Advance(q, place, s, ks)
    BY <1>4
  <2> HIDE DEF s, place, ks
  <2>9. PICK n \in Ids : n = i
    BY <2>2
  <2>6. /\ pc'[q] = place /\ snap'[q] = s /\ loaded'[q] = loaded[q] /\ work'[q] = ks
        /\ call' = call /\ db' = db
    BY <1>2, <2>3, <2>4, <2>5, AdvanceEffect DEF Leaves
  <2>10. /\ n \in OfPerson(db, e, p) /\ s.experiences = db.experiences
         /\ s.participants[n] = RowOf(e, p, "cancelled", db.participants[n].booking)
         /\ \A j \in Ids \ {n} : s.participants[j] = db.participants[j]
         /\ db.participants[n].role # "creator"
         /\ db.participants[n].booking # NoRow => place = "booking" /\ db.participants[n].booking \in ks
         /\ ks = {db.participants[n].booking} \ {NoRow}
    BY <2>1, <2>3, <2>4, <2>5, <2>9
  <2> HIDE DEF i, row
  <2>7. Puts(q, n, "cancelled", db.participants[n].booking)'
    BY <2>6, <2>10 DEF Puts, OnlyRow
  <2>8. Leaving(q)'
    BY <2>4, <2>6, <2>7, <2>10 DEF Leaving, Released
  <2> QED
    BY <1>1, <2>4, <2>6, <2>8, DecidedIsCurrent DEF Sure, Doing
<1> QED
  BY <1>2, <1>3, <1>4, RejectedIsSure

LEMMA CancellingIsSure ==
    ASSUME Inv, NEW q \in Requests, Current(q), DecideCancel(q)
    PROVE  Sure(q)'
<1> DEFINE c == call[q]
           e == c.experience
           read == snap[q]
           s == Dismissed(read, e)
           ks == Linked(read, e)
           place == IF ks = {} THEN "storing" ELSE "booking"
<1>1. /\ pc[q] \in Loading /\ loaded[q] = Tables /\ c.kind = "cancel"
      /\ read.participants = db.participants /\ read.experiences = db.experiences
  BY DecidesOnTables DEF DecideCancel
<1>2. TypeOK /\ pc[q] # "idle" /\ read \in Store /\ e \in Experiences
  BY <1>1, StartedHaveCalls, CallsHaveFields DEF Loading, TypeOK, Inv
<1>3. CASE MayManage(read, c)
  <2>1. Advance(q, place, s, ks)
    BY <1>3 DEF DecideCancel
  <2>2. read.experiences[e] # NoRow
    BY <1>3 DEF MayManage
  <2>3. /\ s \in Store
        /\ s.experiences[e] \in Experience
        /\ s.experiences[e].status = "cancelled"
        /\ s.experiences[e].capacity = read.experiences[e].capacity
        /\ \A x \in Experiences \ {e} : s.experiences[x] = read.experiences[x]
        /\ \A i \in Ids : s.participants[i] =
              IF i \in RowsOf(read, e) /\ OccupiesSeat(read.participants[i])
                THEN [read.participants[i] EXCEPT !.role = "cancelled"]
                ELSE read.participants[i]
    BY <1>2, <2>2, DismissedParts
  <2>4. s.experiences[e] # NoRow
    BY <2>3, ExperienceConstants
  <2>5. /\ ks \in SUBSET Requests /\ ks = Linked(db, e) /\ RowsOf(read, e) = RowsOf(db, e)
        /\ place \in {"storing", "booking"} /\ place \in Stages
        /\ ks # {} => place = "booking"
    BY <1>1, <1>2, LinkedAreRequests, SameRows DEF Stages
  <2> HIDE DEF s, ks, place
  <2>6. /\ pc'[q] = place /\ snap'[q] = s /\ loaded'[q] = loaded[q] /\ work'[q] = ks
        /\ call' = call /\ db' = db
    BY <1>2, <2>1, <2>3, <2>5, AdvanceEffect DEF Leaves
  <2>7. \A k \in Linked(db, e) : pc'[q] = "booking" /\ k \in work'[q]
    BY <2>5, <2>6
  <2>8. Cancelling(q)'
    BY <1>1, <2>2, <2>3, <2>4, <2>5, <2>6, <2>7 DEF Cancelling, Released, OnlyExperience
  <2> QED
    BY <1>1, <2>5, <2>6, <2>8, DecidedIsCurrent DEF Sure, Doing
<1>4. CASE ~MayManage(read, c)
  BY <1>2, <1>4, RejectedIsSure DEF DecideCancel
<1> QED
  BY <1>3, <1>4

LEMMA StartingIsSure ==
    ASSUME Inv, NEW q \in Requests, NEW c \in Calls, Start(q, c)
    PROVE  Sure(q)'
<1>1. /\ pc'[q] = "loading" /\ loaded'[q] = loaded[q] /\ call'[q] = c /\ db' = db
  BY StartEffect DEF Leaves, Inv
<1>2. loaded[q] = {}
  BY DEF Inv, Phase, Start
<1>3. c.kind = "create" => db.experiences[c.experience] = NoRow
  BY DEF Start, Fresh
<1> QED
  BY <1>1, <1>2, <1>3 DEF Sure, Current, Acting, Loading

\* While the bookings are read, nothing else is.
LEMMA DoingStays ==
    ASSUME NEW q \in Requests, Doing(q), pc[q] = "booking", call[q].kind \in {"join", "leave", "cancel"},
           pc'[q] = pc[q], call'[q] = call[q], db' = db, work'[q] = work[q],
           snap'[q].participants = snap[q].participants,
           snap'[q].experiences = snap[q].experiences
    PROVE  Doing(q)'
<1>1. CASE call[q].kind = "join"
  <2>1. Joining(q)
    BY <1>1 DEF Doing
  <2>2. Joining(q)'
    BY <2>1 DEF Joining, IsPublished, Seated, IsFull, OccupyingCount, OfPerson, RowsOf
  <2> QED
    BY <1>1, <2>2 DEF Doing
<1>2. CASE call[q].kind = "leave"
  <2>1. Leaving(q)
    BY <1>2 DEF Doing
  <2>2. Leaving(q)'
    BY <2>1 DEF Leaving, Puts, OnlyRow, Released, OfPerson, RowsOf
  <2> QED
    BY <1>2, <2>2 DEF Doing
<1>3. CASE call[q].kind = "cancel"
  <2>1. Cancelling(q)
    BY <1>3 DEF Doing
  <2>2. Cancelling(q)'
    BY <2>1 DEF Cancelling, Linked, Released, OnlyExperience, RowsOf
  <2> QED
    BY <1>3, <2>2 DEF Doing
<1> QED
  BY <1>1, <1>2, <1>3

LEMMA SelectingIsSure ==
    ASSUME Inv, NEW q \in Requests, Sure(q), NEW t \in Tables \cup {"bookings"},
           NEW rows \in {db[t], NoStore[t]}, Reads(q, t), Selects(q, t, rows), ReadsAreTrue
    PROVE  Sure(q)'
<1>1. /\ pc'[q] = pc[q] /\ snap'[q] = [snap[q] EXCEPT ![t] = rows]
      /\ loaded'[q] = loaded[q] \cup {t} /\ work'[q] = work[q]
  BY SelectEffect DEF Leaves, Inv
<1>2. call' = call /\ db' = db
  BY DEF Selects
<1>3. snap'[q][t] = db[t]
  BY <1>1 DEF ReadsAreTrue, Reads
<1>4. /\ t # "participants" => snap'[q].participants = snap[q].participants
      /\ t # "bookings" => snap'[q].bookings = snap[q].bookings
      /\ t # "experiences" => snap'[q].experiences = snap[q].experiences
  BY <1>1 DEF Inv, TypeOK, Store, Tables
<1>5. CASE pc[q] \in Loading
  <2>1. t \in Tables /\ pc[q] # "booking"
    BY <1>5 DEF Reads, Loading
  <2>2. ASSUME NEW u \in loaded'[q]
        PROVE  snap'[q][u] = db'[u]
    <3>1. CASE u = t
      BY <1>2, <1>3, <3>1
    <3>2. CASE u # t
      <4>1. u \in loaded[q] /\ snap[q][u] = db[u]
        BY <1>1, <1>5, <2>2, <3>2 DEF Sure, Current
      <4>2. u \in Tables \cup {"bookings"}
        BY <4>1 DEF Inv, TypeOK
      <4>3. snap'[q][u] = snap[q][u]
        BY <1>1, <3>2, <4>2 DEF Inv, TypeOK, Store, Tables
      <4> QED
        BY <1>2, <4>1, <4>3
    <3> QED
      BY <3>1, <3>2
  <2>3. Current(q)'
    BY <1>1, <1>2, <1>5, <2>1, <2>2 DEF Sure, Current
  <2> QED
    BY <1>1, <1>5, <2>3 DEF Sure, Acting, Loading
<1>6. CASE pc[q] = "booking"
  <2>1. t = "bookings"
    BY <1>6 DEF Reads, Loading
  <2>2. Doing(q) /\ call[q].kind \in {"join", "leave", "cancel"}
    BY <1>6 DEF Sure, Acting, Inv, Phase
  <2>3. Doing(q)'
    BY <1>1, <1>2, <1>4, <1>6, <2>1, <2>2, DoingStays
  <2>4. Current(q)'
    BY <1>1, <1>2, <1>3, <1>6, <2>1 DEF Current, Loading
  <2> QED
    BY <2>3, <2>4 DEF Sure
<1> QED
  BY <1>5, <1>6 DEF Reads

LEMMA ReservingIsSure ==
    ASSUME Inv, NEW q \in Requests, Sure(q), Reserve(q)
    PROVE  Sure(q)'
<1>1. pc[q] = "reserving" /\ call[q].kind = "join" /\ Joining(q)
  BY DEF Reserve, Inv, Phase, Sure, Acting, Doing
<1>2. /\ pc'[q] = "storing" /\ snap'[q] = Forgotten(q) /\ call' = call
      /\ db' = [db EXCEPT !.bookings = Upsert(@, snap[q].bookings)]
  BY ReserveEffect DEF Leaves, Reserve, Inv
<1>3. /\ snap'[q].experiences = snap[q].experiences
      /\ snap'[q].participants = snap[q].participants
  BY <1>2, ForgottenIsAStore DEF Inv
<1>4. snap[q].bookings \in [Requests -> Booking \cup {NoRow}]
  BY StoreParts DEF Inv, TypeOK
<1>5. /\ db'.experiences = db.experiences /\ db'.participants = db.participants
      /\ \A k \in Requests : db'.bookings[k] = IF snap[q].bookings[k] # NoRow THEN snap[q].bookings[k]
                                               ELSE db.bookings[k]
  BY <1>2, <1>4, BookingsWithRows DEF Inv
<1>6. db'.bookings[q] # NoRow /\ db'.bookings[q].active
  <2>1. snap[q].bookings[q].active /\ snap[q].bookings[q] # NoRow
    BY <1>1 DEF Joining, MakesBooking, Inv, Phase
  <2> QED
    BY <1>5, <2>1
<1> HIDE DEF Forgotten
<1>7. /\ \E i \in Ids : Puts(q, i, "participant", q)
      /\ IsPublished(db, call[q].experience) /\ ~Seated(db, call[q].experience, call[q].by)
      /\ ~IsFull(db, call[q].experience) /\ snap[q].experiences = db.experiences
  BY <1>1 DEF Joining
<1>8. \E i \in Ids : Puts(q, i, "participant", q)'
  BY <1>2, <1>3, <1>5, <1>7 DEF Puts, OnlyRow, OfPerson, RowsOf
<1>9. /\ IsPublished(db', call[q].experience) /\ ~Seated(db', call[q].experience, call[q].by)
      /\ ~IsFull(db', call[q].experience) /\ snap'[q].experiences = db'.experiences
  BY <1>3, <1>5, <1>7, SameRows, SameStore
<1>10. Joining(q)'
  BY <1>2, <1>6, <1>8, <1>9 DEF Joining
<1> QED
  BY <1>1, <1>2, <1>10 DEF Sure, Current, Doing, Loading

LEMMA CountingIsSure ==
    ASSUME Inv, NEW q \in Requests, Sure(q), CountPlaces(q)
    PROVE  Sure(q)'
<1> DEFINE e == call[q].experience
           p == call[q].by
           read == snap[q]
           i == IdFor(q, read, e, p)
           w == read.experiences[e].slot
           row == [experience |-> e, by |-> p, slot |-> w, active |-> TRUE]
           joined == WithRole(q, read, e, p, "participant", q)
           waiting == WithRole(q, read, e, p, "waitlist", NoRow)
           taken == [joined EXCEPT !.bookings[q] = row]
           passed == [waiting EXCEPT !.bookings = NoStore.bookings]
<1>1. /\ TypeOK /\ pc[q] # "idle" /\ pc[q] = "booking" /\ call[q].kind = "join"
      /\ e \in Experiences /\ p \in Persons /\ read \in Store
      /\ read.bookings = db.bookings /\ db.bookings[q] = NoRow
  BY StartedHaveCalls, CallsHaveFields DEF CountPlaces, Inv, Phase, TypeOK, Sure, Current
<1>2. /\ read.experiences = db.experiences /\ read.participants = db.participants
      /\ IsPublished(db, e) /\ ~Seated(db, e, p) /\ ~IsFull(db, e)
  BY <1>1 DEF Sure, Acting, Doing, Joining
<1>3. row \in Booking
  BY <1>1, <1>2, StoreParts DEF IsPublished, Booking, Experience
<1>4. \/ /\ HasPlace(read.bookings, e, w, db.experiences[e].capacity)
         /\ Advance(q, "reserving", taken, {})
      \/ Advance(q, "storing", passed, {})
  BY DEF CountPlaces
<1> HIDE DEF row
<1>5. /\ joined \in Store /\ joined.experiences = read.experiences /\ joined.bookings = read.bookings
      /\ waiting \in Store /\ waiting.experiences = read.experiences
      /\ i \in Ids
      /\ joined.participants[i] = RowOf(e, p, "participant", q)
      /\ \A j \in Ids \ {i} : joined.participants[j] = db.participants[j]
      /\ waiting.participants[i] = RowOf(e, p, "waitlist", NoRow)
      /\ \A j \in Ids \ {i} : waiting.participants[j] = db.participants[j]
      /\ \/ i \in OfPerson(db, e, p)
         \/ i = q /\ OfPerson(db, e, p) = {}
  <2> HIDE DEF e, p, read
  <2> QED
    BY <1>1, <1>2, WithRolePuts DEF Roles
<1> HIDE DEF joined, waiting
<1>6. /\ taken \in Store /\ taken.experiences = joined.experiences
      /\ taken.participants = joined.participants
      /\ taken.bookings[q] = row
      /\ \A k \in Requests \ {q} : taken.bookings[k] = read.bookings[k]
  <2> DEFINE rows == [read.bookings EXCEPT ![q] = row]
  <2>1. taken = [joined EXCEPT !.bookings = rows]
    BY <1>5 DEF Store
  <2>2. rows \in [Requests -> Booking \cup {NoRow}]
    BY <1>1, <1>3, StoreParts
  <2>3. rows[q] = row /\ \A k \in Requests \ {q} : rows[k] = read.bookings[k]
    BY <1>1, StoreParts
  <2>4. taken \in Store
    BY <1>5, <2>1, <2>2, WithTable
  <2> HIDE DEF rows
  <2>5. /\ [joined EXCEPT !.bookings = rows].bookings = rows
        /\ [joined EXCEPT !.bookings = rows].experiences = joined.experiences
        /\ [joined EXCEPT !.bookings = rows].participants = joined.participants
    BY <1>5 DEF Store
  <2> QED
    BY <2>1, <2>3, <2>4, <2>5
<1>7. /\ passed \in Store /\ passed.experiences = waiting.experiences
      /\ passed.participants = waiting.participants
  <2>1. passed \in Store
    BY <1>5, NoStoreIsAStore, StoreParts, WithTable
  <2> QED
    BY <1>5, <2>1 DEF Store
<1> HIDE DEF taken, passed
<1>8. /\ "reserving" \in Stages /\ "storing" \in Stages /\ {} \in SUBSET Requests
  BY DEF Stages
<1>9. CASE /\ HasPlace(read.bookings, e, w, db.experiences[e].capacity)
           /\ Advance(q, "reserving", taken, {})
  <2>1. pc'[q] = "reserving" /\ snap'[q] = taken /\ call' = call /\ db' = db
    BY <1>1, <1>6, <1>8, <1>9, AdvanceEffect DEF Leaves
  <2>2. PICK n \in Ids : n = i
    BY <1>5
  <2>3. Puts(q, n, "participant", q)'
    BY <1>5, <1>6, <2>1, <2>2 DEF Puts, OnlyRow
  <2>4. MakesBooking(q)'
    BY <1>1, <1>2, <1>6, <1>9, <2>1 DEF MakesBooking, OnlyBooking, row
  <2>5. Joining(q)'
    BY <1>2, <1>5, <1>6, <2>1, <2>3, <2>4 DEF Joining
  <2> QED
    BY <1>1, <2>1, <2>5 DEF Sure, Current, Doing, Loading
<1>10. CASE Advance(q, "storing", passed, {})
  <2>1. pc'[q] = "storing" /\ snap'[q] = passed /\ call' = call /\ db' = db
    BY <1>1, <1>7, <1>8, <1>10, AdvanceEffect DEF Leaves
  <2>2. PICK n \in Ids : n = i
    BY <1>5
  <2>3. Puts(q, n, "waitlist", NoRow)'
    BY <1>5, <1>7, <2>1, <2>2 DEF Puts, OnlyRow
  <2>4. Joining(q)'
    BY <1>1, <1>2, <1>5, <1>7, <2>1, <2>3 DEF Joining
  <2> QED
    BY <1>1, <2>1, <2>4 DEF Sure, Current, Doing, Loading
<1> QED
  BY <1>4, <1>9, <1>10

\* A booking that is released is cancelled, and no other changes.
LEMMA ReleasedIsCancelled ==
    ASSUME Inv, NEW q \in Requests, Sure(q), NEW k \in Requests, Release(q, k)
    PROVE  /\ db'.experiences = db.experiences /\ db'.participants = db.participants
           /\ \A j \in Requests \ {k} : db'.bookings[j] = db.bookings[j]
           /\ db.bookings[k] # NoRow => /\ ~db'.bookings[k].active
                                        /\ db'.bookings[k].slot = db.bookings[k].slot
           /\ db.bookings[k] = NoRow => db'.bookings[k] = NoRow
<1>1. snap[q].bookings = db.bookings
  BY DEF Release, Sure, Current
<1>2. CASE snap[q].bookings[k] = NoRow
  BY <1>1, <1>2 DEF Release
<1>3. CASE snap[q].bookings[k] # NoRow
  <2> DEFINE rows == Cancelled(snap[q].bookings, k)
  <2>1. /\ rows \in [Requests -> Booking \cup {NoRow}]
        /\ \A j \in Requests \ {k} : rows[j] = snap[q].bookings[j]
        /\ rows[k] # NoRow /\ rows[k].active = FALSE
        /\ rows[k].slot = snap[q].bookings[k].slot
    BY <1>3, CancelledIsATable DEF Inv
  <2>2. db' = [db EXCEPT !.bookings = Upsert(@, rows)]
    BY <1>3 DEF Release
  <2> HIDE DEF rows
  <2>3. /\ db'.experiences = db.experiences /\ db'.participants = db.participants
        /\ \A j \in Requests : db'.bookings[j] = IF rows[j] # NoRow THEN rows[j] ELSE db.bookings[j]
    BY <2>1, <2>2, BookingsWithRows DEF Inv
  <2> QED
    BY <1>1, <1>3, <2>1, <2>3
<1> QED
  BY <1>2, <1>3

LEMMA ReleasingIsSure ==
    ASSUME Inv, NEW q \in Requests, Sure(q), NEW k \in Requests, Release(q, k)
    PROVE  Sure(q)'
<1>1. /\ pc[q] = "booking" /\ call[q].kind \in {"leave", "cancel"} /\ k \in work[q]
      /\ work[q] \subseteq Requests
  BY DEF Release, Inv, TypeOK
<1>2. /\ snap'[q] = Forgotten(q) /\ call' = call /\ loaded'[q] = Tables
      /\ work'[q] = work[q] \ {k}
      /\ pc'[q] = IF work[q] = {k} THEN "storing" ELSE "booking"
  BY ReleaseEffect DEF Leaves, Inv
<1>3. /\ snap'[q].experiences = snap[q].experiences
      /\ snap'[q].participants = snap[q].participants
  BY <1>2, ForgottenIsAStore DEF Inv
<1>4. /\ db'.experiences = db.experiences /\ db'.participants = db.participants
      /\ \A j \in Requests \ {k} : db'.bookings[j] = db.bookings[j]
      /\ db.bookings[k] # NoRow => ~db'.bookings[k].active
  BY ReleasedIsCancelled
<1>5. ASSUME NEW j \in Requests, db.bookings[j] # NoRow, Released(q, j)
      PROVE  Released(q, j)'
  <2>1. CASE j = k
    BY <1>4, <1>5, <2>1 DEF Released
  <2>2. CASE j # k
    BY <1>1, <1>2, <1>4, <1>5, <2>2 DEF Released
  <2> QED
    BY <2>1, <2>2
<1>6. ASSUME NEW i \in Ids, db.participants[i] # NoRow, db.participants[i].booking # NoRow
      PROVE  /\ db.participants[i].booking \in Requests
             /\ db.bookings[db.participants[i].booking] # NoRow
  BY <1>6, StoreParts DEF Inv, TypeOK, Referring, Participation
<1>7. \A e, p : OfPerson(db', e, p) = OfPerson(db, e, p) /\ Linked(db', e) = Linked(db, e)
               /\ RowsOf(db', e) = RowsOf(db, e)
  BY <1>4, SameRows
<1>8. CASE call[q].kind = "leave"
  <2>1. PICK i \in OfPerson(db, call[q].experience, call[q].by) :
          /\ db.participants[i].role # "creator"
          /\ Puts(q, i, "cancelled", db.participants[i].booking)
          /\ db.participants[i].booking # NoRow => Released(q, db.participants[i].booking)
          /\ work[q] \subseteq {db.participants[i].booking} \ {NoRow}
    BY <1>1, <1>8 DEF Sure, Acting, Doing, Leaving
  <2>2. snap[q].experiences = db.experiences
    BY <1>1, <1>8 DEF Sure, Acting, Doing, Leaving
  <2>3. i \in Ids /\ db.participants[i] # NoRow /\ i \in OfPerson(db', call[q].experience, call[q].by)
    BY <1>7, <2>1 DEF OfPerson, RowsOf
  <2>4. Puts(q, i, "cancelled", db.participants[i].booking)'
    BY <1>2, <1>3, <1>4, <2>1, <2>3 DEF Puts, OnlyRow
  <2>5. db.participants[i].booking # NoRow => Released(q, db.participants[i].booking)'
    BY <1>5, <1>6, <2>1, <2>3, <1>4 DEF Released
  <2>6. Leaving(q)'
    BY <1>2, <1>3, <1>4, <2>1, <2>2, <2>3, <2>4, <2>5 DEF Leaving
  <2> QED
    BY <1>2, <1>8, <2>6, DecidedIsCurrent DEF Sure, Doing
<1>9. CASE call[q].kind = "cancel"
  <2> DEFINE e == call[q].experience
  <2>1. /\ Cancelling(q) /\ pc[q] # "enrolling"
    BY <1>1, <1>9 DEF Sure, Acting, Doing
  <2>2. \A j \in Linked(db, e) : j \in Requests /\ db.bookings[j] # NoRow /\ Released(q, j)
    BY <1>6, <2>1 DEF Cancelling, Linked, RowsOf
  <2>3. \A j \in Linked(db, e) : Released(q, j)'
    BY <1>5, <2>2
  <2>4. Cancelling(q)'
    BY <1>2, <1>3, <1>4, <1>7, <2>1, <2>3 DEF Cancelling, OnlyExperience
  <2> QED
    BY <1>2, <1>9, <2>4, DecidedIsCurrent DEF Sure, Doing
<1> QED
  BY <1>1, <1>8, <1>9

\* Experiences that were not changed are stored as they are.
LEMMA StoresTheSame ==
    ASSUME TypeOK, NEW q \in Requests, StoreExperiences(q), snap[q].experiences = db.experiences
    PROVE  db'.experiences = db.experiences
<1>1. /\ TypeOK'
      /\ \/ db' = db
         \/ \A x \in Experiences : db'.experiences[x] =
               IF snap[q].experiences[x] # NoRow THEN snap[q].experiences[x]
               ELSE db.experiences[x]
  BY StoreExperiencesEffect
<1>2. \A x \in Experiences : db'.experiences[x] = db.experiences[x]
  BY <1>1
<1>3. /\ db.experiences \in [Experiences -> Experience \cup {NoRow}]
      /\ db'.experiences \in [Experiences -> Experience \cup {NoRow}]
  BY <1>1, StoreParts DEF TypeOK
<1> QED
  BY <1>2, <1>3

LEMMA StoringIsSure ==
    ASSUME Inv, NEW q \in Requests, Sure(q), StoreExperiences(q), Grows(q)
    PROVE  Sure(q)'
<1>1. pc[q] = "storing" /\ Doing(q) /\ call[q] \in Calls /\ call[q].experience \in Experiences
  BY StartedHaveCalls, CallsHaveFields DEF StoreExperiences, Sure, Acting, Inv
<1>2. /\ pc'[q] = "enrolling" /\ snap'[q] = snap[q] /\ work'[q] = work[q] /\ call' = call
      /\ db'.participants = db.participants /\ db'.bookings = db.bookings
      /\ \/ db' = db /\ failed'[q] = TRUE
         \/ \A x \in Experiences : db'.experiences[x] =
               IF snap[q].experiences[x] # NoRow THEN snap[q].experiences[x]
               ELSE db.experiences[x]
  BY StoreExperiencesEffect DEF Leaves, Inv
<1>3. \A e, p : /\ OfPerson(db', e, p) = OfPerson(db, e, p) /\ Linked(db', e) = Linked(db, e)
                /\ RowsOf(db', e) = RowsOf(db, e) /\ (Seated(db', e, p) <=> Seated(db, e, p))
  BY <1>2, SameRows
<1>4. Current(q)'
  BY <1>2 DEF Current, Loading
<1>5. CASE call[q].kind \in {"create", "backfill"}
  <2>1. Creating(q)
    BY <1>1, <1>5 DEF Doing
  <2>2. Creating(q)'
    BY <1>2, <1>3, <2>1 DEF Creating, OnlyRow
  <2> QED
    BY <1>2, <1>4, <1>5, <2>2 DEF Sure, Doing
<1>6. CASE call[q].kind = "update"
  <2>1. Updating(q)
    BY <1>1, <1>6 DEF Doing
  <2>2. Updating(q)'
    BY <1>1, <1>2, <2>1 DEF Updating, Grows
  <2> QED
    BY <1>2, <1>4, <1>6, <2>2 DEF Sure, Doing
<1>7. CASE call[q].kind = "join"
  <2>1. Joining(q)
    BY <1>1, <1>7 DEF Doing
  <2>2. db'.experiences = db.experiences
    BY <2>1, StoresTheSame DEF Joining, Inv
  <2>3. \A e : /\ IsPublished(db', e) <=> IsPublished(db, e)
               /\ IsFull(db', e) <=> IsFull(db, e)
    BY <1>2, <2>2, SameStore
  <2>4. Joining(q)'
    <3>1. CASE /\ ~IsFull(db, call[q].experience)
               /\ \E i \in Ids : Puts(q, i, "participant", q)
               /\ db.bookings[q] # NoRow /\ db.bookings[q].active
      <4>1. \E i \in Ids : Puts(q, i, "participant", q)'
        BY <1>2, <1>3, <3>1 DEF Puts, OnlyRow
      <4> QED
        BY <1>2, <1>3, <2>1, <2>2, <2>3, <3>1, <4>1 DEF Joining
    <3>2. CASE (\E i \in Ids : Puts(q, i, "waitlist", NoRow)) /\ db.bookings[q] = NoRow
      <4>1. \E i \in Ids : Puts(q, i, "waitlist", NoRow)'
        BY <1>2, <1>3, <3>2 DEF Puts, OnlyRow
      <4> QED
        BY <1>2, <1>3, <2>1, <2>2, <2>3, <3>2, <4>1 DEF Joining
    <3> QED
      BY <1>1, <2>1, <3>1, <3>2 DEF Joining
  <2> QED
    BY <1>2, <1>4, <1>7, <2>4 DEF Sure, Doing
<1>8. CASE call[q].kind = "leave"
  <2>1. Leaving(q)
    BY <1>1, <1>8 DEF Doing
  <2>2. db'.experiences = db.experiences
    BY <2>1, StoresTheSame DEF Leaving, Inv
  <2>3. Leaving(q)'
    BY <1>1, <1>2, <1>3, <2>1, <2>2 DEF Leaving, Puts, OnlyRow, Released
  <2> QED
    BY <1>2, <1>4, <1>8, <2>3 DEF Sure, Doing
<1>9. CASE call[q].kind = "cancel"
  <2>1. Cancelling(q)
    BY <1>1, <1>9 DEF Doing
  <2>2. failed'[q] \/ db'.experiences[call[q].experience].status = "cancelled"
    BY <1>1, <1>2, <2>1 DEF Cancelling
  <2>3. Cancelling(q)'
    BY <1>1, <1>2, <1>3, <2>1, <2>2 DEF Cancelling, Released, Grows
  <2> QED
    BY <1>2, <1>4, <1>9, <2>3 DEF Sure, Doing
<1>10. CASE call[q].kind = "invite"
  <2>1. Inviting(q)
    BY <1>1, <1>10 DEF Doing
  <2>2. db'.experiences = db.experiences
    BY <2>1, StoresTheSame DEF Inviting, Inv
  <2>3. Inviting(q)'
    BY <1>2, <2>1, <2>2 DEF Inviting
  <2> QED
    BY <1>2, <1>4, <1>10, <2>3 DEF Sure, Doing
<1> QED
  BY <1>1, <1>5, <1>6, <1>7, <1>8, <1>9, <1>10, CallsHaveFields

LEMMA EndingIsSure ==
    ASSUME TypeOK, NEW q \in Requests, NEW answer \in Answers, End(q, answer)
    PROVE  Sure(q)'
<1>1. pc'[q] \in Answers
  BY DEF End, TypeOK
<1> QED
  BY <1>1, EndedIsSure

LEMMA ActsSurely ==
    ASSUME Inv, NEW q \in Requests, Sure(q), Acts(q), Advanced(q), ReadsAreTrue
    PROVE  Sure(q)'
<1>1. TypeOK /\ TypeOK' /\ Grows(q) /\ Current(q)
  BY DEF Inv, Advanced, Sure
<1>2. CASE \E c \in Calls : Start(q, c)
  BY <1>2, StartingIsSure
<1>3. ASSUME NEW t \in Tables \cup {"bookings"}, Read(q, t)
      PROVE  Sure(q)'
  BY <1>3, SelectingIsSure DEF Read, Selects
<1>4. ASSUME NEW t \in Tables \cup {"bookings"}, FailRead(q, t)
      PROVE  Sure(q)'
  <2>1. CASE End(q, "error")
    BY <1>1, <2>1, EndingIsSure DEF Answers
  <2>2. CASE /\ snap' = [snap EXCEPT ![q] = [@ EXCEPT ![t] = NoStore[t]]]
             /\ loaded' = [loaded EXCEPT ![q] = @ \cup {t}]
             /\ UNCHANGED <<db, pc, call, work, failed>>
    <3>1. Reads(q, t) /\ Selects(q, t, NoStore[t])
      BY <1>4, <2>2 DEF FailRead, Selects
    <3> QED
      BY <3>1, SelectingIsSure
  <2> QED
    BY <1>4, <2>1, <2>2 DEF FailRead
<1>5. CASE \/ DecideCreate(q) \/ DecideBackfill(q) \/ DecideUpdate(q) \/ DecideJoin(q)
           \/ DecideInvite(q) \/ DecideLeave(q) \/ DecideCancel(q)
  BY <1>1, <1>5, CreatingIsSure, BackfillIsSure, UpdatingIsSure, JoiningIsSure, InvitingIsSure,
     LeavingIsSure, CancellingIsSure
<1>6. CASE CountPlaces(q)
  BY <1>6, CountingIsSure
<1>7. CASE Reserve(q)
  BY <1>7, ReservingIsSure
<1>8. CASE \E k \in Requests : Release(q, k)
  BY <1>8, ReleasingIsSure
<1>9. CASE StoreExperiences(q)
  BY <1>1, <1>9, StoringIsSure
<1>10. CASE FailBooking(q) \/ StoreParticipants(q) \/ Crash(q)
  <2>1. \E answer \in Answers : End(q, answer)
    BY <1>10 DEF FailBooking, StoreParticipants, Crash, Answers, Verdict
  <2> QED
    BY <1>1, <2>1, EndingIsSure
<1> QED
  BY <1>2, <1>3, <1>4, <1>5, <1>6, <1>7, <1>8, <1>9, <1>10 DEF Acts

LEMMA SeqAtStart == Init => SeqInv
<1> SUFFICES ASSUME Init PROVE AtMostOne /\ \A q \in Requests : Sure(q)
  BY DEF SeqInv
<1>1. \A q \in Requests : pc[q] = "idle"
  BY DEF Init
<1> QED
  BY <1>1 DEF AtMostOne, InFlight, Sure, Current, Acting, Loading

LEMMA SeqStep == Inv /\ SeqInv /\ [Next]_<<vars, apart>> => SeqInv'
<1>1. ASSUME Inv, SeqInv, Next, apart'
      PROVE  AtMostOne' /\ \A q \in Requests : Sure(q)'
  <2>1. PICK q \in Requests : Acts(q)
    BY <1>1, SomebodyActs DEF Next
  <2>2. Advanced(q) /\ TypeOK /\ TypeOK' /\ OthersRest(q)
    BY <1>1, <2>1, ActsKeepInv DEF Advanced, Inv
  <2>3. /\ AtMostOne' /\ Sure(q) /\ ReadsAreTrue
        /\ \A p \in Requests \ {q} : p \notin InFlight /\ p \notin InFlight'
    BY <1>1, <2>1, <2>2, ActsAlone
  <2>4. Sure(q)'
    BY <1>1, <2>1, <2>2, <2>3, ActsSurely
  <2> QED
    BY <2>3, <2>4, OnlyOneIsSure
<1>2. ASSUME Inv, SeqInv, UNCHANGED <<vars, apart>>
      PROVE  SeqInv'
  <2>1. /\ db' = db /\ pc' = pc /\ call' = call /\ snap' = snap /\ loaded' = loaded
        /\ work' = work /\ failed' = failed /\ apart' = apart
    BY <1>2 DEF vars
  <2>2. InFlight' = InFlight
    BY <2>1 DEF InFlight
  <2>3. ASSUME NEW q \in Requests
        PROVE  /\ (Current(q)' <=> Current(q)) /\ (Creating(q)' <=> Creating(q))
               /\ (Updating(q)' <=> Updating(q)) /\ (Inviting(q)' <=> Inviting(q))
    BY <2>1 DEF Current, Creating, Updating, Inviting, RowsOf, OnlyRow, OnlyExperience
  <2>4. ASSUME NEW q \in Requests
        PROVE  Joining(q)' <=> Joining(q)
    BY <2>1 DEF Joining, MakesBooking, OnlyRow, OnlyBooking, Puts, RowsOf, OfPerson, IsPublished,
       Seated, IsFull, OccupyingCount, HasPlace, Holding
  <2>5. ASSUME NEW q \in Requests
        PROVE  (Leaving(q)' <=> Leaving(q)) /\ (Cancelling(q)' <=> Cancelling(q))
    BY <2>1 DEF Leaving, Cancelling, OnlyRow, OnlyExperience, Puts, Released, RowsOf, OfPerson,
       Linked
  <2>6. \A q \in Requests : Sure(q)' <=> Sure(q)
    BY <2>1, <2>3, <2>4, <2>5 DEF Sure, Doing
  <2> QED
    BY <1>2, <2>1, <2>2, <2>6 DEF SeqInv, AtMostOne
<1> QED
  BY <1>1, <1>2 DEF SeqInv

\* As long as requests come one after the other and what they read was there,
\* whatever fails to be written and whoever dies: what a request decided follows
\* from the tables as they are, up to its last statement.
THEOREM RequestsDecideOnTheTables == Spec => []SeqInv
<1>1. Init => Inv /\ SeqInv
  BY InvAtStart, SeqAtStart
<1>2. Inv /\ SeqInv /\ [Next]_<<vars, apart>> => (Inv /\ SeqInv)'
  BY InvStep, SeqStep
<1> QED
  BY <1>1, <1>2, PTL DEF Spec

-----------------------------------------------------------------------------
(* Moving an event.                                                        *)

LEMMA MovesOnce ==
    ASSUME Inv, SeqInv, Next, apart', NEW q \in Requests, NEW e \in Experiences,
           pc'[q] # pc[q], call[q] # NoCall, call[q].kind = "backfill",
           db.experiences[e] # NoRow
    PROVE  db'.experiences[e] = db.experiences[e]
<1>1. PICK p \in Requests : Acts(p)
  BY SomebodyActs DEF Next
<1>2. Advanced(p) /\ TypeOK /\ TypeOK' /\ OthersRest(p)
  BY <1>1, ActsKeepInv DEF Advanced, Inv
<1>3. p = q /\ Sure(q)
  BY <1>1, <1>2, ActsAlone DEF OthersRest
<1>4. CASE StoreExperiences(q)
  <2>1. Creating(q) /\ pc[q] = "storing"
    BY <1>3, <1>4 DEF Sure, Doing, Acting, StoreExperiences
  <2>2. /\ db' = db \/ \A x \in Experiences : db'.experiences[x] =
               IF snap[q].experiences[x] # NoRow THEN snap[q].experiences[x]
               ELSE db.experiences[x]
    BY <1>2, <1>4, StoreExperiencesEffect
  <2> QED
    BY <2>1, <2>2 DEF Creating, OnlyExperience
<1>5. CASE ~StoreExperiences(q)
  <2>1. UNCHANGED db \/ db'.experiences = db.experiences
    <3>1. CASE StoreParticipants(q)
      <4>1. db' = db \/ db' = [db EXCEPT !.participants = Upsert(db.participants, snap[q].participants)]
        BY <3>1 DEF StoreParticipants
      <4> QED
        BY <1>2, <4>1 DEF TypeOK, Store
    <3>2. CASE Reserve(q) \/ FailBooking(q) \/ \E k \in Requests : Release(q, k)
      <4>1. call[q].kind # "backfill" \/ pc[q] = "reserving"
        BY <3>2 DEF Reserve, FailBooking, Release
      <4> QED
        BY <4>1 DEF Inv, Phase
    <3> QED
      BY <1>1, <1>3, <1>5, <3>1, <3>2 DEF Acts, Start, Read, FailRead, DecideCreate,
         DecideBackfill, DecideUpdate, DecideJoin, DecideInvite, DecideLeave, DecideCancel,
         CountPlaces, Crash, Advance, Reject
  <2> QED
    BY <2>1
<1> QED
  BY <1>4, <1>5

\* Showing the page of an event again never resets the experience it became, as
\* long as requests come one after the other, whatever failed before.
THEOREM EventsAreMovedOnce == Spec => EventsMoveOnce
<1>1. Inv /\ SeqInv /\ [Next]_<<vars, apart>> =>
        [\A q \in Requests, e \in Experiences :
            /\ apart' /\ pc'[q] # pc[q]
            /\ call[q] # NoCall /\ call[q].kind = "backfill"
            /\ db.experiences[e] # NoRow
            => db'.experiences[e] = db.experiences[e]]_vars
  BY MovesOnce DEF vars
<1> QED
  BY <1>1, ExperiencesInvariant, RequestsDecideOnTheTables, PTL DEF Spec, EventsMoveOnce

-----------------------------------------------------------------------------
(* What is kept of the bookings and the seats.                             *)

\* Each statement writes one table.
LEMMA OneTableEach ==
    ASSUME Inv, NEW q \in Requests, Acts(q)
    PROVE  /\ ~StoreParticipants(q) => db'.participants = db.participants
           /\ ~StoreExperiences(q) => db'.experiences = db.experiences
           /\ pc[q] \notin {"booking", "reserving"} => db'.bookings = db.bookings
<1>1. CASE StoreParticipants(q)
  <2>1. db' = db \/ db' = [db EXCEPT !.participants = Upsert(db.participants, snap[q].participants)]
    BY <1>1 DEF StoreParticipants
  <2> QED
    BY <1>1, <2>1 DEF Inv, TypeOK, Store, StoreParticipants
<1>2. CASE StoreExperiences(q)
  BY <1>2, StoreExperiencesEffect DEF Inv, StoreExperiences, StoreParticipants
<1>3. CASE Reserve(q) \/ FailBooking(q) \/ \E k \in Requests : Release(q, k)
  <2>1. pc[q] \in {"booking", "reserving"}
    BY <1>3 DEF Reserve, FailBooking, Release
  <2>2. db'.participants = db.participants /\ db'.experiences = db.experiences
    <3>1. \/ db' = db
          \/ \E rows : db' = [db EXCEPT !.bookings = rows]
      <4>1. \A rows : [db EXCEPT !.bookings = Upsert(@, rows)]
                         = [db EXCEPT !.bookings = Upsert(db.bookings, rows)]
        BY DEF Inv, TypeOK, Store
      <4> QED
        BY <1>3, <4>1 DEF Reserve, FailBooking, Release
    <3> QED
      BY <3>1 DEF Inv, TypeOK, Store
  <2> QED
    BY <2>1, <2>2
<1>4. CASE ~(\/ StoreParticipants(q) \/ StoreExperiences(q) \/ Reserve(q) \/ FailBooking(q)
             \/ \E k \in Requests : Release(q, k))
  <2>1. db' = db
    BY <1>4 DEF Acts, Start, Read, FailRead, DecideCreate, DecideBackfill, DecideUpdate, DecideJoin,
       DecideInvite, DecideLeave, DecideCancel, CountPlaces, Crash, Advance, Reject
  <2> QED
    BY <2>1
<1> QED
  BY <1>1, <1>2, <1>3, <1>4

\* A request makes its own booking, and cancels others; one that fails may have
\* done so, or not.
LEMMA BookingsOnlyEnd ==
    ASSUME Inv, NEW q \in Requests, Sure(q), Acts(q), NEW k \in Requests
    PROVE  \/ db'.bookings[k] = db.bookings[k]
           \/ /\ pc[q] = "booking" /\ call[q].kind \in {"leave", "cancel"} /\ k \in work[q]
              /\ db.bookings[k] # NoRow /\ ~db'.bookings[k].active
           \/ k = q /\ pc[q] = "reserving" /\ db'.bookings[k] = snap[q].bookings[k]
<1>1. CASE db' = db \/ pc[q] \notin {"booking", "reserving"}
  BY <1>1, OneTableEach
<1>2. CASE pc[q] = "reserving" /\ db' = [db EXCEPT !.bookings = Upsert(@, snap[q].bookings)]
  <2>1. snap[q].bookings \in [Requests -> Booking \cup {NoRow}]
    BY StoreParts DEF Inv, TypeOK
  <2>2. \A j \in Requests : db'.bookings[j] = IF snap[q].bookings[j] # NoRow THEN snap[q].bookings[j]
                                              ELSE db.bookings[j]
    BY <1>2, <2>1, BookingsWithRows DEF Inv
  <2>3. snap[q].bookings[q] # NoRow /\ OnlyBooking(q, q)
    BY <1>2 DEF Inv, Phase, Sure, Acting, Doing, Joining, MakesBooking
  <2> QED
    BY <1>2, <2>2, <2>3 DEF OnlyBooking
<1>3. ASSUME NEW n \in Requests, n \in work[q],
             pc[q] = "booking", call[q].kind \in {"leave", "cancel"}, "bookings" \in loaded[q],
             snap[q].bookings[n] # NoRow,
             db' = [db EXCEPT !.bookings = Upsert(@, Cancelled(snap[q].bookings, n))]
      PROVE  \/ db'.bookings[k] = db.bookings[k]
             \/ k = n /\ db.bookings[k] # NoRow /\ ~db'.bookings[k].active
  <2> DEFINE rows == Cancelled(snap[q].bookings, n)
  <2>1. /\ rows \in [Requests -> Booking \cup {NoRow}]
        /\ \A j \in Requests \ {n} : rows[j] = snap[q].bookings[j]
        /\ rows[n] # NoRow /\ rows[n].active = FALSE
    BY <1>3, CancelledIsATable DEF Inv
  <2>2. db' = [db EXCEPT !.bookings = Upsert(@, rows)]
    BY <1>3
  <2> HIDE DEF rows
  <2>3. \A j \in Requests : db'.bookings[j] = IF rows[j] # NoRow THEN rows[j] ELSE db.bookings[j]
    BY <2>1, <2>2, BookingsWithRows DEF Inv
  <2>4. snap[q].bookings = db.bookings
    BY <1>3 DEF Sure, Current
  <2> QED
    BY <1>3, <2>1, <2>3, <2>4
<1>4. work[q] \subseteq Requests
  BY DEF Inv, TypeOK
<1>5. CASE Reserve(q)
  BY <1>2, <1>5 DEF Reserve
<1>6. ASSUME NEW n \in Requests, Release(q, n)
      PROVE  \/ db'.bookings[k] = db.bookings[k]
             \/ /\ pc[q] = "booking" /\ call[q].kind \in {"leave", "cancel"} /\ k \in work[q]
                /\ db.bookings[k] # NoRow /\ ~db'.bookings[k].active
  BY <1>3, <1>6 DEF Release
<1>7. CASE FailBooking(q)
  BY <1>1, <1>2, <1>3, <1>4, <1>7 DEF FailBooking
<1>8. CASE ~(Reserve(q) \/ FailBooking(q) \/ \E n \in Requests : Release(q, n))
  <2>1. db' = db \/ pc[q] \notin {"booking", "reserving"}
    BY <1>8 DEF Acts, Start, Read, FailRead, DecideCreate, DecideBackfill, DecideUpdate, DecideJoin,
       DecideInvite, DecideLeave, DecideCancel, CountPlaces, Crash, Advance, Reject,
       StoreExperiences, StoreParticipants
  <2> QED
    BY <1>1, <2>1
<1> QED
  BY <1>5, <1>6, <1>7, <1>8

\* What is stored of the participants, and what it leaves of those there were.
LEMMA EnrolledRows ==
    ASSUME Inv, NEW q \in Requests, StoreParticipants(q), db' # db
    PROVE  /\ Admissible(Upsert(db.participants, snap[q].participants))
           /\ db'.bookings = db.bookings /\ db'.experiences = db.experiences
           /\ \A i \in Ids : db'.participants[i] =
                 IF snap[q].participants[i] # NoRow THEN snap[q].participants[i]
                 ELSE db.participants[i]
<1>1. /\ Admissible(Upsert(db.participants, snap[q].participants))
      /\ db' = [db EXCEPT !.participants = Upsert(db.participants, snap[q].participants)]
      /\ call' = call
  BY DEF StoreParticipants, End
<1>2. /\ db'.experiences = db.experiences /\ db'.bookings = db.bookings
  BY <1>1 DEF Inv, TypeOK, Store
<1>3. \A i \in Ids : db'.participants[i] =
                 IF snap[q].participants[i] # NoRow THEN snap[q].participants[i]
                 ELSE db.participants[i]
  BY <1>1, NewParticipants DEF Inv, Tidy
<1> QED
  BY <1>1, <1>2, <1>3

LEMMA InvitationsAreRefused ==
    ASSUME Inv, NEW q \in Requests, Inviting(q)
    PROVE  ~Admissible(Upsert(db.participants, snap[q].participants))
<1> DEFINE rows == Upsert(db.participants, snap[q].participants)
<1>1. PICK i \in Ids : snap[q].participants[i] # NoRow /\ snap[q].participants[i].role = "invited"
  BY DEF Inviting
<1>2. rows[i] = snap[q].participants[i]
  BY <1>1, StoreParts DEF Upsert, Inv, TypeOK
<1> HIDE DEF rows
<1>3. ~Admissible(rows)
  BY <1>1, <1>2 DEF Admissible, StorableRoles
<1> QED
  BY <1>3 DEF rows

\* The row that a request names after itself is of the experience and the person
\* the call is about.
LEMMA OwnRow ==
    ASSUME Inv, NEW q \in Requests, call[q] \in Calls, db.participants[q] # NoRow
    PROVE  /\ q \in OfPerson(db, call[q].experience, Whose(call[q]))
           /\ q \in RowsOf(db, call[q].experience)
<1>1. q \in Ids
  BY DEF Ids
<1>2. RowIsNamed(call, q, db.participants[q])
  BY <1>1 DEF Inv, Named, RowsNamed
<1> QED
  BY <1>1, <1>2 DEF RowIsNamed, OfPerson, RowsOf

\* A seat that is taken is kept, unless its booking is cancelled.
LEMMA SeatsAreKept ==
    ASSUME Inv, NEW q \in Requests, Sure(q), StoreParticipants(q), NEW i \in Ids,
           OccupiesSeat(db.participants[i])
    PROVE  \/ db'.participants[i] = db.participants[i]
           \/ /\ call[q].kind \in {"leave", "cancel"}
              /\ db.participants[i].booking # NoRow => ~db.bookings[db.participants[i].booking].active
<1>1. /\ pc[q] = "enrolling" /\ call[q] \in Calls /\ Doing(q) /\ call[q].experience \in Experiences
      /\ call[q].by \in Persons
      /\ q \in Ids
  BY StartedHaveCalls, CallsHaveFields DEF StoreParticipants, Sure, Acting, Inv, Ids
<1>2. CASE db' = db
  BY <1>2
<1>3. CASE db' # db
  <2>1. /\ Admissible(Upsert(db.participants, snap[q].participants))
        /\ \A j \in Ids : db'.participants[j] =
              IF snap[q].participants[j] # NoRow THEN snap[q].participants[j]
              ELSE db.participants[j]
    BY <1>3, EnrolledRows
  <2>2. CASE call[q].kind \in {"create", "backfill"}
    <3>1. Creating(q)
      BY <1>1, <2>2 DEF Doing
    <3>2. db.participants[q] = NoRow
      BY <1>1, <3>1, OwnRow DEF Creating
    <3> QED
      BY <2>1, <3>1, <3>2 DEF Creating, OnlyRow, OccupiesSeat
  <2>3. CASE call[q].kind = "update"
    BY <1>1, <2>1, <2>3 DEF Doing, Updating
  <2>4. CASE call[q].kind = "join"
    <3> DEFINE e == call[q].experience
               p == call[q].by
    <3>1. Joining(q) /\ Whose(call[q]) = p
      BY <1>1, <2>4, WhoseIsBy DEF Doing
    <3>2. PICK n \in Ids, role \in Roles, b \in {q, NoRow} : Puts(q, n, role, b)
      BY <1>1, <3>1 DEF Joining, Roles
    <3>3. n \in OfPerson(db, e, p) \/ (n = q /\ OfPerson(db, e, p) = {})
      BY <3>2 DEF Puts
    <3>4. ~OccupiesSeat(db.participants[n])
      <4>1. CASE n \in OfPerson(db, e, p)
        BY <3>1, <4>1 DEF Joining, Seated
      <4>2. CASE n = q /\ OfPerson(db, e, p) = {}
        <5>1. db.participants[q] = NoRow
          BY <1>1, <3>1, <4>2, OwnRow
        <5> QED
          BY <4>2, <5>1 DEF OccupiesSeat
      <4> QED
        BY <3>3, <4>1, <4>2
    <3>5. i # n
      BY <3>4
    <3> QED
      BY <2>1, <3>2, <3>5 DEF Puts, OnlyRow
  <2>5. CASE call[q].kind = "leave"
    <3>1. PICK n \in OfPerson(db, call[q].experience, call[q].by) :
            /\ Puts(q, n, "cancelled", db.participants[n].booking)
            /\ db.participants[n].booking # NoRow => Released(q, db.participants[n].booking)
      BY <1>1, <2>5 DEF Doing, Leaving
    <3>2. CASE i = n
      BY <1>1, <2>5, <3>1, <3>2 DEF Released
    <3>3. CASE i # n
      BY <2>1, <3>1, <3>3 DEF Puts, OnlyRow
    <3> QED
      BY <3>2, <3>3
  <2>6. CASE call[q].kind = "cancel"
    <3> DEFINE e == call[q].experience
    <3>1. Cancelling(q)
      BY <1>1, <2>6 DEF Doing
    <3>2. CASE i \in RowsOf(db, e)
      <4>1. db.participants[i].booking # NoRow => db.participants[i].booking \in Linked(db, e)
        BY <3>2 DEF Linked
      <4> QED
        BY <1>1, <2>6, <3>1, <4>1 DEF Cancelling, Released
    <3>3. CASE i \notin RowsOf(db, e)
      BY <2>1, <3>1, <3>3 DEF Cancelling
    <3> QED
      BY <3>2, <3>3
  <2>7. CASE call[q].kind = "invite"
    BY <1>1, <2>1, <2>7, InvitationsAreRefused DEF Doing
  <2> QED
    BY <1>1, <2>2, <2>3, <2>4, <2>5, <2>6, <2>7, CallsHaveFields
<1> QED
  BY <1>2, <1>3

\* A join that is answered has stored its row.
LEMMA AnsweredJoinsAreStored ==
    ASSUME Inv, NEW q \in Requests, Acts(q), pc'[q] = "ok", call'[q].kind = "join"
    PROVE  /\ StoreParticipants(q) /\ pc[q] = "enrolling" /\ call'[q] = call[q]
           /\ \A i \in Ids : snap[q].participants[i] # NoRow =>
                 db'.participants[i] = snap[q].participants[i]
<1> DEFINE rows == Upsert(db.participants, snap[q].participants)
<1>0. pc \in [Requests -> Loading \cup {"idle", "booking", "reserving", "storing",
                                       "enrolling", "ok", "rejected", "error", "lost"}]
  BY DEF Inv, TypeOK
<1>1. CASE StoreParticipants(q)
  <2>1. pc[q] = "enrolling" /\ call' = call /\ q \in DOMAIN pc
    BY <1>0, <1>1 DEF StoreParticipants, End
  <2>2. Verdict(q, FALSE) = "error"
    BY DEF Verdict
  <2>3. ~End(q, "error")
    BY <2>1 DEF End
  <2>4. /\ Admissible(rows) /\ db' = [db EXCEPT !.participants = rows]
    BY <1>1, <2>2, <2>3 DEF StoreParticipants
  <2>5. \A i \in Ids : db'.participants[i] =
                 IF snap[q].participants[i] # NoRow THEN snap[q].participants[i]
                 ELSE db.participants[i]
    BY <2>1, <2>4, NewParticipants DEF Inv, Tidy
  <2> QED
    BY <1>1, <2>1, <2>5
<1>2. CASE DecideBackfill(q)
  <2>1. call[q].kind = "backfill" /\ call' = call
    BY <1>2 DEF DecideBackfill, Ready, Advance, End
  <2> QED
    BY <2>1
<1>3. CASE ~StoreParticipants(q) /\ ~DecideBackfill(q)
  <2>1. pc[q] # "ok"
    BY <1>3 DEF Acts, Start, Read, FailRead, Reads, DecideCreate, DecideUpdate, DecideJoin,
       DecideInvite, DecideLeave, DecideCancel, Ready, CountPlaces, Reserve, Release, FailBooking,
       StoreExperiences, Crash, InFlight, Loading
  <2>2. \E place \in {pc[q], "loading", "storing", "booking", "reserving", "enrolling",
                      "rejected", "error", "lost"} : pc' = [pc EXCEPT ![q] = place]
    <3>1. pc' = pc => pc' = [pc EXCEPT ![q] = pc[q]]
      BY <1>0
    <3> QED
      BY <1>3, <3>1 DEF Acts, Start, Read, FailRead, DecideCreate, DecideUpdate, DecideJoin,
         DecideInvite, DecideLeave, DecideCancel, Advance, Reject, End, CountPlaces, Reserve,
         Release, FailBooking, StoreExperiences, Crash
  <2> QED
    BY <1>0, <2>1, <2>2
<1> QED
  BY <1>1, <1>2, <1>3

LEMMA HiddenStep ==
    ASSUME Inv, SeqInv, NoHiddenBooking, Next, apart', NEW k \in Requests,
           pc'[k] = "ok", call'[k].kind = "join", db'.bookings[k] # NoRow, db'.bookings[k].active
    PROVE  \E i \in Ids : /\ db'.participants[i] # NoRow
                          /\ db'.participants[i].booking = k
                          /\ OccupiesSeat(db'.participants[i])
<1>1. PICK q \in Requests : Acts(q)
  BY SomebodyActs DEF Next
<1>2. Advanced(q) /\ TypeOK /\ TypeOK' /\ OthersRest(q)
  BY <1>1, ActsKeepInv DEF Advanced, Inv
<1>3. apart /\ Sure(q)
  BY <1>1, <1>2, ActsAlone
<1>4. CASE k = q
  <2>1. /\ StoreParticipants(q) /\ pc[q] = "enrolling" /\ call[q].kind = "join"
        /\ \A i \in Ids : snap[q].participants[i] # NoRow =>
              db'.participants[i] = snap[q].participants[i]
    BY <1>1, <1>4, AnsweredJoinsAreStored
  <2>2. Joining(q) /\ db'.bookings = db.bookings
    BY <1>1, <1>3, <2>1, OneTableEach DEF Sure, Acting, Doing
  <2>3. PICK i \in Ids : Puts(q, i, "participant", q)
    BY <1>4, <2>1, <2>2 DEF Joining
  <2>4. call[q] \in Calls
    BY <1>2, <2>1, StartedHaveCalls
  <2>5. snap[q].participants[i] = RowOf(call[q].experience, call[q].by, "participant", q)
    BY <2>3 DEF Puts
  <2>6. RowOf(call[q].experience, call[q].by, "participant", q) \in Participation
    BY <2>4, CallsHaveFields DEF RowOf, Participation, Roles
  <2>7. snap[q].participants[i] # NoRow
    BY <2>5, <2>6, ExperienceConstants
  <2>8. db'.participants[i] = RowOf(call[q].experience, call[q].by, "participant", q)
    BY <2>1, <2>5, <2>7
  <2> QED
    BY <1>4, <2>5, <2>7, <2>8 DEF OccupiesSeat, OccupyingRoles, RowOf
<1>5. CASE k # q
  <2>1. pc[k] = "ok" /\ call[k].kind = "join"
    BY <1>2, <1>5 DEF OthersRest
  <2>2. db'.bookings[k] = db.bookings[k]
    BY <1>1, <1>3, <1>5, BookingsOnlyEnd
  <2>3. PICK i \in Ids : /\ db.participants[i] # NoRow
                         /\ db.participants[i].booking = k
                         /\ OccupiesSeat(db.participants[i])
    BY <1>3, <2>1, <2>2 DEF NoHiddenBooking
  <2>4. db'.participants[i] = db.participants[i]
    <3>1. CASE StoreParticipants(q)
      <4>1. k # NoRow
        BY ExperienceConstants
      <4>2. db.bookings[k].active
        BY <2>2
      <4> QED
        BY <1>3, <2>3, <3>1, <4>1, <4>2, SeatsAreKept
    <3>2. CASE ~StoreParticipants(q)
      BY <1>1, <3>2, OneTableEach
    <3> QED
      BY <3>1, <3>2
  <2> QED
    BY <2>3, <2>4
<1> QED
  BY <1>4, <1>5

\* Whatever statement, answer or process fails, a place held by a join that was
\* answered is held by somebody who is listed, as long as requests come one after
\* the other and what they read was there.
THEOREM BookingsAreNotHidden == Spec => []NoHiddenBooking
<1>1. Init => NoHiddenBooking
  BY DEF Init, NoHiddenBooking
<1>2. Inv /\ SeqInv /\ NoHiddenBooking /\ [Next]_<<vars, apart>> => NoHiddenBooking'
  <2>1. ASSUME Inv, SeqInv, NoHiddenBooking, Next
        PROVE  NoHiddenBooking'
    BY <2>1, HiddenStep DEF NoHiddenBooking
  <2>2. ASSUME NoHiddenBooking, UNCHANGED <<vars, apart>>
        PROVE  NoHiddenBooking'
    BY <2>2 DEF NoHiddenBooking, vars, OccupiesSeat
  <2> QED
    BY <2>1, <2>2
<1> QED
  BY <1>1, <1>2, ExperiencesInvariant, RequestsDecideOnTheTables, PTL DEF Spec

-----------------------------------------------------------------------------
(* The places of a facility.                                               *)

\* The bookings that hold a place of facility f at minute t.
HeldAt(bookings, f, t) == {k \in Requests : /\ bookings[k] # NoRow
                                            /\ bookings[k].active
                                            /\ Facility[bookings[k].experience] = f
                                            /\ Covers(bookings[k].slot, t)}

LEMMA HeldAtIsFinite ==
    ASSUME NEW bookings, NEW f, NEW t
    PROVE  /\ IsFiniteSet(HeldAt(bookings, f, t))
           /\ Cardinality(HeldAt(bookings, f, t)) \in Nat
<1>1. HeldAt(bookings, f, t) \subseteq Requests
  BY DEF HeldAt
<1>2. IsFiniteSet(HeldAt(bookings, f, t))
  BY <1>1, FS_Subset, ExperienceConstants
<1> QED
  BY <1>2, FS_CardinalityType

\* A booking that was counted for its whole interval leaves room at every minute.
LEMMA CountedBookingFits ==
    ASSUME Inv, NEW q \in Requests, Joining(q), pc[q] = "reserving", call[q] \in Calls,
           NEW t \in Int, Covers(snap[q].bookings[q].slot, t),
           NEW f, f # NoRow, Facility[call[q].experience] = f
    PROVE  Cardinality(HeldAt(db.bookings, f, t)) + 1 <= Places[f]
<1> DEFINE e == call[q].experience
           w == db.experiences[e].slot
           S == Holding(db.bookings, {x \in Experiences : Facility[x] = Facility[e]}, w)
           H == HeldAt(db.bookings, f, t)
<1>1. /\ HasPlace(db.bookings, e, w, db.experiences[e].capacity)
      /\ snap[q].bookings[q] = [experience |-> e, by |-> call[q].by, slot |-> w, active |-> TRUE]
  BY DEF Joining, MakesBooking
<1>2. Cardinality(S) + 1 <= Places[f]
  BY <1>1 DEF HasPlace
<1>3. db.bookings \in [Requests -> Booking \cup {NoRow}] /\ db.experiences[e] \in Experience
  BY StoreParts, CallsHaveFields DEF Inv, TypeOK, Joining, IsPublished
<1>4. w \in [from : Nat, to : Nat] /\ Covers(w, t)
  BY <1>1, <1>3, ExperienceConstants DEF Experience
<1>5. H \subseteq S
  <2> SUFFICES ASSUME NEW k \in H PROVE k \in S
    OBVIOUS
  <2>1. /\ k \in Requests /\ db.bookings[k] # NoRow /\ db.bookings[k].active
        /\ Facility[db.bookings[k].experience] = f /\ Covers(db.bookings[k].slot, t)
    BY DEF HeldAt
  <2>2. db.bookings[k].experience \in Experiences /\ db.bookings[k].slot \in [from : Nat, to : Nat]
    BY <1>3, <2>1, ExperienceConstants DEF Booking
  <2>3. Overlaps(db.bookings[k].slot, w)
    BY <1>4, <2>1, <2>2 DEF Covers, Overlaps
  <2> QED
    BY <1>3, <2>1, <2>2, <2>3 DEF Holding
<1>6. IsFiniteSet(S)
  <2>1. S \subseteq Requests
    BY <1>3 DEF Holding
  <2> QED
    BY <2>1, FS_Subset, ExperienceConstants
<1>7. Cardinality(H) <= Cardinality(S)
  BY <1>5, <1>6, FS_Subset
<1>8. Cardinality(H) \in Nat /\ Cardinality(S) \in Nat
  BY <1>6, HeldAtIsFinite, FS_CardinalityType
<1>9. Places[f] \in Nat
  BY CallsHaveFields, ExperienceConstants
<1> QED
  BY <1>2, <1>7, <1>8, <1>9

LEMMA RoomStep ==
    ASSUME Inv, NEW q \in Requests, Sure(q), Acts(q),
           NEW t \in Int, NEW f, f # NoRow, Places[f] \in Nat,
           Cardinality(HeldAt(db.bookings, f, t)) <= Places[f]
    PROVE  Cardinality(HeldAt(db'.bookings, f, t)) <= Places[f]
<1> DEFINE H == HeldAt(db.bookings, f, t)
           N == HeldAt(db'.bookings, f, t)
<1>1. /\ IsFiniteSet(H) /\ Cardinality(H) \in Nat
      /\ IsFiniteSet(N) /\ Cardinality(N) \in Nat
  BY HeldAtIsFinite
<1>2. ASSUME NEW k \in N, k \notin H
      PROVE  k = q /\ pc[q] = "reserving" /\ db'.bookings[k] = snap[q].bookings[k]
  BY <1>2, BookingsOnlyEnd DEF HeldAt
<1>3. CASE N \subseteq H
  <2>1. Cardinality(N) <= Cardinality(H)
    BY <1>1, <1>3, FS_Subset
  <2> QED
    BY <1>1, <2>1
<1>4. CASE ~(N \subseteq H)
  <2>1. PICK k \in N : k \notin H
    BY <1>4
  <2>2. q \in N /\ q \notin H /\ pc[q] = "reserving" /\ db'.bookings[q] = snap[q].bookings[q] /\ N \subseteq H \cup {q}
    BY <1>2, <2>1
  <2>3. Joining(q) /\ call[q] \in Calls
    BY <2>2, StartedHaveCalls DEF Inv, Phase, Sure, Acting, Doing
  <2>4. Covers(snap[q].bookings[q].slot, t) /\ Facility[call[q].experience] = f
    <3>1. snap[q].bookings[q].experience = call[q].experience
      BY <2>2, <2>3 DEF Joining, MakesBooking
    <3> QED
      BY <2>2, <3>1 DEF HeldAt
  <2>5. Cardinality(H) + 1 <= Places[f]
    BY <2>2, <2>3, <2>4, CountedBookingFits
  <2>6. IsFiniteSet(H \cup {q}) /\ Cardinality(H \cup {q}) <= Cardinality(H) + 1
        /\ Cardinality(H \cup {q}) \in Nat
    <3> HIDE DEF H
    <3>1. IsFiniteSet(H \cup {q}) /\ Cardinality(H \cup {q}) = Cardinality(H) + 1
      BY <1>1, <2>2, FS_AddElement
    <3> QED
      BY <1>1, <3>1
  <2>7. Cardinality(N) <= Cardinality(H \cup {q})
    BY <2>2, <2>6, FS_Subset
  <2> QED
    BY <1>1, <2>5, <2>6, <2>7
<1> QED
  BY <1>3, <1>4

LEMMA RoomIsHeldAt ==
    FacilityNotOverfull <=>
        \A f \in {Facility[e] : e \in Experiences} \ {NoRow}, t \in UNION {w.from..w.to : w \in Slots} :
            Cardinality(HeldAt(db.bookings, f, t)) <= Places[f]
  BY DEF FacilityNotOverfull, HeldAt

LEMMA RoomAtStart == Init => FacilityNotOverfull
<1> SUFFICES ASSUME Init, NEW f \in {Facility[e] : e \in Experiences} \ {NoRow}, NEW t
             PROVE  Cardinality(HeldAt(db.bookings, f, t)) <= Places[f]
  BY RoomIsHeldAt
<1>1. db.bookings = NoStore.bookings
  BY DEF Init, NoStore
<1>2. HeldAt(db.bookings, f, t) = {}
  BY <1>1 DEF HeldAt, NoStore
<1>3. Places[f] \in Nat
  BY ExperienceConstants
<1> QED
  BY <1>2, <1>3, FS_EmptySet

\* "Conflicts fail closed for double-booking", as long as requests come one after
\* the other and what they read was there, whatever fails to be written and
\* whoever dies: the experiences that share a facility never hold more places in
\* it than it has, although each booking is compared with whole intervals only.
THEOREM FacilitiesAreNotOverfull == Spec => [](apart => FacilityNotOverfull)
<1>1. Init => (apart => FacilityNotOverfull)
  BY RoomAtStart
<1>2. /\ Inv /\ SeqInv /\ (apart => FacilityNotOverfull) /\ [Next]_<<vars, apart>>
      => (apart => FacilityNotOverfull)'
  <2>1. ASSUME Inv, SeqInv, apart => FacilityNotOverfull, Next, apart'
        PROVE  FacilityNotOverfull'
    <3>1. PICK q \in Requests : Acts(q)
      BY <2>1, SomebodyActs DEF Next
    <3>2. Advanced(q) /\ TypeOK /\ TypeOK' /\ OthersRest(q)
      BY <2>1, <3>1, ActsKeepInv DEF Advanced, Inv
    <3>3. apart /\ Sure(q)
      BY <2>1, <3>1, <3>2, ActsAlone
    <3>4. ASSUME NEW f \in {Facility[e] : e \in Experiences} \ {NoRow},
                 NEW t \in UNION {w.from..w.to : w \in Slots}
          PROVE  Cardinality(HeldAt(db'.bookings, f, t)) <= Places[f]
      <4>1. Places[f] \in Nat /\ t \in Int
        BY ExperienceConstants
      <4>2. Cardinality(HeldAt(db.bookings, f, t)) <= Places[f]
        BY <2>1, <3>3, RoomIsHeldAt
      <4> QED
        BY <2>1, <3>1, <3>3, <4>1, <4>2, RoomStep
    <3> QED
      BY <3>4 DEF FacilityNotOverfull, HeldAt
  <2>2. ASSUME apart => FacilityNotOverfull, UNCHANGED <<vars, apart>>
        PROVE  apart' => FacilityNotOverfull'
    BY <2>2 DEF vars, FacilityNotOverfull
  <2> QED
    BY <2>1, <2>2
<1> QED
  BY <1>1, <1>2, ExperiencesInvariant, RequestsDecideOnTheTables, PTL DEF Spec

-----------------------------------------------------------------------------
(* One request at a time, and reads that do not fail.                      *)

OneAtATime == MaxInFlight = 1 /\ "read" \notin Faults

\* What is decided is decided on both tables.
BothRead == \A q \in Requests : pc[q] \in Acting => Tables \subseteq loaded[q]

LEMMA OneMoreInFlight ==
    ASSUME TypeOK, NEW q \in Requests, NEW c \in Calls, Start(q, c), OneAtATime
    PROVE  Cardinality(InFlight') <= 1
<1>1. IsFiniteSet(InFlight)
  BY FS_Subset, ExperienceConstants DEF InFlight
<1>2. Cardinality(InFlight) = 0
  BY <1>1, FS_CardinalityType DEF Start, OneAtATime
<1>3. InFlight = {}
  BY <1>1, <1>2, FS_EmptySet
<1>4. InFlight' = {q}
  BY <1>3 DEF Start, InFlight, TypeOK, Loading
<1> QED
  BY <1>4, FS_Singleton

LEMMA NoMoreInFlight ==
    ASSUME TypeOK, NEW q \in Requests, Acts(q), OthersRest(q), ~\E c \in Calls : Start(q, c)
    PROVE  InFlight' \subseteq InFlight
<1>1. q \in InFlight
  <2>1. ASSUME NEW t \in Tables \cup {"bookings"}, Reads(q, t)
        PROVE  q \in InFlight
    BY <2>1 DEF Reads, InFlight, Loading
  <2>2. ASSUME NEW kind, Ready(q, kind)
        PROVE  q \in InFlight
    BY <2>2 DEF Ready, InFlight, Loading
  <2>3. ASSUME \/ CountPlaces(q) \/ Reserve(q) \/ \E k \in Requests : Release(q, k)
               \/ FailBooking(q) \/ StoreExperiences(q) \/ StoreParticipants(q) \/ Crash(q)
        PROVE  q \in InFlight
    BY <2>3 DEF CountPlaces, Reserve, Release, FailBooking, StoreExperiences,
                StoreParticipants, Crash, InFlight
  <2> QED
    BY <2>1, <2>2, <2>3 DEF Acts, Read, FailRead, DecideCreate, DecideBackfill,
       DecideUpdate, DecideJoin, DecideInvite, DecideLeave, DecideCancel
<1> QED
  BY <1>1 DEF InFlight, OthersRest

\* What is loaded by a step, if anything, is a table as it is.
LEMMA LoadsOneTable ==
    ASSUME TypeOK, NEW q \in Requests, Acts(q), BothRead, OneAtATime
    PROVE  \/ loaded'[q] \subseteq loaded[q]
           \/ \E t \in Tables \cup {"bookings"} :
                 loaded'[q] = loaded[q] \cup {t} /\ snap'[q][t] = db[t]
<1>1. ASSUME NEW t \in Tables \cup {"bookings"}, Read(q, t)
      PROVE  loaded'[q] = loaded[q] \cup {t} /\ snap'[q][t] = db[t]
  <2>1. snap'[q] = [snap[q] EXCEPT ![t] = db[t]] /\ loaded'[q] = loaded[q] \cup {t}
    BY <1>1 DEF Read, TypeOK
  <2> QED
    BY <2>1 DEF TypeOK, Store, Tables
<1>2. ASSUME NEW t, FailRead(q, t)
      PROVE  FALSE
  BY <1>2 DEF FailRead, OneAtATime
<1>3. ASSUME NEW answer, End(q, answer)
      PROVE  loaded'[q] \subseteq loaded[q]
  BY <1>3 DEF End, TypeOK
<1>4. ASSUME NEW k \in Requests, Release(q, k)
      PROVE  loaded'[q] \subseteq loaded[q]
  BY <1>4 DEF Release, TypeOK, BothRead, Acting
<1>5. ASSUME DecideBackfill(q)
      PROVE  loaded'[q] \subseteq loaded[q]
  BY <1>3, <1>5 DEF DecideBackfill, Advance, TypeOK
<1>6. ASSUME \/ DecideCreate(q) \/ DecideUpdate(q) \/ DecideJoin(q)
             \/ DecideInvite(q) \/ DecideLeave(q) \/ DecideCancel(q) \/ CountPlaces(q)
      PROVE  loaded'[q] \subseteq loaded[q]
  BY <1>3, <1>6 DEF DecideCreate, DecideUpdate, DecideJoin, DecideInvite, DecideLeave,
     DecideCancel, CountPlaces, Advance, Reject
<1>7. ASSUME FailBooking(q) \/ StoreParticipants(q) \/ Crash(q)
      PROVE  loaded'[q] \subseteq loaded[q]
  BY <1>3, <1>7 DEF FailBooking, StoreParticipants, Crash
<1> QED
  BY <1>1, <1>2, <1>4, <1>5, <1>6, <1>7 DEF Acts, Start, Reserve, StoreExperiences

LEMMA BothReadStays ==
    ASSUME TypeOK, NEW q \in Requests, Acts(q), OthersRest(q), TypeOK', BothRead
    PROVE  BothRead'
<1>1. ASSUME NEW p \in Requests \ {q}
      PROVE  pc'[p] \in Acting => Tables \subseteq loaded'[p]
  BY DEF BothRead, OthersRest
<1>2. ASSUME pc'[q] \in Acting
      PROVE  Tables \subseteq loaded'[q]
  <2>1. ASSUME NEW c \in Calls, Start(q, c)
        PROVE  FALSE
    BY <1>2, <2>1 DEF Start, TypeOK, Acting
  <2>2. ASSUME NEW answer \in Answers, End(q, answer)
        PROVE  FALSE
    BY <1>2, <2>2 DEF End, TypeOK, Acting, Answers
  <2>3. ASSUME NEW t \in Tables \cup {"bookings"}, Read(q, t) \/ FailRead(q, t)
        PROVE  Tables \subseteq loaded'[q]
    <3>1. pc' = pc /\ loaded' = [loaded EXCEPT ![q] = @ \cup {t}]
      BY <2>2, <2>3 DEF Read, FailRead, Answers
    <3> QED
      BY <1>2, <3>1 DEF BothRead, TypeOK
  <2>4. ASSUME DecideBackfill(q)
        PROVE  Tables \subseteq loaded'[q]
    <3>1. CASE pc[q] = "adding"
      BY <2>4, <3>1 DEF DecideBackfill, Ready, Advance
    <3>2. CASE pc[q] # "adding" /\ Moved(snap[q], call[q].experience)
      BY <2>2, <2>4, <3>2 DEF DecideBackfill, Answers
    <3>3. CASE pc[q] # "adding" /\ ~Moved(snap[q], call[q].experience)
      BY <1>2, <2>4, <3>3 DEF DecideBackfill, TypeOK, Acting
    <3> QED
      BY <3>1, <3>2, <3>3
  <2>5. ASSUME \/ DecideCreate(q) \/ DecideUpdate(q) \/ DecideJoin(q)
               \/ DecideInvite(q) \/ DecideLeave(q) \/ DecideCancel(q)
        PROVE  Tables \subseteq loaded'[q]
    <3>1. loaded[q] = Tables
      BY <2>5 DEF DecideCreate, DecideUpdate, DecideJoin, DecideInvite, DecideLeave,
         DecideCancel, Ready
    <3>2. loaded' = loaded \/ End(q, "rejected")
      BY <2>5 DEF DecideCreate, DecideUpdate, DecideJoin, DecideInvite, DecideLeave,
         DecideCancel, Advance, Reject
    <3> QED
      BY <2>2, <3>1, <3>2 DEF Answers
  <2>6. ASSUME FailBooking(q) \/ StoreParticipants(q) \/ Crash(q)
        PROVE  FALSE
    BY <2>2, <2>6 DEF FailBooking, StoreParticipants, Crash, Answers, Verdict
  <2>7. ASSUME NEW k \in Requests, Release(q, k)
        PROVE  Tables \subseteq loaded'[q]
    BY <2>7 DEF Release, TypeOK
  <2>8. ASSUME CountPlaces(q) \/ Reserve(q) \/ StoreExperiences(q)
        PROVE  Tables \subseteq loaded'[q]
    <3>1. pc[q] \in Acting
      BY <2>8 DEF CountPlaces, Reserve, StoreExperiences, Acting
    <3>2. loaded' = loaded
      BY <2>8 DEF CountPlaces, Reserve, StoreExperiences, Advance
    <3> QED
      BY <3>1, <3>2 DEF BothRead
  <2> QED
    BY <2>1, <2>3, <2>4, <2>5, <2>6, <2>7, <2>8 DEF Acts
<1> QED
  BY <1>1, <1>2 DEF BothRead

Alone == apart /\ BothRead /\ Cardinality(InFlight) <= 1

LEMMA AloneStep == ASSUME OneAtATime PROVE Inv /\ Alone /\ [Next]_<<vars, apart>> => Alone'
<1>1. ASSUME Inv, Alone, Next
      PROVE  Alone'
  <2>1. PICK q \in Requests : Acts(q)
    BY <1>1, SomebodyActs DEF Next
  <2>2. TypeOK /\ TypeOK' /\ OthersRest(q)
    BY <1>1, <2>1, ActsKeepInv DEF Advanced, Inv
  <2>3. BothRead'
    BY <1>1, <2>1, <2>2, BothReadStays DEF Alone
  <2>4. Cardinality(InFlight') <= 1
    <3>1. CASE \E c \in Calls : Start(q, c)
      BY <2>2, <3>1, OneMoreInFlight
    <3>2. CASE ~\E c \in Calls : Start(q, c)
      <4>1. InFlight' \subseteq InFlight
        BY <2>1, <2>2, <3>2, NoMoreInFlight
      <4>2. IsFiniteSet(InFlight)
        BY FS_Subset, ExperienceConstants DEF InFlight
      <4>3. Cardinality(InFlight') <= Cardinality(InFlight) /\ Cardinality(InFlight) \in Nat
            /\ Cardinality(InFlight') \in Nat
        BY <4>1, <4>2, FS_Subset, FS_CardinalityType
      <4> QED
        BY <1>1, <4>3 DEF Alone
    <3> QED
      BY <3>1, <3>2
  <2>5. ReadsAreTrue
    <3>1. \A p \in Requests \ {q} : loaded'[p] = loaded[p]
      BY <2>2 DEF OthersRest
    <3>2. \/ loaded'[q] \subseteq loaded[q]
          \/ \E t \in Tables \cup {"bookings"} :
                 loaded'[q] = loaded[q] \cup {t} /\ snap'[q][t] = db[t]
      BY <1>1, <2>1, <2>2, LoadsOneTable DEF Alone
    <3> QED
      BY <3>1, <3>2 DEF ReadsAreTrue
  <2> QED
    BY <1>1, <2>3, <2>4, <2>5 DEF Alone, Next, ReadsAreTrue
<1>2. ASSUME Alone, UNCHANGED <<vars, apart>>
      PROVE  Alone'
  BY <1>2 DEF Alone, BothRead, InFlight, vars
<1> QED
  BY <1>1, <1>2

\* One request at a time, requests never overlap.
LEMMA OneAtATimeIsApart == ASSUME OneAtATime PROVE Spec => []apart
<1>1. Init => Alone
  <2>1. ASSUME Init
        PROVE  InFlight = {} /\ apart /\ BothRead
    BY <2>1 DEF Init, InFlight, Loading, BothRead, Acting
  <2>2. Cardinality({}) = 0
    BY FS_EmptySet
  <2> QED
    BY <2>1, <2>2 DEF Alone
<1>2. Inv /\ Alone /\ [Next]_<<vars, apart>> => Alone'
  BY AloneStep
<1>3. Alone => apart
  BY DEF Alone
<1> QED
  BY <1>1, <1>2, <1>3, ExperiencesInvariant, PTL DEF Spec

\* "Conflicts fail closed for double-booking", one request at a time, whatever
\* fails to be written and whoever dies.
THEOREM FacilitiesOneAtATime == ASSUME OneAtATime PROVE Spec => []FacilityNotOverfull
  BY OneAtATimeIsApart, FacilitiesAreNotOverfull, PTL

-----------------------------------------------------------------------------
(* Seats and bookings, when nothing fails.                                 *)

NothingFails == OneAtATime /\ Faults = {}

\* Every active booking has its participant, or is about to.
Backed == \A k \in Requests : db.bookings[k] # NoRow /\ db.bookings[k].active =>
    \/ pc[k] \in {"storing", "enrolling"}
    \/ \E i \in Ids : /\ db.participants[i] # NoRow /\ db.participants[i].booking = k
                      /\ db.participants[i].role = "participant"

\* A request that will write row i as cancelled.
Clears(q, i) == /\ pc[q] \in Acting /\ call[q].kind \in {"leave", "cancel"}
                /\ snap[q].participants[i] # NoRow
                /\ snap[q].participants[i].role = "cancelled"

\* Every participant has an active booking, or is about to be one no more.
SeatsHeld == \A i \in Ids : db.participants[i] # NoRow /\ db.participants[i].role = "participant" =>
    /\ db.participants[i].booking # NoRow
    /\ \/ db.bookings[db.participants[i].booking].active
       \/ \E q \in Requests : Clears(q, i)

\* Rows that differ from those stored in one place at most, or keep their persons.
LEMMA AdmissibleIf ==
    ASSUME Inv, NEW rows \in [Ids -> Participation \cup {NoRow}], NEW n \in Ids,
           \A i \in Ids : rows[i] # NoRow =>
              /\ rows[i].role \in StorableRoles
              /\ db.experiences[rows[i].experience] # NoRow
              /\ rows[i].booking # NoRow => db.bookings[rows[i].booking] # NoRow,
           \A i \in Ids \ {n} : rows[i] # NoRow =>
              /\ db.participants[i] # NoRow
              /\ rows[i].experience = db.participants[i].experience
              /\ rows[i].person = db.participants[i].person,
           rows[n] # NoRow =>
              \/ /\ db.participants[n] # NoRow
                 /\ rows[n].experience = db.participants[n].experience
                 /\ rows[n].person = db.participants[n].person
              \/ OfPerson(db, rows[n].experience, rows[n].person) = {}
    PROVE  Admissible(rows)
<1>1. ASSUME NEW i \in Ids, NEW j \in Ids, i # j, rows[i] # NoRow, rows[j] # NoRow,
             rows[i].experience = rows[j].experience, rows[i].person = rows[j].person
      PROVE  FALSE
  <2>1. CASE i # n /\ j # n
    BY <1>1, <2>1 DEF Inv, OneRowEach
  <2>2. ASSUME NEW m \in Ids \ {n}, rows[m] # NoRow, rows[n] # NoRow,
               rows[m].experience = rows[n].experience, rows[m].person = rows[n].person
        PROVE  FALSE
    <3>1. m \in OfPerson(db, rows[n].experience, rows[n].person)
      BY <2>2 DEF OfPerson, RowsOf
    <3> QED
      BY <2>2, <3>1 DEF Inv, OneRowEach
  <2> QED
    BY <1>1, <2>1, <2>2
<1>2. ASSUME NEW i \in Ids, NEW j \in Ids, i # j, rows[i] # NoRow, rows[j] # NoRow
      PROVE  <<rows[i].experience, rows[i].person>> # <<rows[j].experience, rows[j].person>>
  BY <1>1, <1>2
<1> QED
  BY <1>2 DEF Admissible

LEMMA SeatsAreAdmissible ==
    ASSUME Inv, NEW q \in Requests, Sure(q), pc[q] = "enrolling",
           call[q].kind \in {"join", "leave", "cancel"}
    PROVE  Admissible(Upsert(db.participants, snap[q].participants))
<1> DEFINE rows == Upsert(db.participants, snap[q].participants)
           e == call[q].experience
           p == call[q].by
<1>1. /\ call[q] \in Calls /\ Doing(q) /\ e \in Experiences /\ p \in Persons /\ q \in Ids
  BY StartedHaveCalls, CallsHaveFields DEF Sure, Acting, Inv, Ids
<1>2. /\ db.participants \in [Ids -> Participation \cup {NoRow}]
      /\ snap[q].participants \in [Ids -> Participation \cup {NoRow}]
  BY StoreParts DEF Inv, TypeOK
<1>3. rows \in [Ids -> Participation \cup {NoRow}]
  BY <1>2, UpsertKeepsTable
<1>4. \A i \in Ids : rows[i] = IF snap[q].participants[i] # NoRow THEN snap[q].participants[i]
                               ELSE db.participants[i]
  BY <1>2 DEF Upsert
<1> HIDE DEF rows
<1>5. ASSUME NEW i \in Ids, db.participants[i] # NoRow
      PROVE  /\ db.participants[i].role \in StorableRoles
             /\ db.experiences[db.participants[i].experience] # NoRow
             /\ db.participants[i].booking # NoRow => db.bookings[db.participants[i].booking] # NoRow
             /\ db.participants[i] \in Participation
  BY <1>2, <1>5 DEF Inv, Referring
<1>6. CASE call[q].kind = "join"
  <2>1. Joining(q) /\ Whose(call[q]) = p
    BY <1>1, <1>6, WhoseIsBy DEF Doing
  <2>2. PICK n \in Ids, role \in {"participant", "waitlist"}, b \in {q, NoRow} :
          Puts(q, n, role, b) /\ (b # NoRow => db.bookings[b] # NoRow)
    BY <2>1 DEF Joining
  <2>3. snap[q].participants[n] = RowOf(e, p, role, b) /\ RowOf(e, p, role, b) \in Participation
    BY <1>1, <2>2 DEF Puts, RowOf, Participation, Roles
  <2>4. rows[n] = RowOf(e, p, role, b) /\ \A i \in Ids \ {n} : rows[i] = db.participants[i]
    BY <1>4, <2>2, <2>3, ExperienceConstants DEF Puts, OnlyRow
  <2>5. db.experiences[e] # NoRow
    BY <2>1 DEF Joining, IsPublished
  <2>6. \/ db.participants[n] # NoRow /\ db.participants[n].experience = e /\ db.participants[n].person = p
        \/ OfPerson(db, e, p) = {}
    BY <2>2 DEF Puts, OfPerson, RowsOf
  <2> HIDE DEF e, p
  <2>7. /\ RowOf(e, p, role, b).experience = e /\ RowOf(e, p, role, b).person = p
        /\ RowOf(e, p, role, b).role \in StorableRoles
        /\ RowOf(e, p, role, b).booking = b
    BY DEF RowOf, StorableRoles
  <2>8. \A i \in Ids : rows[i] # NoRow =>
              /\ rows[i].role \in StorableRoles
              /\ db.experiences[rows[i].experience] # NoRow
              /\ rows[i].booking # NoRow => db.bookings[rows[i].booking] # NoRow
    BY <1>5, <2>2, <2>4, <2>5, <2>7
  <2>9. Admissible(rows)
    BY <1>3, <2>4, <2>6, <2>7, <2>8, AdmissibleIf
  <2> QED
    BY <2>9 DEF rows
<1>7. CASE call[q].kind = "leave"
  <2>1. PICK n \in OfPerson(db, e, p) : Puts(q, n, "cancelled", db.participants[n].booking)
    BY <1>1, <1>7 DEF Doing, Leaving
  <2>2. /\ n \in Ids /\ db.participants[n] # NoRow
        /\ db.participants[n].experience = e /\ db.participants[n].person = p
    BY <2>1 DEF OfPerson, RowsOf
  <2> DEFINE b == db.participants[n].booking
  <2>3. /\ snap[q].participants[n] = RowOf(e, p, "cancelled", b)
        /\ RowOf(e, p, "cancelled", b) \in Participation
    BY <1>1, <1>5, <2>1, <2>2 DEF Puts, RowOf, Participation, Roles
  <2>4. rows[n] = RowOf(e, p, "cancelled", b) /\ \A i \in Ids \ {n} : rows[i] = db.participants[i]
    BY <1>4, <2>1, <2>2, <2>3, ExperienceConstants DEF Puts, OnlyRow
  <2> HIDE DEF e, p, b
  <2>5. /\ RowOf(e, p, "cancelled", b).experience = e /\ RowOf(e, p, "cancelled", b).person = p
        /\ RowOf(e, p, "cancelled", b).role \in StorableRoles
        /\ RowOf(e, p, "cancelled", b).booking = b
    BY DEF RowOf, StorableRoles
  <2>6. \A i \in Ids : rows[i] # NoRow =>
              /\ rows[i].role \in StorableRoles
              /\ db.experiences[rows[i].experience] # NoRow
              /\ rows[i].booking # NoRow => db.bookings[rows[i].booking] # NoRow
    BY <1>5, <2>2, <2>4, <2>5 DEF b
  <2>7. Admissible(rows)
    BY <1>3, <2>2, <2>4, <2>5, <2>6, AdmissibleIf
  <2> QED
    BY <2>7 DEF rows
<1>8. CASE call[q].kind = "cancel"
  <2>1. Cancelling(q)
    BY <1>1, <1>8 DEF Doing
  <2>2. ASSUME NEW i \in Ids, rows[i] # NoRow
        PROVE  /\ db.participants[i] # NoRow
               /\ rows[i].experience = db.participants[i].experience
               /\ rows[i].person = db.participants[i].person
               /\ rows[i].booking = db.participants[i].booking
               /\ rows[i].role \in {"cancelled", db.participants[i].role}
    <3>1. CASE i \in RowsOf(db, e) /\ OccupiesSeat(db.participants[i])
      <4>1. db.participants[i] # NoRow /\ db.participants[i] \in Participation
        BY <1>5, <3>1 DEF OccupiesSeat
      <4>2. snap[q].participants[i] = [db.participants[i] EXCEPT !.role = "cancelled"]
        BY <2>1, <3>1 DEF Cancelling
      <4>3. snap[q].participants[i] \in Participation
        BY <4>1, <4>2 DEF Participation, Roles
      <4>4. rows[i] = snap[q].participants[i]
        BY <1>4, <4>3, ExperienceConstants
      <4> QED
        BY <4>1, <4>2, <4>4 DEF Participation
    <3>2. CASE ~(i \in RowsOf(db, e) /\ OccupiesSeat(db.participants[i]))
      BY <1>4, <2>1, <2>2, <3>2 DEF Cancelling
    <3> QED
      BY <3>1, <3>2
  <2>3. \A i \in Ids : rows[i] # NoRow =>
              /\ rows[i].role \in StorableRoles
              /\ db.experiences[rows[i].experience] # NoRow
              /\ rows[i].booking # NoRow => db.bookings[rows[i].booking] # NoRow
    BY <1>5, <2>2 DEF StorableRoles
  <2>4. Admissible(rows)
    BY <1>1, <1>3, <2>2, <2>3, AdmissibleIf
  <2> QED
    BY <2>4 DEF rows
<1> QED
  BY <1>6, <1>7, <1>8

LEMMA OneRowPerBooking ==
    ASSUME Inv, NEW i \in Ids, NEW j \in Ids, db.participants[i] # NoRow, db.participants[j] # NoRow,
           db.participants[i].booking # NoRow,
           db.participants[i].booking = db.participants[j].booking
    PROVE  i = j
<1>1. /\ RowIsNamed(call, i, db.participants[i]) /\ RowIsNamed(call, j, db.participants[j])
  BY DEF Inv, Named, RowsNamed
<1>2. /\ db.participants[i].experience = db.participants[j].experience
      /\ db.participants[i].person = db.participants[j].person
  BY <1>1 DEF RowIsNamed
<1> QED
  BY <1>2 DEF Inv, OneRowEach

\* When nothing fails, a request goes on until its last statement.
LEMMA GoesOn ==
    ASSUME Inv, NEW q \in Requests, Acts(q), Faults = {}, pc[q] \in Acting, ~StoreParticipants(q)
    PROVE  /\ pc'[q] \in Acting /\ call'[q] = call[q]
           /\ call[q].kind \in {"leave", "cancel"} =>
                 snap'[q].participants = snap[q].participants
           /\ pc[q] = "reserving" => pc'[q] = "storing"
           /\ pc[q] = "storing" => pc'[q] = "enrolling"
<1>0. TypeOK
  BY DEF Inv
<1>1. ASSUME NEW t \in Tables \cup {"bookings"}, Read(q, t)
      PROVE  /\ pc'[q] = pc[q] /\ call'[q] = call[q] /\ pc[q] = "booking"
             /\ snap'[q].participants = snap[q].participants
  <2>1. Reads(q, t) /\ Selects(q, t, db[t])
    BY <1>1 DEF Read, Selects
  <2>2. t = "bookings" /\ pc[q] = "booking"
    BY <2>1 DEF Reads, Acting, Loading
  <2>3. snap'[q] = [snap[q] EXCEPT ![t] = db[t]] /\ pc' = pc /\ call' = call
    BY <1>1, <1>0 DEF Read, TypeOK
  <2> QED
    BY <1>0, <2>2, <2>3 DEF TypeOK, Store
<1>2. CASE CountPlaces(q)
  BY <1>0, <1>2 DEF CountPlaces, Advance, TypeOK, Acting
<1>3. CASE Reserve(q)
  <2>1. pc[q] = "reserving" /\ call[q].kind = "join"
    BY <1>3 DEF Reserve, Inv, Phase
  <2> QED
    BY <1>0, <1>3, <2>1 DEF Reserve, TypeOK, Acting
<1>4. ASSUME NEW k \in Requests, Release(q, k)
      PROVE  /\ pc'[q] \in Acting /\ call'[q] = call[q] /\ pc[q] = "booking"
             /\ snap'[q].participants = snap[q].participants
  <2>1. /\ snap'[q] = Forgotten(q) /\ call' = call /\ pc'[q] \in {"booking", "storing"}
    BY <1>0, <1>4, ReleaseEffect DEF Leaves
  <2> QED
    BY <1>0, <1>4, <2>1, ForgottenIsAStore DEF Acting, Release
<1>5. CASE StoreExperiences(q)
  BY <1>0, <1>5 DEF StoreExperiences, TypeOK, Acting
<1>6. Read(q, "experiences") \/ Read(q, "participants") \/ Read(q, "bookings")
      \/ CountPlaces(q) \/ Reserve(q) \/ (\E k \in Requests : Release(q, k)) \/ StoreExperiences(q)
  <2>1. pc[q] \notin Loading /\ pc[q] # "idle"
    BY DEF Acting, Loading
  <2> QED
    BY <2>1 DEF Acts, Start, FailRead, DecideCreate, DecideBackfill, DecideUpdate, DecideJoin,
       DecideInvite, DecideLeave, DecideCancel, Ready, FailBooking, Crash, Tables
<1> QED
  BY <1>1, <1>2, <1>3, <1>4, <1>5, <1>6 DEF Tables, CountPlaces

\* The last statement of a join, a departure or a cancellation takes effect.
LEMMA LastStatementIsWritten ==
    ASSUME Inv, NEW q \in Requests, Sure(q), StoreParticipants(q), Faults = {},
           call[q].kind \in {"join", "leave", "cancel"}
    PROVE  /\ \A i \in Ids : db'.participants[i] =
                 IF snap[q].participants[i] # NoRow THEN snap[q].participants[i]
                 ELSE db.participants[i]
<1>1. Admissible(Upsert(db.participants, snap[q].participants))
  BY SeatsAreAdmissible DEF StoreParticipants
<1>2. /\ db' = [db EXCEPT !.participants = Upsert(db.participants, snap[q].participants)]
      /\ call' = call
  BY <1>1 DEF StoreParticipants, End
<1> QED
  BY <1>1, <1>2, NewParticipants DEF Inv, Tidy

LEMMA BackedStep ==
    ASSUME Inv, Inv', Faults = {}, Backed, NEW q \in Requests, Sure(q), Acts(q), OthersRest(q),
           \A p \in Requests \ {q} : p \notin InFlight
    PROVE  Backed'
<1> SUFFICES ASSUME NEW k \in Requests, db'.bookings[k] # NoRow, db'.bookings[k].active,
                    pc'[k] \notin {"storing", "enrolling"}
             PROVE  \E i \in Ids : /\ db'.participants[i] # NoRow /\ db'.participants[i].booking = k
                                   /\ db'.participants[i].role = "participant"
  BY DEF Backed
<1>0. k # NoRow
  BY ExperienceConstants
<1>1. ASSUME NEW i \in Ids, db.participants[i] # NoRow, db.participants[i].booking = k,
             db.participants[i].role = "participant", db.bookings[k].active
      PROVE  db'.participants[i] = db.participants[i]
  <2>1. CASE StoreParticipants(q)
    <3>1. OccupiesSeat(db.participants[i])
      BY <1>1 DEF OccupiesSeat, OccupyingRoles
    <3> QED
      BY <1>0, <1>1, <2>1, <3>1, SeatsAreKept
  <2>2. CASE ~StoreParticipants(q)
    BY <2>2, OneTableEach
  <2> QED
    BY <2>1, <2>2
<1>2. CASE k # q
  <2>1. pc[k] \notin {"storing", "enrolling"}
    BY <1>2 DEF OthersRest
  <2>2. db'.bookings[k] = db.bookings[k]
    BY <1>2, BookingsOnlyEnd
  <2>3. PICK i \in Ids : /\ db.participants[i] # NoRow /\ db.participants[i].booking = k
                         /\ db.participants[i].role = "participant"
    BY <2>1, <2>2 DEF Backed
  <2> QED
    BY <1>1, <2>2, <2>3
<1>3. CASE k = q
  <2>1. call'[q].kind = "join"
    BY <1>3 DEF Inv, Named, BookingsNamed, BookingIsNamed
  <2>2. CASE pc[q] \in Acting
    <3>1. CASE StoreParticipants(q)
      <4>1. call[q].kind = "join" /\ db'.bookings = db.bookings /\ pc[q] = "enrolling"
        BY <2>1, <3>1, OneTableEach DEF StoreParticipants, End
      <4>2. \A i \in Ids : db'.participants[i] =
                 IF snap[q].participants[i] # NoRow THEN snap[q].participants[i]
                 ELSE db.participants[i]
        BY <3>1, <4>1, LastStatementIsWritten
      <4>3. PICK n \in Ids : Puts(q, n, "participant", q)
        BY <1>3, <2>2, <4>1 DEF Sure, Doing, Joining
      <4>4. call[q].experience \in Experiences /\ call[q].by \in Persons
        BY <4>1, StartedHaveCalls, CallsHaveFields DEF Inv
      <4>5. /\ snap[q].participants[n] = RowOf(call[q].experience, call[q].by, "participant", q)
            /\ RowOf(call[q].experience, call[q].by, "participant", q) \in Participation
        BY <4>3, <4>4 DEF Puts, RowOf, Participation, Roles
      <4>6. /\ db'.participants[n] # NoRow
            /\ db'.participants[n] = RowOf(call[q].experience, call[q].by, "participant", q)
        BY <4>2, <4>5, ExperienceConstants
      <4> QED
        BY <1>3, <4>6 DEF RowOf
    <3>2. CASE ~StoreParticipants(q)
      <4>1. /\ pc[q] # "reserving" /\ pc[q] # "storing" /\ call'[q] = call[q] /\ pc'[q] \in Acting
        BY <1>3, <2>2, <3>2, GoesOn DEF Acting
      <4>2. pc[q] = "booking"
        BY <2>2, <3>2, <4>1, <1>3, GoesOn DEF Acting, Acts, Start, Read, FailRead, Reads,
           DecideCreate, DecideBackfill, DecideUpdate, DecideJoin, DecideInvite, DecideLeave,
           DecideCancel, Ready, CountPlaces, Reserve, Release, FailBooking, StoreExperiences,
           Crash, Loading
      <4>3. db.bookings[q] = NoRow
        BY <4>2 DEF Inv, Phase
      <4> QED
        BY <1>3, <4>2, <4>3, BookingsOnlyEnd
    <3> QED
      BY <3>1, <3>2
  <2>3. CASE pc[q] \notin Acting
    <3>1. db'.bookings[q] = db.bookings[q]
      BY <2>3, BookingsOnlyEnd DEF Acting
    <3>2. PICK i \in Ids : /\ db.participants[i] # NoRow /\ db.participants[i].booking = k
                           /\ db.participants[i].role = "participant"
      BY <1>3, <2>3, <3>1 DEF Backed, Acting
    <3> QED
      BY <1>1, <1>3, <3>1, <3>2
  <2> QED
    BY <2>2, <2>3
<1> QED
  BY <1>2, <1>3

\* The call that cancels a participant's booking also clears their row.
LEMMA CancelledSeatIsCleared ==
    ASSUME Inv, NEW q \in Requests, Sure(q), pc[q] = "booking", call[q].kind \in {"leave", "cancel"},
           NEW i \in Ids, db.participants[i] # NoRow, db.participants[i].role = "participant",
           db.participants[i].booking # NoRow, db.participants[i].booking \in work[q]
    PROVE  Clears(q, i)
<1> DEFINE e == call[q].experience
           p == call[q].by
           b == db.participants[i].booking
<1>1. /\ call[q] \in Calls /\ Doing(q) /\ e \in Experiences /\ p \in Persons
      /\ pc[q] \in Acting
  BY StartedHaveCalls, CallsHaveFields DEF Sure, Acting, Inv
<1>2. db.participants[i] \in Participation /\ NoRow \notin Participation
  BY StoreParts, ExperienceConstants DEF Inv, TypeOK
<1>3. CASE call[q].kind = "leave"
  <2>1. PICK n \in OfPerson(db, e, p) :
          /\ Puts(q, n, "cancelled", db.participants[n].booking)
          /\ work[q] \subseteq {db.participants[n].booking} \ {NoRow}
    BY <1>1, <1>3 DEF Doing, Leaving
  <2>2. n \in Ids /\ db.participants[n] # NoRow /\ db.participants[n].booking = b
    BY <2>1 DEF OfPerson, RowsOf
  <2>3. n = i
    BY <2>2, OneRowPerBooking
  <2>4. snap[q].participants[i] = RowOf(e, p, "cancelled", b)
    BY <2>1, <2>3 DEF Puts
  <2>5. RowOf(e, p, "cancelled", b) \in Participation
    BY <1>1, <1>2 DEF RowOf, Participation, Roles
  <2>6. RowOf(e, p, "cancelled", b).role = "cancelled"
    BY DEF RowOf
  <2> QED
    BY <1>1, <1>2, <1>3, <2>4, <2>5, <2>6 DEF Clears
<1>4. CASE call[q].kind = "cancel"
  <2>1. Cancelling(q)
    BY <1>1, <1>4 DEF Doing
  <2>2. b \in Linked(db, e)
    BY <2>1 DEF Cancelling
  <2>3. PICK j \in RowsOf(db, e) : db.participants[j].booking = b
    BY <2>2 DEF Linked
  <2>4. i = j
    BY <2>3, OneRowPerBooking DEF RowsOf
  <2>5. snap[q].participants[i] = [db.participants[i] EXCEPT !.role = "cancelled"]
    BY <2>1, <2>3, <2>4 DEF Cancelling, OccupiesSeat, OccupyingRoles
  <2>6. snap[q].participants[i] \in Participation /\ snap[q].participants[i].role = "cancelled"
    BY <1>2, <2>5 DEF Participation, Roles
  <2> QED
    BY <1>1, <1>2, <1>4, <2>6 DEF Clears
<1> QED
  BY <1>3, <1>4

\* A participant whose row stays keeps the booking, or is about to be cleared.
LEMMA SeatStaysHeld ==
    ASSUME Inv, Inv', Faults = {}, SeatsHeld, NEW q \in Requests, Sure(q), Acts(q), OthersRest(q),
           \A p \in Requests \ {q} : p \notin InFlight,
           NEW i \in Ids, db'.participants[i] = db.participants[i],
           db.participants[i] # NoRow, db.participants[i].role = "participant"
    PROVE  /\ db.participants[i].booking # NoRow
           /\ \/ db'.bookings[db.participants[i].booking].active
              \/ Clears(q, i)'
<1> DEFINE b == db.participants[i].booking
<1>1. b # NoRow /\ (db.bookings[b].active \/ \E r \in Requests : Clears(r, i))
  BY DEF SeatsHeld
<1>2. b \in Requests /\ db.bookings[b] # NoRow
  BY <1>1, StoreParts DEF Inv, TypeOK, Referring, Participation
<1>3. ASSUME Clears(q, i)
      PROVE  Clears(q, i)'
  <2>1. CASE StoreParticipants(q)
    <3>1. db'.participants[i] = snap[q].participants[i]
      BY <1>3, <2>1, LastStatementIsWritten DEF Clears
    <3> QED
      BY <1>3, <3>1 DEF Clears
  <2>2. CASE ~StoreParticipants(q)
    BY <1>3, <2>2, GoesOn DEF Clears
  <2> QED
    BY <2>1, <2>2
<1>4. ASSUME NEW r \in Requests, Clears(r, i)
      PROVE  r = q
  BY <1>4 DEF Clears, Acting, InFlight
<1>5. CASE db.bookings[b].active
  <2>1. CASE /\ pc[q] = "booking" /\ call[q].kind \in {"leave", "cancel"} /\ b \in work[q]
    BY <1>1, <1>3, <2>1, CancelledSeatIsCleared
  <2>2. CASE b = q /\ pc[q] = "reserving"
    <3>1. db.bookings[q] = NoRow
      BY <2>2 DEF Inv, Phase, Sure, Acting, Doing, Joining, MakesBooking
    <3> QED
      BY <1>2, <2>2, <3>1
  <2>3. CASE db'.bookings[b] = db.bookings[b]
    BY <1>1, <1>5, <2>3
  <2> QED
    BY <1>1, <1>2, <2>1, <2>2, <2>3, BookingsOnlyEnd
<1> QED
  BY <1>1, <1>3, <1>4, <1>5

LEMMA SeatsHeldStep ==
    ASSUME Inv, Inv', Faults = {}, SeatsHeld, NEW q \in Requests, Sure(q), Acts(q), OthersRest(q),
           \A p \in Requests \ {q} : p \notin InFlight
    PROVE  SeatsHeld'
<1> SUFFICES ASSUME NEW i \in Ids, db'.participants[i] # NoRow,
                    db'.participants[i].role = "participant"
             PROVE  /\ db'.participants[i].booking # NoRow
                    /\ \/ db'.bookings[db'.participants[i].booking].active
                       \/ \E r \in Requests : Clears(r, i)'
  BY DEF SeatsHeld
<1>1. CASE db'.participants[i] = db.participants[i]
  BY <1>1, SeatStaysHeld
<1>2. CASE db'.participants[i] # db.participants[i]
  <2>1. StoreParticipants(q) /\ db' # db /\ pc[q] = "enrolling"
    BY <1>2, OneTableEach DEF StoreParticipants
  <2>2. /\ Admissible(Upsert(db.participants, snap[q].participants))
        /\ db'.bookings = db.bookings
        /\ db'.participants[i] = snap[q].participants[i] /\ snap[q].participants[i] # NoRow
    BY <1>2, <2>1, EnrolledRows
  <2>3. Doing(q) /\ call[q] \in Calls /\ call[q].experience \in Experiences
    BY <2>1, StartedHaveCalls, CallsHaveFields DEF Sure, Acting, Inv
  <2>4. CASE call[q].kind \in {"create", "backfill"}
    <3>1. Creating(q)
      BY <2>3, <2>4 DEF Doing
    <3>2. i = q
      BY <1>2, <2>2, <3>1 DEF Creating, OnlyRow
    <3> QED
      BY <2>2, <3>1, <3>2 DEF Creating, CreatorRow
  <2>5. CASE call[q].kind = "update"
    BY <1>2, <2>2, <2>3, <2>5 DEF Doing, Updating
  <2>6. CASE call[q].kind = "join"
    <3>1. Joining(q)
      BY <2>3, <2>6 DEF Doing
    <3>2. CASE (\E n \in Ids : Puts(q, n, "participant", q)) /\ db.bookings[q].active
      <4>1. PICK n \in Ids : Puts(q, n, "participant", q)
        BY <3>2
      <4>2. i = n
        BY <1>2, <2>2, <4>1 DEF Puts, OnlyRow
      <4>3. db'.participants[i] = RowOf(call[q].experience, call[q].by, "participant", q)
        BY <2>2, <4>1, <4>2 DEF Puts
      <4>4. db'.participants[i].booking = q
        BY <4>3 DEF RowOf
      <4> QED
        BY <2>2, <3>2, <4>4, ExperienceConstants
    <3>3. CASE \E n \in Ids : Puts(q, n, "waitlist", NoRow)
      <4>1. PICK n \in Ids : Puts(q, n, "waitlist", NoRow)
        BY <3>3
      <4>2. i = n
        BY <1>2, <2>2, <4>1 DEF Puts, OnlyRow
      <4>3. db'.participants[i] = RowOf(call[q].experience, call[q].by, "waitlist", NoRow)
        BY <2>2, <4>1, <4>2 DEF Puts
      <4> QED
        BY <4>3 DEF RowOf
    <3> QED
      BY <2>1, <3>1, <3>2, <3>3 DEF Joining
  <2>7. CASE call[q].kind = "leave"
    <3>1. PICK n \in OfPerson(db, call[q].experience, call[q].by) :
            Puts(q, n, "cancelled", db.participants[n].booking)
      BY <2>3, <2>7 DEF Doing, Leaving
    <3>2. i = n
      BY <1>2, <2>2, <3>1 DEF Puts, OnlyRow
    <3> QED
      BY <2>2, <3>1, <3>2 DEF Puts, RowOf
  <2>8. CASE call[q].kind = "cancel"
    <3>1. Cancelling(q)
      BY <2>3, <2>8 DEF Doing
    <3>2. /\ OccupiesSeat(db.participants[i])
          /\ snap[q].participants[i] = [db.participants[i] EXCEPT !.role = "cancelled"]
      BY <1>2, <2>2, <3>1 DEF Cancelling
    <3>3. db.participants[i] \in Participation
      BY <3>2, StoreParts DEF Inv, TypeOK, OccupiesSeat
    <3> QED
      BY <2>2, <3>2, <3>3 DEF Participation
  <2>9. CASE call[q].kind = "invite"
    BY <2>2, <2>3, <2>9, InvitationsAreRefused DEF Doing
  <2> QED
    BY <2>3, <2>4, <2>5, <2>6, <2>7, <2>8, <2>9, CallsHaveFields
<1> QED
  BY <1>1, <1>2

\* A booking is of an experience that is stored.
Anchored == \A k \in Requests : db.bookings[k] # NoRow =>
    /\ db.bookings[k].experience \in Experiences
    /\ db.experiences[db.bookings[k].experience] # NoRow

LEMMA AnchoredStep ==
    ASSUME Inv, Inv', Anchored, NEW q \in Requests, Sure(q), Acts(q), Grows(q)
    PROVE  Anchored'
<1> SUFFICES ASSUME NEW k \in Requests, db'.bookings[k] # NoRow
             PROVE  /\ db'.bookings[k].experience \in Experiences
                    /\ db'.experiences[db'.bookings[k].experience] # NoRow
  BY DEF Anchored
<1>1. BookingIsNamed(call', k, db'.bookings[k])
  BY DEF Inv, Named, BookingsNamed
<1>2. CASE db.bookings[k] # NoRow
  <2>1. BookingIsNamed(call, k, db.bookings[k])
    BY <1>2 DEF Inv, Named, BookingsNamed
  <2>2. db'.bookings[k].experience = db.bookings[k].experience
    BY <1>1, <2>1 DEF BookingIsNamed, Grows
  <2> QED
    BY <1>2, <2>2 DEF Anchored, Grows
<1>3. CASE db.bookings[k] = NoRow
  <2>1. k = q /\ pc[q] = "reserving" /\ call[q].kind = "join"
    BY <1>3 DEF Grows, Inv, Phase
  <2>2. call[q] \in Calls /\ call[q].experience \in Experiences
    BY <2>1, StartedHaveCalls, CallsHaveFields DEF Inv
  <2>3. call'[q] = call[q]
    BY <2>2, ExperienceConstants DEF Grows
  <2>4. db'.bookings[k].experience = call[q].experience
    BY <1>1, <2>1, <2>3 DEF BookingIsNamed
  <2>5. db.experiences[call[q].experience] # NoRow
    BY <2>1 DEF Sure, Acting, Doing, Joining, IsPublished
  <2> QED
    BY <2>2, <2>4, <2>5 DEF Grows
<1> QED
  BY <1>2, <1>3

\* What the second half of the story rests on: no PATCH sets the status of an
\* experience to cancelled, which would release no booking.
PatchesDoNotCancel == \A c \in Calls : c.kind = "update" => c.status # "cancelled"

\* An experience that is cancelled has no active booking.
Closed == \A e \in Experiences : db.experiences[e] # NoRow /\ db.experiences[e].status = "cancelled" =>
    \A k \in Requests : ~(/\ db.bookings[k] # NoRow /\ db.bookings[k].active
                          /\ db.bookings[k].experience = e)

\* Once the linked bookings are released, the experience has none.
LEMMA CancelledHasNoBooking ==
    ASSUME Inv, Backed, NEW q \in Requests, pc[q] = "storing", call[q].kind = "cancel", Cancelling(q),
           \A p \in Requests \ {q} : p \notin InFlight,
           NEW k \in Requests, db.bookings[k] # NoRow, db.bookings[k].active
    PROVE  db.bookings[k].experience # call[q].experience
<1>1. BookingIsNamed(call, k, db.bookings[k])
  BY DEF Inv, Named, BookingsNamed
<1>2. k # q
  BY <1>1 DEF BookingIsNamed
<1>3. PICK i \in Ids : db.participants[i] # NoRow /\ db.participants[i].booking = k
  BY <1>2 DEF Backed, InFlight
<1>4. RowIsNamed(call, i, db.participants[i]) /\ k # NoRow
  BY <1>3, ExperienceConstants DEF Inv, Named, RowsNamed
<1>5. db.participants[i].experience = db.bookings[k].experience
  BY <1>1, <1>3, <1>4 DEF BookingIsNamed, RowIsNamed
<1>6. db.participants[i].experience = call[q].experience => k \in Linked(db, call[q].experience)
  BY <1>3, <1>4 DEF Linked, RowsOf
<1> QED
  BY <1>5, <1>6 DEF Cancelling, Released

LEMMA ClosedStep ==
    ASSUME PatchesDoNotCancel, Inv, Inv', Backed, Anchored, Closed,
           NEW q \in Requests, Sure(q), Acts(q), \A p \in Requests \ {q} : p \notin InFlight
    PROVE  Closed'
<1> SUFFICES ASSUME NEW e \in Experiences, db'.experiences[e] # NoRow,
                    db'.experiences[e].status = "cancelled",
                    NEW k \in Requests, db'.bookings[k] # NoRow, db'.bookings[k].active,
                    db'.bookings[k].experience = e
             PROVE  FALSE
  BY DEF Closed
<1>1. CASE StoreExperiences(q)
  <2>1. /\ pc[q] = "storing" /\ db'.bookings = db.bookings
        /\ \/ db' = db
           \/ \A x \in Experiences : db'.experiences[x] =
                 IF snap[q].experiences[x] # NoRow THEN snap[q].experiences[x]
                 ELSE db.experiences[x]
    BY <1>1, StoreExperiencesEffect DEF Inv, StoreExperiences
  <2>2. /\ call[q] \in Calls /\ Doing(q) /\ call[q].experience \in Experiences
    BY <2>1, StartedHaveCalls, CallsHaveFields DEF Sure, Acting, Inv
  <2>3. CASE db'.experiences[e] = db.experiences[e]
    BY <2>1, <2>3 DEF Closed
  <2>4. CASE db'.experiences[e] # db.experiences[e]
    <3>1. db'.experiences[e] = snap[q].experiences[e] /\ snap[q].experiences # db.experiences
      BY <2>1, <2>4
    <3>2. db.experiences[e] # NoRow
      BY <2>1 DEF Anchored
    <3>3. CASE call[q].kind \in {"create", "backfill"}
      BY <2>1, <2>2, <2>4, <3>1, <3>2, <3>3 DEF Doing, Creating, OnlyExperience
    <3>4. CASE call[q].kind = "update"
      <4>1. e = call[q].experience /\ db'.experiences[e] = Updated(db.experiences[e], call[q])
        BY <2>1, <2>2, <2>4, <3>1, <3>4 DEF Doing, Updating, OnlyExperience
      <4>2. db'.experiences[e].status = IF call[q].status = Keep THEN db.experiences[e].status
                                        ELSE call[q].status
        BY <4>1 DEF Updated
      <4> QED
        BY <2>1, <2>2, <3>2, <3>4, <4>2 DEF Closed, PatchesDoNotCancel
    <3>5. CASE call[q].kind \in {"join", "leave", "invite"}
      BY <2>2, <3>1, <3>5 DEF Doing, Joining, Leaving, Inviting
    <3>6. CASE call[q].kind = "cancel"
      <4>1. Cancelling(q) /\ e = call[q].experience
        BY <2>1, <2>2, <2>4, <3>1, <3>6 DEF Doing, Cancelling, OnlyExperience
      <4> QED
        BY <2>1, <3>6, <4>1, CancelledHasNoBooking
    <3> QED
      BY <2>2, <3>3, <3>4, <3>5, <3>6, CallsHaveFields
  <2> QED
    BY <2>3, <2>4
<1>2. CASE ~StoreExperiences(q)
  <2>1. db'.experiences = db.experiences
    BY <1>2, OneTableEach
  <2>2. CASE db'.bookings[k] = db.bookings[k]
    BY <2>1, <2>2 DEF Closed
  <2>3. CASE k = q /\ pc[q] = "reserving" /\ db'.bookings[k] = snap[q].bookings[k]
    <3>1. /\ snap[q].bookings[q].experience = call[q].experience
          /\ IsPublished(db, call[q].experience)
      BY <2>3 DEF Inv, Phase, Sure, Acting, Doing, Joining, MakesBooking
    <3> QED
      BY <2>1, <2>3, <3>1 DEF IsPublished
  <2> QED
    BY <2>2, <2>3, BookingsOnlyEnd
<1> QED
  BY <1>1, <1>2

-----------------------------------------------------------------------------
(* The two stores tell the same story.                                     *)

Matched == Backed /\ SeatsHeld

LEMMA MatchedAtStart == Init => Matched /\ Anchored /\ Closed
<1> SUFFICES ASSUME Init PROVE Matched /\ Anchored /\ Closed
  OBVIOUS
<1>1. \A k \in Requests : db.bookings[k] = NoRow
  BY DEF Init, NoStore
<1>2. \A i \in Ids : db.participants[i] = IF i \in Stored THEN CreatorRow(i) ELSE NoRow
  BY DEF Init, NoStore
<1>3. Backed /\ Anchored /\ Closed
  BY <1>1 DEF Backed, Anchored, Closed
<1>4. \A i \in Ids : db.participants[i] # NoRow => db.participants[i].role = "creator"
  <2>1. \A i \in Ids : db.participants[i] # NoRow => db.participants[i] = CreatorRow(i)
    BY <1>2
  <2>2. \A i : CreatorRow(i).role = "creator"
    BY DEF CreatorRow
  <2> QED
    BY <2>1, <2>2
<1>5. SeatsHeld
  BY <1>4 DEF SeatsHeld
<1> QED
  BY <1>3, <1>5 DEF Matched

LEMMA MatchedStep ==
    ASSUME NothingFails
    PROVE  Inv /\ Inv' /\ SeqInv /\ apart' /\ Matched /\ [Next]_<<vars, apart>> => Matched'
<1> SUFFICES ASSUME Inv, Inv', SeqInv, apart', Matched, [Next]_<<vars, apart>>
             PROVE  Matched'
  OBVIOUS
<1>1. CASE Next
  <2>1. PICK q \in Requests : Acts(q)
    BY <1>1, SomebodyActs DEF Next
  <2>2. Advanced(q)
    BY <2>1, ActsKeepInv
  <2>3. Sure(q) /\ OthersRest(q) /\ \A p \in Requests \ {q} : p \notin InFlight
    BY <1>1, <2>1, <2>2, ActsAlone DEF Advanced, Inv
  <2> QED
    BY <2>1, <2>3, BackedStep, SeatsHeldStep DEF Matched, NothingFails
<1>2. CASE UNCHANGED <<vars, apart>>
  BY <1>2 DEF Matched, Backed, SeatsHeld, Clears, vars
<1> QED
  BY <1>1, <1>2

LEMMA ClosedStays ==
    ASSUME NothingFails, PatchesDoNotCancel
    PROVE  /\ Inv /\ Inv' /\ SeqInv /\ apart' /\ Matched /\ [Next]_<<vars, apart>>
           /\ Anchored /\ Closed
           => Anchored' /\ Closed'
<1> SUFFICES ASSUME Inv, Inv', SeqInv, apart', Matched, [Next]_<<vars, apart>>, Anchored, Closed
             PROVE  Anchored' /\ Closed'
  OBVIOUS
<1>1. CASE Next
  <2>1. PICK q \in Requests : Acts(q)
    BY <1>1, SomebodyActs DEF Next
  <2>2. Advanced(q)
    BY <2>1, ActsKeepInv
  <2>3. /\ Sure(q) /\ OthersRest(q) /\ Grows(q) /\ Backed
        /\ \A p \in Requests \ {q} : p \notin InFlight
    BY <1>1, <2>1, <2>2, ActsAlone DEF Advanced, Inv, Matched
  <2> QED
    BY <2>1, <2>3, AnchoredStep, ClosedStep
<1>2. CASE UNCHANGED <<vars, apart>>
  BY <1>2 DEF Anchored, Closed, vars
<1> QED
  BY <1>1, <1>2

OneBookingPerSeat == Quiet => \A e \in Experiences, p \in Persons :
    Cardinality(ActiveBookings(e, p)) =
        IF \E i \in OfPerson(db, e, p) : db.participants[i].role = "participant" THEN 1 ELSE 0

LEMMA BookingOfSeat ==
    ASSUME Inv, NEW i \in Ids, db.participants[i] # NoRow, db.participants[i].booking # NoRow
    PROVE  /\ db.participants[i].booking \in Requests
           /\ db.bookings[db.participants[i].booking] # NoRow
           /\ db.bookings[db.participants[i].booking].experience = db.participants[i].experience
           /\ db.bookings[db.participants[i].booking].by = db.participants[i].person
<1> DEFINE k == db.participants[i].booking
<1>1. k \in Requests /\ db.bookings[k] # NoRow
  BY StoreParts DEF Inv, TypeOK, Referring, Participation
<1>2. RowIsNamed(call, i, db.participants[i]) /\ BookingIsNamed(call, k, db.bookings[k])
  BY <1>1 DEF Inv, Named, RowsNamed, BookingsNamed
<1> QED
  BY <1>1, <1>2 DEF RowIsNamed, BookingIsNamed

LEMMA MatchedBookings == Inv /\ Matched => OneBookingPerSeat
<1> SUFFICES ASSUME Inv, Matched, Quiet, NEW e \in Experiences, NEW p \in Persons
             PROVE  Cardinality(ActiveBookings(e, p)) =
                       IF \E i \in OfPerson(db, e, p) : db.participants[i].role = "participant"
                         THEN 1 ELSE 0
  BY DEF OneBookingPerSeat
<1>1. ASSUME NEW k \in ActiveBookings(e, p)
      PROVE  \E i \in OfPerson(db, e, p) : /\ db.participants[i].role = "participant"
                                           /\ db.participants[i].booking = k
  <2>1. k \in Requests /\ k # NoRow /\ pc[k] \notin {"storing", "enrolling"}
    BY ExperienceConstants DEF ActiveBookings, Quiet, InFlight
  <2>2. PICK i \in Ids : /\ db.participants[i] # NoRow /\ db.participants[i].booking = k
                         /\ db.participants[i].role = "participant"
    BY <2>1 DEF Matched, Backed, ActiveBookings
  <2>3. db.participants[i].experience = e /\ db.participants[i].person = p
    BY <2>1, <2>2, BookingOfSeat DEF ActiveBookings
  <2> QED
    BY <2>2, <2>3 DEF OfPerson, RowsOf
<1>2. CASE \E i \in OfPerson(db, e, p) : db.participants[i].role = "participant"
  <2>1. PICK i \in OfPerson(db, e, p) : db.participants[i].role = "participant"
    BY <1>2
  <2>2. /\ i \in Ids /\ db.participants[i] # NoRow
        /\ db.participants[i].experience = e /\ db.participants[i].person = p
    BY <2>1 DEF OfPerson, RowsOf
  <2> DEFINE k == db.participants[i].booking
  <2>3. k # NoRow /\ db.bookings[k].active
    BY <2>1, <2>2 DEF Matched, SeatsHeld, Clears, Acting, Quiet, InFlight
  <2>4. k \in ActiveBookings(e, p)
    BY <2>2, <2>3, BookingOfSeat DEF ActiveBookings
  <2>5. ASSUME NEW j \in ActiveBookings(e, p)
        PROVE  j = k
    <3>1. PICK n \in OfPerson(db, e, p) : db.participants[n].booking = j
      BY <1>1
    <3>2. n = i
      BY <2>2, <3>1 DEF OfPerson, RowsOf, Inv, OneRowEach
    <3> QED
      BY <3>1, <3>2
  <2>6. ActiveBookings(e, p) = {k}
    BY <2>4, <2>5
  <2> HIDE DEF k
  <2> QED
    BY <1>2, <2>6, FS_Singleton
<1>3. CASE ~\E i \in OfPerson(db, e, p) : db.participants[i].role = "participant"
  <2>1. ActiveBookings(e, p) = {}
    BY <1>1, <1>3
  <2> QED
    BY <1>3, <2>1, FS_EmptySet
<1> QED
  BY <1>2, <1>3

\* One request at a time, and with no failures: between requests, whoever is
\* listed as a participant holds exactly one active booking, and nobody else
\* holds any, however often people leave and come back.
THEOREM EverySeatHasItsBooking == ASSUME NothingFails PROVE Spec => []OneBookingPerSeat
<1>1. OneAtATime
  BY DEF NothingFails
<1>2. Spec => []apart
  BY <1>1, OneAtATimeIsApart
<1>3. Init => Matched
  BY MatchedAtStart
<1>4. Inv /\ Inv' /\ SeqInv /\ apart' /\ Matched /\ [Next]_<<vars, apart>> => Matched'
  BY MatchedStep
<1>5. Inv /\ Matched => OneBookingPerSeat
  BY MatchedBookings
<1> QED
  BY <1>2, <1>3, <1>4, <1>5, ExperiencesInvariant, RequestsDecideOnTheTables, PTL DEF Spec

\* Then, and unless a PATCH sets the status to cancelled, nobody keeps a place in
\* an experience that was cancelled either: the two stores tell the same story.
THEOREM SeatsAndBookingsAgree ==
    ASSUME NothingFails, PatchesDoNotCancel PROVE Spec => []SeatAndBookingAgree
<1>1. OneAtATime
  BY DEF NothingFails
<1>2. Spec => []apart
  BY <1>1, OneAtATimeIsApart
<1>3. Init => Matched /\ Anchored /\ Closed
  BY MatchedAtStart
<1>4. Inv /\ Inv' /\ SeqInv /\ apart' /\ Matched /\ [Next]_<<vars, apart>> => Matched'
  BY MatchedStep
<1>5. /\ Inv /\ Inv' /\ SeqInv /\ apart' /\ Matched /\ [Next]_<<vars, apart>>
      /\ Anchored /\ Closed
      => Anchored' /\ Closed'
  BY ClosedStays
<1>6. Closed /\ OneBookingPerSeat => SeatAndBookingAgree
  <2> SUFFICES ASSUME Closed, OneBookingPerSeat, Quiet, NEW e \in Experiences, NEW p \in Persons
               PROVE  /\ Cardinality(ActiveBookings(e, p)) =
                            IF \E i \in OfPerson(db, e, p) : db.participants[i].role = "participant"
                              THEN 1 ELSE 0
                      /\ db.experiences[e] # NoRow /\ db.experiences[e].status = "cancelled" =>
                            ActiveBookings(e, p) = {}
    BY DEF SeatAndBookingAgree
  <2> QED
    BY DEF OneBookingPerSeat, Closed, ActiveBookings
<1> QED
  BY <1>2, <1>3, <1>4, <1>5, <1>6, EverySeatHasItsBooking, ExperiencesInvariant,
     RequestsDecideOnTheTables, PTL DEF Spec

-----------------------------------------------------------------------------
(* The tables behave as Attendance.                                        *)

\* A process may die, but what is read and written is read and written.
StatementsWork == OneAtATime /\ "write" \notin Faults

NoneFailed == \A q \in Requests : ~failed[q]

LEMMA NoneFails == ASSUME "write" \notin Faults PROVE Spec => []NoneFailed
<1>1. Init => NoneFailed
  BY DEF Init, NoneFailed
<1>2. Inv /\ NoneFailed /\ [Next]_<<vars, apart>> => NoneFailed'
  <2>1. ASSUME Inv, NoneFailed, NEW q \in Requests, Acts(q)
        PROVE  NoneFailed'
    <3>0. TypeOK
      BY <2>1 DEF Inv
    <3>1. failed' = failed \/ failed' = [failed EXCEPT ![q] = FALSE]
      BY <2>1 DEF Acts, Start, Read, FailRead, DecideCreate, DecideBackfill, DecideUpdate,
         DecideJoin, DecideInvite, DecideLeave, DecideCancel, CountPlaces, Reserve, Release,
         FailBooking, StoreExperiences, StoreParticipants, Crash, Advance, Reject, End
    <3> QED
      BY <2>1, <3>0, <3>1 DEF NoneFailed, TypeOK
  <2>2. ASSUME NoneFailed, UNCHANGED <<vars, apart>>
        PROVE  NoneFailed'
    BY <2>2 DEF NoneFailed, vars
  <2> QED
    BY <2>1, <2>2, SomebodyActs DEF Next
<1> QED
  BY <1>1, <1>2, ExperiencesInvariant, PTL DEF Spec

\* What Attendance sees of the tables.
StatusSeen == [e \in Experiences |-> IF db.experiences[e] = NoRow THEN "absent"
                                     ELSE db.experiences[e].status]
SeatsSeen == [e \in Experiences |-> IF db.experiences[e] = NoRow THEN FirstCapacity[e]
                                    ELSE db.experiences[e].capacity]
SeatedSeen == [e \in Experiences |-> WithRoleIn(e, OccupyingRoles)]
WaitingSeen == [e \in Experiences |-> WithRoleIn(e, {"waitlist"})]

LEMMA WhatIsSeen ==
    /\ Attends!vars = <<StatusSeen, SeatsSeen, SeatedSeen, WaitingSeen>>
    /\ Attends!vars' = <<StatusSeen', SeatsSeen', SeatedSeen', WaitingSeen'>>
  BY DEF Attends!vars, StatusSeen, SeatsSeen, SeatedSeen, WaitingSeen

LEMMA SameExperiencesSeen ==
    ASSUME db'.experiences = db.experiences
    PROVE  StatusSeen' = StatusSeen /\ SeatsSeen' = SeatsSeen
  BY DEF StatusSeen, SeatsSeen

LEMMA SamePeopleSeen ==
    ASSUME db'.participants = db.participants
    PROVE  SeatedSeen' = SeatedSeen /\ WaitingSeen' = WaitingSeen
<1>1. \A e, roles : WithRoleIn(e, roles)' = WithRoleIn(e, roles)
  BY DEF WithRoleIn, OfPerson, RowsOf
<1> QED
  BY <1>1 DEF SeatedSeen, WaitingSeen

LEMMA HasRole ==
    ASSUME NEW e, NEW p, NEW roles
    PROVE  /\ p \in WithRoleIn(e, roles) <=>
                 p \in Persons /\ \E i \in Ids : /\ db.participants[i] # NoRow
                                                 /\ db.participants[i].experience = e
                                                 /\ db.participants[i].person = p
                                                 /\ db.participants[i].role \in roles
           /\ p \in WithRoleIn(e, roles)' <=>
                 p \in Persons /\ \E i \in Ids : /\ db'.participants[i] # NoRow
                                                 /\ db'.participants[i].experience = e
                                                 /\ db'.participants[i].person = p
                                                 /\ db'.participants[i].role \in roles
  BY DEF WithRoleIn, OfPerson, RowsOf

\* Of the rows, only the one of person p in experience e is written.
Writes(n, e, p, role, b) ==
    /\ \/ n \in OfPerson(db, e, p)
       \/ db.participants[n] = NoRow /\ OfPerson(db, e, p) = {}
    /\ db'.participants[n] = RowOf(e, p, role, b) /\ db'.participants[n] # NoRow
    /\ \A i \in Ids \ {n} : db'.participants[i] = db.participants[i]

\* A row that is written moves its person, and nobody else.
LEMMA OneRowIsWritten ==
    ASSUME Inv, Inv', NEW n \in Ids, NEW e \in Experiences, NEW p \in Persons, NEW role, NEW b,
           Writes(n, e, p, role, b), NEW roles
    PROVE  /\ \A x \in Experiences \ {e} : WithRoleIn(x, roles)' = WithRoleIn(x, roles)
           /\ role \in roles => WithRoleIn(e, roles)' = WithRoleIn(e, roles) \cup {p}
           /\ role \notin roles => WithRoleIn(e, roles)' = WithRoleIn(e, roles) \ {p}
<1>1. /\ db'.participants[n].experience = e /\ db'.participants[n].person = p
      /\ db'.participants[n].role = role
  BY DEF RowOf, Writes
<1>2. db.participants[n] # NoRow =>
        db.participants[n].experience = e /\ db.participants[n].person = p
  BY DEF OfPerson, RowsOf, Writes
<1>3. ASSUME NEW x \in Experiences, NEW r, x # e \/ r # p
      PROVE  r \in WithRoleIn(x, roles)' <=> r \in WithRoleIn(x, roles)
  <2>1. ASSUME NEW i \in Ids
        PROVE  (/\ db'.participants[i] # NoRow
                /\ db'.participants[i].experience = x /\ db'.participants[i].person = r
                /\ db'.participants[i].role \in roles)
               <=> (/\ db.participants[i] # NoRow
                    /\ db.participants[i].experience = x /\ db.participants[i].person = r
                    /\ db.participants[i].role \in roles)
    BY <1>1, <1>2, <1>3 DEF Writes
  <2> QED
    BY <2>1, HasRole
<1>4. p \in WithRoleIn(e, roles)' <=> role \in roles
  <2>1. ASSUME NEW i \in Ids, db'.participants[i] # NoRow, db'.participants[i].experience = e,
               db'.participants[i].person = p
        PROVE  i = n
    BY <1>1, <2>1 DEF Inv, OneRowEach, Writes
  <2>2. p \in WithRoleIn(e, roles)' <=>
          \E i \in Ids : /\ db'.participants[i] # NoRow /\ db'.participants[i].experience = e
                         /\ db'.participants[i].person = p /\ db'.participants[i].role \in roles
    BY HasRole
  <2> QED
    BY <1>1, <2>1, <2>2 DEF Writes
<1>6. \A x \in Experiences \ {e} : WithRoleIn(x, roles)' = WithRoleIn(x, roles)
  BY <1>3
<1>7. \A r : r # p => (r \in WithRoleIn(e, roles)' <=> r \in WithRoleIn(e, roles))
  BY <1>3
<1>8. role \in roles => WithRoleIn(e, roles)' = WithRoleIn(e, roles) \cup {p}
  BY <1>4, <1>7
<1>9. role \notin roles => WithRoleIn(e, roles)' = WithRoleIn(e, roles) \ {p}
  BY <1>4, <1>7
<1> QED
  BY <1>6, <1>8, <1>9

LEMMA SeenIn ==
    ASSUME NEW e \in Experiences
    PROVE  /\ StatusSeen[e] = IF db.experiences[e] = NoRow THEN "absent" ELSE db.experiences[e].status
           /\ SeatedSeen[e] = WithRoleIn(e, OccupyingRoles)
           /\ WaitingSeen[e] = WithRoleIn(e, {"waitlist"})
  BY DEF StatusSeen, SeatedSeen, WaitingSeen

\* A row that is written, as it is seen.
LEMMA OneRowIsSeen ==
    ASSUME Inv, Inv', NEW n \in Ids, NEW e \in Experiences, NEW p \in Persons, NEW role, NEW b,
           Writes(n, e, p, role, b)
    PROVE  /\ SeatedSeen' = [SeatedSeen EXCEPT ![e] = IF role \in OccupyingRoles THEN @ \cup {p}
                                                      ELSE @ \ {p}]
           /\ WaitingSeen' = [WaitingSeen EXCEPT ![e] = IF role = "waitlist" THEN @ \cup {p}
                                                        ELSE @ \ {p}]
<1>1. ASSUME NEW roles
      PROVE  /\ \A x \in Experiences \ {e} : WithRoleIn(x, roles)' = WithRoleIn(x, roles)
             /\ role \in roles => WithRoleIn(e, roles)' = WithRoleIn(e, roles) \cup {p}
             /\ role \notin roles => WithRoleIn(e, roles)' = WithRoleIn(e, roles) \ {p}
  BY OneRowIsWritten
<1>2. SeatedSeen' = [SeatedSeen EXCEPT ![e] = IF role \in OccupyingRoles THEN @ \cup {p}
                                              ELSE @ \ {p}]
  BY <1>1 DEF SeatedSeen
<1>3. WaitingSeen' = [WaitingSeen EXCEPT ![e] = IF role = "waitlist" THEN @ \cup {p} ELSE @ \ {p}]
  <2>1. role \in {"waitlist"} <=> role = "waitlist"
    OBVIOUS
  <2> QED
    BY <1>1, <2>1 DEF WaitingSeen
<1> QED
  BY <1>2, <1>3

LEMMA OneExperienceIsSeen ==
    ASSUME NEW e \in Experiences, db'.experiences[e] # NoRow,
           \A x \in Experiences \ {e} : db'.experiences[x] = db.experiences[x]
    PROVE  /\ StatusSeen' = [StatusSeen EXCEPT ![e] = db'.experiences[e].status]
           /\ SeatsSeen' = [SeatsSeen EXCEPT ![e] = db'.experiences[e].capacity]
  BY DEF StatusSeen, SeatsSeen

LEMMA OpenSeen ==
    ASSUME NEW e \in Experiences, NEW s \in {"draft", "published", "cancelled"},
           StatusSeen[e] = "absent", StatusSeen' = [StatusSeen EXCEPT ![e] = s],
           UNCHANGED <<SeatsSeen, SeatedSeen, WaitingSeen>>
    PROVE  Attends!Next
<1>1. Attends!Open(e, s)
  BY DEF Attends!Open, StatusSeen, SeatsSeen, SeatedSeen, WaitingSeen
<1> QED
  BY <1>1 DEF Attends!Next

LEMMA TakeHostSeatSeen ==
    ASSUME NEW e \in Experiences, StatusSeen[e] # "absent", SeatedSeen[e] = {}, WaitingSeen[e] = {},
           SeatedSeen' = [SeatedSeen EXCEPT ![e] = {Owner[e]}],
           UNCHANGED <<StatusSeen, SeatsSeen, WaitingSeen>>
    PROVE  Attends!Next
<1>1. Attends!TakeHostSeat(e)
  BY DEF Attends!TakeHostSeat, StatusSeen, SeatsSeen, SeatedSeen, WaitingSeen
<1> QED
  BY <1>1 DEF Attends!Next

LEMMA CardinalitySeen == ASSUME NEW S PROVE Attends!Cardinality(S) = Cardinality(S)
  BY DEF Attends!Cardinality, Cardinality

LEMMA EnrollSeen ==
    ASSUME NEW e \in Experiences, NEW p \in Persons, StatusSeen[e] = "published",
           p \notin SeatedSeen[e], Cardinality(SeatedSeen[e]) < SeatsSeen[e],
           SeatedSeen' = [SeatedSeen EXCEPT ![e] = @ \cup {p}],
           WaitingSeen' = [WaitingSeen EXCEPT ![e] = @ \ {p}],
           UNCHANGED <<StatusSeen, SeatsSeen>>
    PROVE  Attends!Next
<1>1. Attends!Free(e)
  BY CardinalitySeen DEF Attends!Free, SeatsSeen, SeatedSeen
<1>2. Attends!Enroll(e, p)
  BY <1>1 DEF Attends!Enroll, StatusSeen, SeatsSeen, SeatedSeen, WaitingSeen
<1> QED
  BY <1>2 DEF Attends!Next

LEMMA QueueSeen ==
    ASSUME NEW e \in Experiences, NEW p \in Persons, StatusSeen[e] = "published",
           p \notin SeatedSeen[e],
           WaitingSeen' = [WaitingSeen EXCEPT ![e] = @ \cup {p}],
           UNCHANGED <<StatusSeen, SeatsSeen, SeatedSeen>>
    PROVE  Attends!Next
<1>1. Attends!Queue(e, p)
  BY DEF Attends!Queue, StatusSeen, SeatsSeen, SeatedSeen, WaitingSeen
<1> QED
  BY <1>1 DEF Attends!Next

LEMMA WithdrawSeen ==
    ASSUME NEW e \in Experiences, NEW p \in Persons, p \in SeatedSeen[e] \cup WaitingSeen[e],
           SeatedSeen' = [SeatedSeen EXCEPT ![e] = @ \ {p}],
           WaitingSeen' = [WaitingSeen EXCEPT ![e] = @ \ {p}],
           UNCHANGED <<StatusSeen, SeatsSeen>>
    PROVE  Attends!Next
<1>1. Attends!Withdraw(e, p)
  BY DEF Attends!Withdraw, StatusSeen, SeatsSeen, SeatedSeen, WaitingSeen
<1> QED
  BY <1>1 DEF Attends!Next

LEMMA ChangeSeen ==
    ASSUME NEW e \in Experiences, NEW s \in {"draft", "published", "cancelled"},
           NEW n \in 1..MaxCapacity, StatusSeen[e] # "absent",
           StatusSeen' = [StatusSeen EXCEPT ![e] = s], SeatsSeen' = [SeatsSeen EXCEPT ![e] = n],
           UNCHANGED <<SeatedSeen, WaitingSeen>>
    PROVE  Attends!Next
<1>1. Attends!Change(e, s, n)
  BY DEF Attends!Change, StatusSeen, SeatsSeen, SeatedSeen, WaitingSeen
<1> QED
  BY <1>1 DEF Attends!Next

LEMMA DismissSeen ==
    ASSUME NEW e \in Experiences, StatusSeen[e] = "cancelled",
           SeatedSeen' = [SeatedSeen EXCEPT ![e] = {}],
           UNCHANGED <<StatusSeen, SeatsSeen, WaitingSeen>>
    PROVE  Attends!Next
<1>1. Attends!Dismiss(e)
  BY DEF Attends!Dismiss, StatusSeen, SeatsSeen, SeatedSeen, WaitingSeen
<1> QED
  BY <1>1 DEF Attends!Next

\* The experiences are written: one is opened, or changed, or all stay.
LEMMA StoringIsSeen ==
    ASSUME Inv, Inv', NoneFailed', NEW q \in Requests, Sure(q), StoreExperiences(q)
    PROVE  [Attends!Next]_(Attends!vars)
<1> DEFINE e == call[q].experience
           c == call[q]
<1>1. /\ pc[q] = "storing" /\ Doing(q) /\ call[q] \in Calls /\ e \in Experiences
  BY StartedHaveCalls, CallsHaveFields DEF StoreExperiences, Sure, Acting, Inv
<1>2. /\ db'.participants = db.participants
      /\ \A x \in Experiences : db'.experiences[x] =
            IF snap[q].experiences[x] # NoRow THEN snap[q].experiences[x] ELSE db.experiences[x]
  BY StoreExperiencesEffect DEF Inv, NoneFailed
<1>3. SeatedSeen' = SeatedSeen /\ WaitingSeen' = WaitingSeen
  BY <1>2, SamePeopleSeen
<1>4. \A x \in Experiences : /\ db.experiences[x] # NoRow => db.experiences[x] \in Experience
                             /\ db'.experiences[x] # NoRow => db'.experiences[x] \in Experience
  BY StoreParts DEF Inv, TypeOK
<1>5. CASE c.kind \in {"create", "backfill"}
  <2>1. /\ snap[q].experiences[e] = FirstRow(e, c.status) /\ OnlyExperience(q, e)
        /\ db.experiences[e] = NoRow
    BY <1>1, <1>5 DEF Doing, Creating
  <2>2. c.status \in Statuses
    BY <1>1, <1>5, ExperienceConstants DEF CreateCalls, BackfillCalls, SeatCalls, InviteCalls, UpdateCalls
  <2>3. FirstRow(e, c.status) \in Experience
    BY <1>1, <2>2, ExperienceConstants DEF FirstRow, Experience
  <2>4. /\ db'.experiences[e] = FirstRow(e, c.status) /\ db'.experiences[e] # NoRow
        /\ \A x \in Experiences \ {e} : db'.experiences[x] = db.experiences[x]
    BY <1>1, <1>2, <2>1, <2>3, ExperienceConstants DEF OnlyExperience
  <2>5. FirstRow(e, c.status).status = c.status /\ FirstRow(e, c.status).capacity = FirstCapacity[e]
    BY DEF FirstRow
  <2>6. /\ StatusSeen' = [StatusSeen EXCEPT ![e] = c.status]
        /\ SeatsSeen' = [SeatsSeen EXCEPT ![e] = FirstCapacity[e]]
    BY <1>1, <2>4, <2>5, OneExperienceIsSeen
  <2>7. SeatsSeen' = SeatsSeen /\ StatusSeen[e] = "absent"
    BY <1>1, <2>1, <2>6 DEF SeatsSeen, StatusSeen
  <2> HIDE DEF e, c
  <2> QED
    BY <1>1, <1>3, <2>2, <2>6, <2>7, OpenSeen DEF Statuses
<1>6. CASE c.kind \in {"update", "cancel"}
  <2>1. /\ snap[q].experiences[e] # NoRow /\ OnlyExperience(q, e) /\ db.experiences[e] # NoRow
    <3>1. CASE c.kind = "update"
      <4>1. /\ snap[q].experiences[e] = Updated(db.experiences[e], c) /\ OnlyExperience(q, e)
            /\ db.experiences[e] # NoRow
        BY <1>1, <3>1 DEF Doing, Updating
      <4>2. c \in UpdateCalls
        BY <1>1, <3>1, ExperienceConstants DEF CreateCalls, BackfillCalls, SeatCalls, InviteCalls, UpdateCalls
      <4>3. Updated(db.experiences[e], c) \in Experience
        BY <1>1, <1>4, <4>1, <4>2, ExperienceConstants DEF Updated, Experience, UpdateCalls
      <4> QED
        BY <4>1, <4>3, ExperienceConstants
    <3>2. CASE c.kind = "cancel"
      BY <1>1, <3>2 DEF Doing, Cancelling
    <3> QED
      BY <1>6, <3>1, <3>2
  <2>2. /\ db'.experiences[e] # NoRow
        /\ \A x \in Experiences \ {e} : db'.experiences[x] = db.experiences[x]
    BY <1>1, <1>2, <2>1 DEF OnlyExperience
  <2>3. /\ StatusSeen' = [StatusSeen EXCEPT ![e] = db'.experiences[e].status]
        /\ SeatsSeen' = [SeatsSeen EXCEPT ![e] = db'.experiences[e].capacity]
    BY <1>1, <2>2, OneExperienceIsSeen
  <2>4. /\ db'.experiences[e].status \in {"draft", "published", "cancelled"}
        /\ db'.experiences[e].capacity \in 1..MaxCapacity
    BY <1>1, <1>4, <2>2 DEF Experience, Statuses
  <2>5. StatusSeen[e] # "absent"
    BY <1>1, <1>4, <2>1 DEF StatusSeen, Experience, Statuses
  <2> DEFINE s == db'.experiences[e].status
             n == db'.experiences[e].capacity
  <2> HIDE DEF e, c, s, n
  <2> QED
    BY <1>1, <1>3, <2>3, <2>4, <2>5, ChangeSeen DEF s, n
<1>7. CASE c.kind \in {"join", "leave", "invite"}
  <2>1. snap[q].experiences = db.experiences
    BY <1>1, <1>7 DEF Doing, Joining, Leaving, Inviting
  <2>2. db'.experiences = db.experiences
    BY <2>1, StoresTheSame DEF Inv
  <2> QED
    BY <1>3, <2>2, SameExperiencesSeen, WhatIsSeen
<1> QED
  BY <1>1, <1>5, <1>6, <1>7, CallsHaveFields

\* Rows are at least as many as the persons they seat.
LEMMA FreeSeatIsSeen ==
    ASSUME Inv, NEW e \in Experiences, db.experiences[e] # NoRow, ~IsFull(db, e)
    PROVE  Cardinality(SeatedSeen[e]) < SeatsSeen[e]
<1> DEFINE S == {i \in RowsOf(db, e) : OccupiesSeat(db.participants[i])}
           T == WithRoleIn(e, OccupyingRoles)
           f == [i \in S |-> db.participants[i].person]
<1>1. S \subseteq Requests \cup {e}
  <2>1. ASSUME NEW i \in S, i \in Experiences
        PROVE  i = e
    BY <2>1 DEF RowsOf, Inv, Named, RowsNamed, RowIsNamed
  <2> QED
    BY <2>1 DEF RowsOf, Ids
<1>2. IsFiniteSet(S)
  <2>1. IsFiniteSet(Requests \cup {e})
    BY ExperienceConstants, FS_AddElement
  <2> QED
    BY <1>1, <2>1, FS_Subset
<1>3. f \in [S -> T]
  <2>1. ASSUME NEW i \in S
        PROVE  db.participants[i].person \in T
    <3>1. /\ i \in Ids /\ db.participants[i] # NoRow /\ db.participants[i].experience = e
          /\ db.participants[i].role \in OccupyingRoles
      BY DEF RowsOf, OccupiesSeat
    <3>2. db.participants[i].person \in Persons
      BY <3>1, StoreParts DEF Inv, TypeOK, Participation
    <3> QED
      BY <3>1, <3>2, HasRole
  <2> QED
    BY <2>1
<1>4. ASSUME NEW p \in T
      PROVE  \E i \in S : f[i] = p
  BY HasRole DEF RowsOf, OccupiesSeat
<1>5. f \in Surjection(S, T)
  BY <1>3, <1>4 DEF Surjection
<1> HIDE DEF f
<1>6. IsFiniteSet(T) /\ Cardinality(T) <= Cardinality(S)
  BY <1>2, <1>5, FS_Surjection
<1>7. Cardinality(T) \in Nat /\ Cardinality(S) \in Nat
  BY <1>2, <1>6, FS_CardinalityType
<1>8. /\ db.experiences[e].capacity \in Nat /\ ~(Cardinality(S) >= db.experiences[e].capacity)
  BY StoreParts, ExperienceConstants DEF Inv, TypeOK, Experience, IsFull, OccupyingCount
<1>9. SeatedSeen[e] = T /\ SeatsSeen[e] = db.experiences[e].capacity
  BY DEF SeatedSeen, SeatsSeen
<1> HIDE DEF S, T
<1> QED
  BY <1>6, <1>7, <1>8, <1>9

\* A person's row tells what is seen of them.
LEMMA RowTellsRole ==
    ASSUME Inv, NEW e \in Experiences, NEW p \in Persons, NEW i \in OfPerson(db, e, p), NEW roles
    PROVE  p \in WithRoleIn(e, roles) <=> db.participants[i].role \in roles
<1>1. /\ i \in Ids /\ db.participants[i] # NoRow
      /\ db.participants[i].experience = e /\ db.participants[i].person = p
  BY DEF OfPerson, RowsOf
<1>2. ASSUME NEW j \in Ids, db.participants[j] # NoRow, db.participants[j].experience = e,
             db.participants[j].person = p
      PROVE  j = i
  BY <1>1, <1>2 DEF Inv, OneRowEach
<1> QED
  BY <1>1, <1>2, HasRole

\* Who is dismissed is not on the waitlist, and who is not keeps the row.
LEMMA DismissedIsSeen ==
    ASSUME Inv, NEW e \in Experiences,
           \A i \in Ids : db'.participants[i] =
              IF i \in RowsOf(db, e) /\ OccupiesSeat(db.participants[i])
                THEN [db.participants[i] EXCEPT !.role = "cancelled"] ELSE db.participants[i]
    PROVE  /\ SeatedSeen' = [SeatedSeen EXCEPT ![e] = {}]
           /\ WaitingSeen' = WaitingSeen
<1>1. ASSUME NEW i \in Ids, i \in RowsOf(db, e), OccupiesSeat(db.participants[i])
      PROVE  /\ db'.participants[i] # NoRow /\ db'.participants[i].role = "cancelled"
             /\ db'.participants[i].experience = e
             /\ db.participants[i].experience = e
             /\ db.participants[i].role # "waitlist"
  <2>1. db.participants[i] \in Participation /\ NoRow \notin Participation
    BY <1>1, StoreParts, ExperienceConstants DEF Inv, TypeOK, OccupiesSeat
  <2>2. db'.participants[i] = [db.participants[i] EXCEPT !.role = "cancelled"]
    BY <1>1
  <2>3. db'.participants[i] \in Participation
    BY <2>1, <2>2 DEF Participation, Roles
  <2> QED
    BY <1>1, <2>1, <2>2, <2>3 DEF Participation, RowsOf, OccupiesSeat, OccupyingRoles
<1>2. ASSUME NEW i \in Ids, ~(i \in RowsOf(db, e) /\ OccupiesSeat(db.participants[i]))
      PROVE  /\ db'.participants[i] = db.participants[i]
             /\ db.participants[i] # NoRow /\ db.participants[i].experience = e =>
                   db.participants[i].role \notin OccupyingRoles
  BY <1>2 DEF RowsOf, OccupiesSeat
<1>3. "cancelled" \notin OccupyingRoles /\ "cancelled" # "waitlist"
  BY DEF OccupyingRoles
<1>4. ASSUME NEW p, p \in WithRoleIn(e, OccupyingRoles)'
      PROVE  FALSE
  <2>1. PICK i \in Ids : /\ db'.participants[i] # NoRow /\ db'.participants[i].experience = e
                         /\ db'.participants[i].role \in OccupyingRoles
    BY <1>4, HasRole
  <2> QED
    BY <1>1, <1>2, <1>3, <2>1
<1>5. ASSUME NEW x \in Experiences, x # e, NEW p
      PROVE  p \in WithRoleIn(x, OccupyingRoles)' <=> p \in WithRoleIn(x, OccupyingRoles)
  <2>1. ASSUME NEW i \in Ids
        PROVE  (/\ db'.participants[i] # NoRow /\ db'.participants[i].experience = x
                /\ db'.participants[i].person = p /\ db'.participants[i].role \in OccupyingRoles)
               <=> (/\ db.participants[i] # NoRow /\ db.participants[i].experience = x
                    /\ db.participants[i].person = p /\ db.participants[i].role \in OccupyingRoles)
    BY <1>1, <1>2, <1>5
  <2> QED
    BY <2>1, HasRole
<1>6. ASSUME NEW x \in Experiences, NEW p
      PROVE  p \in WithRoleIn(x, {"waitlist"})' <=> p \in WithRoleIn(x, {"waitlist"})
  <2>1. ASSUME NEW i \in Ids
        PROVE  (/\ db'.participants[i] # NoRow /\ db'.participants[i].experience = x
                /\ db'.participants[i].person = p /\ db'.participants[i].role \in {"waitlist"})
               <=> (/\ db.participants[i] # NoRow /\ db.participants[i].experience = x
                    /\ db.participants[i].person = p /\ db.participants[i].role \in {"waitlist"})
    BY <1>1, <1>2, <1>3
  <2> QED
    BY <2>1, HasRole
<1>7. WithRoleIn(e, OccupyingRoles)' = {}
  BY <1>4
<1>8. \A x \in Experiences \ {e} : WithRoleIn(x, OccupyingRoles)' = WithRoleIn(x, OccupyingRoles)
  BY <1>5
<1>9. \A x \in Experiences : WithRoleIn(x, {"waitlist"})' = WithRoleIn(x, {"waitlist"})
  BY <1>6
<1>10. SeatedSeen' = [SeatedSeen EXCEPT ![e] = {}]
  BY <1>7, <1>8 DEF SeatedSeen
<1>11. WaitingSeen' = WaitingSeen
  BY <1>9 DEF WaitingSeen
<1> QED
  BY <1>10, <1>11

LEMMA NobodyIsRemoved ==
    ASSUME NEW e, NEW p
    PROVE  /\ p \notin SeatedSeen[e] => [SeatedSeen EXCEPT ![e] = @ \ {p}] = SeatedSeen
           /\ p \notin WaitingSeen[e] => [WaitingSeen EXCEPT ![e] = @ \ {p}] = WaitingSeen
<1>1. ASSUME NEW S, p \notin S
      PROVE  S \ {p} = S
  BY <1>1
<1>2. p \notin SeatedSeen[e] => [SeatedSeen EXCEPT ![e] = @ \ {p}] = SeatedSeen
  <2>1. [SeatedSeen EXCEPT ![e] = SeatedSeen[e]] = SeatedSeen
    BY DEF SeatedSeen
  <2> QED
    BY <1>1, <2>1
<1>3. p \notin WaitingSeen[e] => [WaitingSeen EXCEPT ![e] = @ \ {p}] = WaitingSeen
  <2>1. [WaitingSeen EXCEPT ![e] = WaitingSeen[e]] = WaitingSeen
    BY DEF WaitingSeen
  <2> QED
    BY <1>1, <2>1
<1> QED
  BY <1>2, <1>3

LEMMA JoiningIsSeen ==
    ASSUME Inv, Inv', NEW q \in Requests, call[q] \in Calls, call[q].kind = "join", Joining(q),
           pc[q] = "enrolling", db'.experiences = db.experiences,
           \A i \in Ids : db'.participants[i] =
              IF snap[q].participants[i] # NoRow THEN snap[q].participants[i]
              ELSE db.participants[i]
    PROVE  Attends!Next
<1> DEFINE e == call[q].experience
           p == call[q].by
<1>1. e \in Experiences /\ p \in Persons /\ Whose(call[q]) = p /\ q \in Ids
  BY CallsHaveFields, WhoseIsBy DEF Ids
<1>2. StatusSeen' = StatusSeen /\ SeatsSeen' = SeatsSeen
  BY SameExperiencesSeen
<1>3. StatusSeen[e] = "published" /\ db.experiences[e] # NoRow
  BY <1>1 DEF StatusSeen, Joining, IsPublished
<1>4. p \notin SeatedSeen[e]
  <2>1. p \notin WithRoleIn(e, OccupyingRoles)
    BY <1>1 DEF WithRoleIn, Joining, Seated, OccupiesSeat, OfPerson, RowsOf
  <2> QED
    BY <1>1, <2>1 DEF SeatedSeen
<1>5. ASSUME NEW n \in Ids, NEW role \in {"participant", "waitlist"}, NEW b \in {q, NoRow},
             Puts(q, n, role, b)
      PROVE  Writes(n, e, p, role, b)
  <2>1. \/ n \in OfPerson(db, e, p)
        \/ db.participants[n] = NoRow /\ OfPerson(db, e, p) = {}
    BY <1>1, <1>5, OwnRow DEF Puts
  <2>2. snap[q].participants[n] = RowOf(e, p, role, b) /\ RowOf(e, p, role, b) \in Participation
    BY <1>1, <1>5 DEF Puts, RowOf, Participation, Roles
  <2>3. db'.participants[n] = RowOf(e, p, role, b) /\ db'.participants[n] # NoRow
    BY <2>2, ExperienceConstants
  <2>4. \A i \in Ids \ {n} : db'.participants[i] = db.participants[i]
    BY <1>5 DEF Puts, OnlyRow
  <2> QED
    BY <2>1, <2>3, <2>4 DEF Writes
<1>6. CASE ~IsFull(db, e) /\ \E n \in Ids : Puts(q, n, "participant", q)
  <2>1. PICK n \in Ids : Writes(n, e, p, "participant", q)
    BY <1>5, <1>6
  <2>2. Cardinality(SeatedSeen[e]) < SeatsSeen[e]
    BY <1>1, <1>3, <1>6, FreeSeatIsSeen
  <2>3. /\ SeatedSeen' = [SeatedSeen EXCEPT ![e] = @ \cup {p}]
        /\ WaitingSeen' = [WaitingSeen EXCEPT ![e] = @ \ {p}]
    BY <1>1, <2>1, OneRowIsSeen DEF OccupyingRoles
  <2> HIDE DEF e, p
  <2> QED
    BY <1>1, <1>2, <1>3, <1>4, <2>2, <2>3, EnrollSeen
<1>7. CASE \E n \in Ids : Puts(q, n, "waitlist", NoRow)
  <2>1. PICK n \in Ids : Writes(n, e, p, "waitlist", NoRow)
    BY <1>5, <1>7
  <2>2. /\ SeatedSeen' = [SeatedSeen EXCEPT ![e] = @ \ {p}]
        /\ WaitingSeen' = [WaitingSeen EXCEPT ![e] = @ \cup {p}]
    BY <1>1, <2>1, OneRowIsSeen DEF OccupyingRoles
  <2>3. SeatedSeen' = SeatedSeen
    BY <1>4, <2>2, NobodyIsRemoved
  <2> HIDE DEF e, p
  <2> QED
    BY <1>1, <1>2, <1>3, <1>4, <2>2, <2>3, QueueSeen
<1> QED
  BY <1>6, <1>7 DEF Joining

LEMMA LeavingIsSeen ==
    ASSUME Inv, Inv', NEW q \in Requests, call[q] \in Calls, call[q].kind = "leave", Leaving(q),
           db'.experiences = db.experiences,
           \A i \in Ids : db'.participants[i] =
              IF snap[q].participants[i] # NoRow THEN snap[q].participants[i]
              ELSE db.participants[i]
    PROVE  [Attends!Next]_(Attends!vars)
<1> DEFINE e == call[q].experience
           p == call[q].by
<1>1. e \in Experiences /\ p \in Persons
  BY CallsHaveFields
<1>2. StatusSeen' = StatusSeen /\ SeatsSeen' = SeatsSeen
  BY SameExperiencesSeen
<1>3. PICK n \in OfPerson(db, e, p) : /\ db.participants[n].role # "creator"
                                      /\ Puts(q, n, "cancelled", db.participants[n].booking)
  BY DEF Leaving
<1> DEFINE b == db.participants[n].booking
<1>4. n \in Ids /\ db.participants[n] # NoRow /\ db.participants[n] \in Participation
  BY <1>3, StoreParts DEF OfPerson, RowsOf, Inv, TypeOK
<1>5. RowOf(e, p, "cancelled", b) \in Participation
  BY <1>1, <1>4 DEF RowOf, Participation, Roles
<1>6. db'.participants[n] = RowOf(e, p, "cancelled", b) /\ db'.participants[n] # NoRow
  BY <1>3, <1>4, <1>5, ExperienceConstants DEF Puts
<1>7. \A i \in Ids \ {n} : db'.participants[i] = db.participants[i]
  BY <1>3 DEF Puts, OnlyRow
<1>8. Writes(n, e, p, "cancelled", b)
  BY <1>3, <1>6, <1>7 DEF Writes
<1>9. /\ SeatedSeen' = [SeatedSeen EXCEPT ![e] = @ \ {p}]
      /\ WaitingSeen' = [WaitingSeen EXCEPT ![e] = @ \ {p}]
  BY <1>1, <1>4, <1>8, OneRowIsSeen DEF OccupyingRoles
<1>10. /\ p \in SeatedSeen[e] <=> db.participants[n].role \in OccupyingRoles
       /\ p \in WaitingSeen[e] <=> db.participants[n].role = "waitlist"
  <2>1. /\ p \in WithRoleIn(e, OccupyingRoles) <=> db.participants[n].role \in OccupyingRoles
        /\ p \in WithRoleIn(e, {"waitlist"}) <=> db.participants[n].role \in {"waitlist"}
    BY <1>1, <1>3, RowTellsRole
  <2> QED
    BY <1>1, <2>1 DEF SeatedSeen, WaitingSeen
<1>11. CASE p \in SeatedSeen[e] \cup WaitingSeen[e]
  <2> HIDE DEF e, p
  <2> QED
    BY <1>1, <1>2, <1>9, <1>11, WithdrawSeen
<1>12. CASE p \notin SeatedSeen[e] \cup WaitingSeen[e]
  <2>1. SeatedSeen' = SeatedSeen
    BY <1>9, <1>12, NobodyIsRemoved
  <2>2. WaitingSeen' = WaitingSeen
    BY <1>9, <1>12, NobodyIsRemoved
  <2> QED
    BY <1>2, <2>1, <2>2, WhatIsSeen
<1> QED
  BY <1>11, <1>12

LEMMA CreatingIsSeen ==
    ASSUME Inv, Inv', NEW q \in Requests, call[q] \in Calls,
           call[q].kind \in {"create", "backfill"}, Creating(q),
           db'.experiences = db.experiences,
           \A i \in Ids : db'.participants[i] =
              IF snap[q].participants[i] # NoRow THEN snap[q].participants[i]
              ELSE db.participants[i]
    PROVE  Attends!Next
<1> DEFINE e == call[q].experience
           p == Owner[e]
<1>1. e \in Experiences /\ p \in Persons /\ q \in Ids
  BY CallsHaveFields, ExperienceConstants DEF Ids
<1>2. StatusSeen' = StatusSeen /\ SeatsSeen' = SeatsSeen
  BY SameExperiencesSeen
<1>3. RowsOf(db, e) = {} /\ OfPerson(db, e, p) = {}
  BY DEF Creating, OfPerson
<1>4. db.participants[q] = NoRow
  BY <1>3, OwnRow
<1>5. RowOf(e, p, "creator", NoRow) = CreatorRow(e)
  BY DEF RowOf, CreatorRow
<1>6. RowOf(e, p, "creator", NoRow) \in Participation
  BY <1>1 DEF RowOf, Participation, Roles
<1>7. db'.participants[q] = RowOf(e, p, "creator", NoRow) /\ db'.participants[q] # NoRow
  BY <1>1, <1>5, <1>6, ExperienceConstants DEF Creating
<1>8. Writes(q, e, p, "creator", NoRow)
  BY <1>3, <1>4, <1>7 DEF Writes, Creating, OnlyRow
<1>9. /\ SeatedSeen' = [SeatedSeen EXCEPT ![e] = @ \cup {p}]
      /\ WaitingSeen' = [WaitingSeen EXCEPT ![e] = @ \ {p}]
  BY <1>1, <1>8, OneRowIsSeen DEF OccupyingRoles
<1>10. SeatedSeen[e] = {} /\ WaitingSeen[e] = {}
  BY <1>1, <1>3 DEF SeatedSeen, WaitingSeen, WithRoleIn, OfPerson
<1>11. SeatedSeen' = [SeatedSeen EXCEPT ![e] = {Owner[e]}]
  BY <1>1, <1>9, <1>10 DEF SeatedSeen
<1>12. WaitingSeen' = WaitingSeen
  BY <1>1, <1>9, <1>10 DEF WaitingSeen
<1>13. StatusSeen[e] # "absent"
  <2>1. db.experiences[e] # NoRow
    BY <1>1, <1>7 DEF Inv, Referring, RowOf
  <2>2. db.experiences[e] \in Experience
    BY <1>1, <2>1, StoreParts DEF Inv, TypeOK
  <2> QED
    BY <1>1, <2>1, <2>2 DEF StatusSeen, Experience, Statuses
<1> HIDE DEF e
<1> QED
  BY <1>1, <1>2, <1>10, <1>11, <1>12, <1>13, TakeHostSeatSeen

\* The participants are written: one row, or who is dismissed, or none.
LEMMA EnrollingIsSeen ==
    ASSUME Inv, Inv', NoneFailed, NEW q \in Requests, Sure(q), StoreParticipants(q)
    PROVE  [Attends!Next]_(Attends!vars)
<1>1. pc[q] = "enrolling" /\ Doing(q) /\ call[q] \in Calls /\ call[q].experience \in Experiences
  BY StartedHaveCalls, CallsHaveFields DEF StoreParticipants, Sure, Acting, Inv
<1>2. CASE db' = db
  BY <1>2, SameExperiencesSeen, SamePeopleSeen, WhatIsSeen
<1>3. CASE db' # db
  <2>1. /\ Admissible(Upsert(db.participants, snap[q].participants))
        /\ db'.experiences = db.experiences
        /\ \A i \in Ids : db'.participants[i] =
              IF snap[q].participants[i] # NoRow THEN snap[q].participants[i]
              ELSE db.participants[i]
    BY <1>3, EnrolledRows
  <2>2. CASE call[q].kind \in {"create", "backfill"}
    BY <1>1, <2>1, <2>2, CreatingIsSeen DEF Doing
  <2>3. CASE call[q].kind = "update"
    <3>1. \A i \in Ids : db'.participants[i] = db.participants[i]
      BY <1>1, <2>1, <2>3 DEF Doing, Updating
    <3>2. db'.participants = db.participants
      BY <3>1, StoreParts DEF Inv, TypeOK
    <3> QED
      BY <2>1, <3>2, SameExperiencesSeen, SamePeopleSeen, WhatIsSeen
  <2>4. CASE call[q].kind = "join"
    BY <1>1, <2>1, <2>4, JoiningIsSeen DEF Doing
  <2>5. CASE call[q].kind = "leave"
    BY <1>1, <2>1, <2>5, LeavingIsSeen DEF Doing
  <2>6. CASE call[q].kind = "cancel"
    <3> DEFINE e == call[q].experience
    <3>1. Cancelling(q)
      BY <1>1, <2>6 DEF Doing
    <3>2. db.experiences[e] # NoRow /\ db.experiences[e].status = "cancelled"
      BY <1>1, <3>1 DEF Cancelling, NoneFailed
    <3>3. \A i \in Ids : db'.participants[i] =
              IF i \in RowsOf(db, e) /\ OccupiesSeat(db.participants[i])
                THEN [db.participants[i] EXCEPT !.role = "cancelled"] ELSE db.participants[i]
      <4>1. SUFFICES ASSUME NEW i \in Ids
                     PROVE  db'.participants[i] =
              IF i \in RowsOf(db, e) /\ OccupiesSeat(db.participants[i])
                THEN [db.participants[i] EXCEPT !.role = "cancelled"] ELSE db.participants[i]
        OBVIOUS
      <4>2. CASE i \in RowsOf(db, e) /\ OccupiesSeat(db.participants[i])
        <5>1. db.participants[i] \in Participation
          BY <4>2, StoreParts DEF Inv, TypeOK, OccupiesSeat
        <5>2. snap[q].participants[i] = [db.participants[i] EXCEPT !.role = "cancelled"]
          BY <3>1, <4>2 DEF Cancelling
        <5>3. snap[q].participants[i] \in Participation
          BY <5>1, <5>2 DEF Participation, Roles
        <5> QED
          BY <2>1, <4>2, <5>2, <5>3, ExperienceConstants
      <4>3. CASE ~(i \in RowsOf(db, e) /\ OccupiesSeat(db.participants[i]))
        BY <2>1, <3>1, <4>3 DEF Cancelling
      <4> QED
        BY <4>2, <4>3
    <3>4. SeatedSeen' = [SeatedSeen EXCEPT ![e] = {}] /\ WaitingSeen' = WaitingSeen
      BY <1>1, <3>3, DismissedIsSeen
    <3>5. StatusSeen[e] = "cancelled"
      BY <1>1, <3>2 DEF StatusSeen
    <3>6. StatusSeen' = StatusSeen /\ SeatsSeen' = SeatsSeen
      BY <2>1, SameExperiencesSeen
    <3> HIDE DEF e
    <3> QED
      BY <1>1, <3>4, <3>5, <3>6, DismissSeen DEF e
  <2>7. CASE call[q].kind = "invite"
    BY <1>1, <2>1, <2>7, InvitationsAreRefused DEF Doing
  <2> QED
    BY <1>1, <2>2, <2>3, <2>4, <2>5, <2>6, <2>7, CallsHaveFields
<1> QED
  BY <1>2, <1>3

LEMMA AttendanceStep ==
    ASSUME Inv, Inv', SeqInv, NoneFailed, NoneFailed', apart', [Next]_<<vars, apart>>
    PROVE  [Attends!Next]_(Attends!vars)
<1>1. CASE Next
  <2>1. PICK q \in Requests : Acts(q)
    BY <1>1, SomebodyActs DEF Next
  <2>2. Advanced(q)
    BY <2>1, ActsKeepInv
  <2>3. Sure(q)
    BY <1>1, <2>1, <2>2, ActsAlone DEF Advanced, Inv
  <2>4. CASE StoreExperiences(q)
    BY <2>3, <2>4, StoringIsSeen
  <2>5. CASE StoreParticipants(q)
    BY <2>3, <2>5, EnrollingIsSeen
  <2>6. CASE ~StoreExperiences(q) /\ ~StoreParticipants(q)
    <3>1. db'.experiences = db.experiences /\ db'.participants = db.participants
      BY <2>1, <2>6, OneTableEach
    <3> QED
      BY <3>1, SameExperiencesSeen, SamePeopleSeen, WhatIsSeen
  <2> QED
    BY <2>4, <2>5, <2>6
<1>2. CASE UNCHANGED <<vars, apart>>
  <2>1. db' = db
    BY <1>2 DEF vars
  <2> QED
    BY <2>1, SameExperiencesSeen, SamePeopleSeen, WhatIsSeen
<1> QED
  BY <1>1, <1>2

LEMMA AttendanceAtStart == Init => Attends!Init
<1> SUFFICES ASSUME Init PROVE Attends!Init
  OBVIOUS
<1>1. /\ \A e \in Experiences : db.experiences[e] = IF e \in Stored THEN FirstRow(e, "published") ELSE NoRow
      /\ \A i \in Ids : db.participants[i] = IF i \in Stored THEN CreatorRow(i) ELSE NoRow
  BY DEF Init, NoStore
<1>2. /\ Inv /\ NoRow \notin Experience /\ NoRow \notin Participation /\ Stored \subseteq Experiences
      /\ Owner \in [Experiences -> Persons] /\ FirstCapacity \in [Experiences -> 1..MaxCapacity]
  BY InvAtStart, ExperienceConstants
<1>3. ASSUME NEW e \in Experiences
      PROVE  /\ db.experiences[e] # NoRow <=> e \in Stored
             /\ StatusSeen[e] = IF e \in Stored THEN "published" ELSE "absent"
             /\ SeatsSeen[e] = FirstCapacity[e]
  <2>1. CASE e \in Stored
    <3>1. db.experiences[e] = FirstRow(e, "published") /\ FirstRow(e, "published") \in Experience
      BY <1>1, <1>2, <2>1, ExperienceConstants DEF FirstRow, Experience, Statuses
    <3>2. /\ FirstRow(e, "published").status = "published"
          /\ FirstRow(e, "published").capacity = FirstCapacity[e]
      BY DEF FirstRow
    <3> QED
      BY <1>2, <2>1, <3>1, <3>2 DEF StatusSeen, SeatsSeen
  <2>2. CASE e \notin Stored
    BY <1>1, <2>2 DEF StatusSeen, SeatsSeen
  <2> QED
    BY <2>1, <2>2
<1>4. ASSUME NEW i \in Ids, db.participants[i] # NoRow
      PROVE  /\ i \in Stored /\ db.participants[i].experience = i
             /\ db.participants[i].person = Owner[i] /\ db.participants[i].role = "creator"
  <2>1. i \in Stored /\ db.participants[i] = CreatorRow(i)
    BY <1>1, <1>4
  <2>2. /\ CreatorRow(i).experience = i /\ CreatorRow(i).person = Owner[i]
        /\ CreatorRow(i).role = "creator"
    BY DEF CreatorRow
  <2> QED
    BY <2>1, <2>2
<1>5. ASSUME NEW e \in Stored
      PROVE  /\ e \in Ids /\ db.participants[e] # NoRow /\ db.participants[e].experience = e
             /\ db.participants[e].person = Owner[e] /\ db.participants[e].role = "creator"
  <2>1. e \in Ids /\ e \in Experiences
    BY <1>2 DEF Ids
  <2>2. db.participants[e] = CreatorRow(e) /\ CreatorRow(e) \in Participation
    BY <1>1, <1>2, <2>1 DEF CreatorRow, Participation, Roles
  <2> QED
    BY <1>2, <2>1, <2>2 DEF CreatorRow
<1>6. ASSUME NEW e \in Experiences, NEW roles
      PROVE  WithRoleIn(e, roles) = IF e \in Stored /\ "creator" \in roles THEN {Owner[e]} ELSE {}
  <2>1. ASSUME NEW p, p \in WithRoleIn(e, roles)
        PROVE  e \in Stored /\ "creator" \in roles /\ p = Owner[e]
    BY <1>4, <2>1, HasRole
  <2>2. ASSUME e \in Stored, "creator" \in roles
        PROVE  Owner[e] \in WithRoleIn(e, roles)
    BY <1>2, <1>5, <2>2, HasRole
  <2> QED
    BY <2>1, <2>2
<1>7. /\ StatusSeen \in [Experiences -> {"absent", "published"}]
      /\ SeatsSeen \in [Experiences -> 1..MaxCapacity]
  <2>1. /\ StatusSeen = [e \in Experiences |-> StatusSeen[e]]
        /\ SeatsSeen = [e \in Experiences |-> SeatsSeen[e]]
    BY DEF StatusSeen, SeatsSeen
  <2> QED
    BY <1>2, <1>3, <2>1
<1>8. SeatedSeen = [e \in Experiences |-> IF StatusSeen[e] = "absent" THEN {} ELSE {Owner[e]}]
  <2>1. \A e \in Experiences : WithRoleIn(e, OccupyingRoles) = IF StatusSeen[e] = "absent" THEN {}
                                                               ELSE {Owner[e]}
    BY <1>3, <1>6 DEF OccupyingRoles
  <2> QED
    BY <2>1 DEF SeatedSeen
<1>9. WaitingSeen = [e \in Experiences |-> {}]
  <2>1. \A e \in Experiences : WithRoleIn(e, {"waitlist"}) = {}
    BY <1>6
  <2> QED
    BY <2>1 DEF WaitingSeen
<1> QED
  BY <1>7, <1>8, <1>9 DEF Attends!Init, StatusSeen, SeatsSeen, SeatedSeen, WaitingSeen

\* One request at a time, and as long as what is read and written is read and
\* written, the tables of experiences and participants behave as Attendance
\* promises, although no transaction spans them and processes may die anywhere.
THEOREM AttendanceIsKept == ASSUME StatementsWork PROVE Spec => SerialAttendance
<1>1. OneAtATime /\ "write" \notin Faults
  BY DEF StatementsWork
<1>2. Spec => []apart
  BY <1>1, OneAtATimeIsApart
<1>3. Spec => []NoneFailed
  BY <1>1, NoneFails
<1>4. Init => Attends!Init
  BY AttendanceAtStart
<1>5. /\ Inv /\ Inv' /\ SeqInv /\ NoneFailed /\ NoneFailed' /\ apart' /\ [Next]_<<vars, apart>>
      => [Attends!Next]_(Attends!vars)
  BY AttendanceStep
<1>6. Spec => Attends!Spec
  BY <1>2, <1>3, <1>4, <1>5, ExperiencesInvariant, RequestsDecideOnTheTables, PTL
     DEF Spec, Attends!Spec
<1> QED
  BY <1>6 DEF SerialAttendance

=============================================================================
