------------------------------- MODULE Places -------------------------------
(***************************************************************************)
(* Businesses and homes, and the places on the map that stand for them.    *)
(* A business and its location are rows of two tables, written one after   *)
(* the other; so are a home, its residents and its location, and these     *)
(* upsert every home of the tenant from the snapshot they have read.       *)
(*                                                                         *)
(* Requests come without an access token: under one, row-level security    *)
(* refuses every review by the staff and every request for a home.  Names, *)
(* addresses and territories are left out, as is the audit entry of a      *)
(* review, which is best effort.  A home is offered when it is active and  *)
(* for rent or sale.                                                       *)
(***************************************************************************)
EXTENDS Naturals, FiniteSets, Stores

CONSTANTS Requests,        \* HTTP calls; also the ids of the rows they create
          Seeded,          \* ids of rows stored before the first request
          People,
          Staff,           \* moderators and administrators of the tenant
          FirstStores,     \* the stores the first request may find
          Calls,           \* what a client may ask for
          MaxInFlight,     \* bound: requests between their start and answer
          Faults,          \* the failures considered: "read", "write", "crash"
          NoCall, NoPerson, NoRow, Unread

Ids == Requests \cup Seeded
Statuses == {"draft", "pending_review", "published", "suspended", "archived"}
Visibilities == {"public", "members", "private"}
Offers == {"offered", "withheld"}

Location == [owner : People \cup {NoPerson}, business : Ids \cup {NoRow},
             visibility : Visibilities]
BusinessProfile == [owner : People, place : Ids, status : Statuses]
Property == [by : People, place : Ids, offer : Offers]
PropertyMembership == [home : Ids, person : People, owns : BOOLEAN]

Tables == {"locations", "businesses", "properties", "residents"}

WellFormed(s) ==
    /\ DOMAIN s = Tables
    /\ s.locations \in [DOMAIN s.locations -> Location]
    /\ s.businesses \in [DOMAIN s.businesses -> BusinessProfile]
    /\ s.properties \in [DOMAIN s.properties -> Property]
    /\ s.residents \in [DOMAIN s.residents -> PropertyMembership]

Placed(row) == row.place
Housed(row) == row.home

Registering == {"register", "home", "create"}
OfBusiness == {"edit", "submit", "review"}
OfHome == {"editHome", "addResident"}
OfPlace == {"editPlace", "removePlace"}

ASSUME CallsAssumption ==
    \A c \in Calls :
        /\ c.op \in Registering \cup OfBusiness \cup OfHome \cup OfPlace
        /\ c.who \in People
        /\ c.op \notin Registering => c.row \in Ids
        /\ c.op = "review" => c.status \in Statuses
        /\ c.op = "home" => c.offer \in Offers
        /\ c.op = "editHome" => c.offer \in Offers \cup {"kept"}
        /\ c.op = "addResident" => c.person \in People /\ c.owns \in BOOLEAN
        /\ c.op = "create" => c.visibility \in Visibilities
        /\ c.op = "editPlace" => /\ c.visibility \in Visibilities \cup {"kept"}
                                 /\ c.business \in Ids \cup {NoRow, "kept"}

ASSUME IdsAssumption == Requests \cap Seeded = {} /\ NoPerson \notin People

\* The place of a home is nobody's, or the one's who registered the home.
ASSUME SeedAssumption ==
    \A s \in FirstStores :
        /\ WellFormed(s)
        /\ \A t \in Tables : DOMAIN s[t] \subseteq Seeded
        /\ \A h \in DOMAIN s.properties : s.properties[h].place \in Seeded
        /\ Refer(s.businesses, Placed, s.locations) /\ Unique(s.businesses, Placed)
        /\ Refer(s.residents, Housed, s.properties)
        /\ \A h \in DOMAIN s.properties :
              LET l == s.properties[h].place
              IN l \in DOMAIN s.locations =>
                    s.locations[l].owner \in {NoPerson, s.properties[h].by}

VARIABLES db,       \* the tables
          pc, call,
          profile,  \* the business a request has read, as it will write it
          place,    \* likewise its location
          homes,    \* likewise all properties and residents
          failed,   \* the upsert of the properties failed
          calm      \* every request so far had the tables to itself and none
                    \* failed, or edited a place directly

held == <<profile, place, homes, failed>>
vars == <<db, pc, call, held, calm>>

NoHomes == [properties |-> Unread, residents |-> Unread]

Init == /\ db \in FirstStores
        /\ pc = [q \in Requests |-> "idle"]
        /\ call = [q \in Requests |-> NoCall]
        /\ profile = [q \in Requests |-> NoRow]
        /\ place = [q \in Requests |-> NoRow]
        /\ homes = [q \in Requests |-> NoHomes]
        /\ failed = [q \in Requests |-> FALSE]
        /\ calm = TRUE

Reading == {"check", "load", "fetch"}
Writing == {"draw", "link", "business", "properties", "residents", "place", "remove"}
InFlight == {q \in Requests : pc[q] \in Reading \cup Writing}

Go(q, step) == pc' = [pc EXCEPT ![q] = step] /\ UNCHANGED call

End(q, answer) == /\ Go(q, answer)
                  /\ profile' = [profile EXCEPT ![q] = NoRow]
                  /\ place' = [place EXCEPT ![q] = NoRow]
                  /\ homes' = [homes EXCEPT ![q] = NoHomes]
                  /\ failed' = [failed EXCEPT ![q] = FALSE]

Start(q, c) ==
    /\ pc[q] = "idle" /\ Cardinality(InFlight) < MaxInFlight
    /\ pc' = [pc EXCEPT ![q] = IF c.op \in Registering THEN "draw" ELSE "check"]
    /\ call' = [call EXCEPT ![q] = c]
    /\ calm' = (calm /\ InFlight = {} /\ c.op \notin OfPlace)
    /\ UNCHANGED <<db, held>>

-----------------------------------------------------------------------------
(* SELECTs.                                                                *)

ReviewOwn(c, b) ==                                            \* mutant
    CASE c.op = "edit" -> c.who \in Staff \/ c.who = b.owner
      [] c.op = "submit" -> c.who \notin Staff /\ c.who = b.owner /\ b.status = "draft"
      [] c.op = "review" -> c.who \in Staff \/ c.who = b.owner

MayTouchBusiness(c, b) ==
    CASE c.op = "edit" -> c.who \in Staff \/ c.who = b.owner
      [] c.op = "submit" -> c.who \notin Staff /\ c.who = b.owner /\ b.status = "draft"
      [] c.op = "review" -> c.who \in Staff

NextStatus(c, status) ==
    CASE c.op = "edit" -> status
      [] c.op = "submit" -> "pending_review"
      [] c.op = "review" -> c.status

\* The route reads the business and decides; the repository reads it again and
\* changes what it finds then.
ReadBusiness(q) ==
    LET c == call[q]
    IN /\ pc[q] \in {"check", "load"} /\ c.op \in OfBusiness
       /\ \/ /\ pc[q] = "check"
             /\ IF c.row \in DOMAIN db.businesses /\ MayTouchBusiness(c, db.businesses[c.row])
                THEN Go(q, "load") /\ UNCHANGED held
                ELSE End(q, "rejected")
          \/ /\ pc[q] = "load" /\ Go(q, "business")
             /\ profile' = [profile EXCEPT ![q] =
                   [db.businesses[c.row] EXCEPT !.status = NextStatus(c, @)]]
             /\ UNCHANGED <<place, homes, failed>>

ReadsHomes(q) == \/ pc[q] = "check" /\ call[q].op \in OfHome
                 \/ pc[q] = "load" /\ call[q].op \in OfHome \cup {"home"}

\* One of the two SELECTs of loadStore.
ReadHomes(q, t) ==
    /\ ReadsHomes(q) /\ homes[q][t] = Unread
    /\ homes' = [homes EXCEPT ![q][t] = db[t]]
    /\ UNCHANGED <<pc, call, profile, place, failed>>

Lives(p, h, owns) == [home |-> h, person |-> p, owns |-> owns]

MayEditHome(c, s) ==
    /\ c.row \in DOMAIN s.properties
    /\ \/ c.who \in Staff \/ s.properties[c.row].by = c.who
       \/ \E i \in DOMAIN s.residents : s.residents[i] = Lives(c.who, c.row, TRUE)

Register(q, s) ==
    [properties |-> With(s.properties,
                         Row(q, [by |-> call[q].who, place |-> q, offer |-> call[q].offer])),
     residents |-> With(s.residents, Row(q, Lives(call[q].who, q, TRUE)))]

Edit(c, s) ==
    IF c.offer = "kept" THEN s ELSE [s EXCEPT !.properties[c.row].offer = c.offer]

SettleHomes(q) ==
    LET c == call[q]
        s == homes[q]
        Hold(store) == /\ Go(q, "properties") /\ homes' = [homes EXCEPT ![q] = store]
                       /\ UNCHANGED <<profile, place, failed>>
    IN /\ ReadsHomes(q) /\ s.properties # Unread /\ s.residents # Unread
       /\ IF pc[q] = "check"
          THEN IF MayEditHome(c, s)
               THEN /\ Go(q, "load") /\ homes' = [homes EXCEPT ![q] = NoHomes]
                    /\ UNCHANGED <<profile, place, failed>>
               ELSE End(q, "rejected")
          ELSE CASE c.op = "home" -> Hold(Register(q, s))
                 [] c.op = "editHome" -> Hold(Edit(c, s))
                 [] c.op = "addResident" ->
                      IF \E owns \in BOOLEAN, i \in DOMAIN s.residents :
                            s.residents[i] = Lives(c.person, c.row, owns)
                      THEN End(q, "ok")
                      ELSE Hold([s EXCEPT !.residents =
                                   With(@, Row(q, Lives(c.person, c.row, c.owns)))])

\* locationVisibilityForStatus
Published(status) == IF status = "published" THEN "public" ELSE "private"

\* locationVisibilityFor
Offered(offer) == IF offer = "offered" THEN "members" ELSE "private"

\* The location a request writes last.
PlaceOf(q) == CASE call[q].op \in Registering -> q
                [] call[q].op \in OfBusiness -> profile[q].place
                [] call[q].op \in OfHome -> homes[q].properties[call[q].row].place
                [] call[q].op \in OfPlace -> call[q].row

KeepPlace(q, row) == row                                     \* mutant

\* syncLocationPresence, and its like in updatePropertyServer
Synced(q, row) ==
    IF call[q].op \in OfBusiness
    THEN [owner |-> IF row.owner = NoPerson THEN profile[q].owner ELSE row.owner,
          business |-> call[q].row,
          visibility |-> Published(profile[q].status)]
    ELSE LET flat == homes[q].properties[call[q].row]
         IN [row EXCEPT !.owner = flat.by, !.visibility = Offered(flat.offer)]

\* Without a location there is nothing left to do.
FetchPlace(q) ==
    /\ pc[q] = "fetch"
    /\ IF PlaceOf(q) \in DOMAIN db.locations
       THEN /\ Go(q, "place")
            /\ place' = [place EXCEPT ![q] = Synced(q, db.locations[PlaceOf(q)])]
            /\ UNCHANGED <<profile, homes, failed>>
       ELSE End(q, "ok")

\* The body is spread over the location: what it names is replaced, whatever
\* stands there.
Patched(l, c) ==
    [l EXCEPT !.visibility = IF c.visibility = "kept" THEN @ ELSE c.visibility,
              !.business = IF c.business = "kept" THEN @ ELSE c.business]

\* canMutateLocation, canDeleteLocation.  A place's creator is its owner.
ReadPlace(q) ==
    LET c == call[q]
    IN /\ pc[q] = "check" /\ c.op \in OfPlace
       /\ IF c.row \in DOMAIN db.locations /\ (c.who \in Staff \/ db.locations[c.row].owner = c.who)
          THEN /\ Go(q, IF c.op = "editPlace" THEN "place" ELSE "remove")
               /\ place' = [place EXCEPT ![q] =
                     IF c.op = "editPlace" THEN Patched(db.locations[c.row], c)
                     ELSE db.locations[c.row]]
               /\ UNCHANGED <<profile, homes, failed>>
          ELSE End(q, "rejected")

Select(q) == /\ UNCHANGED <<db, calm>>
             /\ \/ ReadBusiness(q) \/ SettleHomes(q) \/ FetchPlace(q) \/ ReadPlace(q)
                \/ \E t \in {"properties", "residents"} : ReadHomes(q, t)

\* A failed SELECT fails the request; residents that were not read are not there.
FailSelect(q) ==
    /\ "read" \in Faults /\ pc[q] \in Reading
    /\ \/ ~ReadsHomes(q) /\ End(q, "error")
       \/ ReadsHomes(q) /\ homes[q].properties = Unread /\ End(q, "error")
       \/ /\ ReadsHomes(q) /\ homes[q].residents = Unread
          /\ homes' = [homes EXCEPT ![q].residents = <<>>]
          /\ UNCHANGED <<pc, call, profile, place, failed>>
    /\ calm' = FALSE /\ UNCHANGED db

-----------------------------------------------------------------------------
(* Writes.                                                                 *)

\* The business a request writes.
BusinessOf(q) == IF call[q].op = "register" THEN q ELSE call[q].row

\* saveLocationServer: an unowned place becomes the writer's.
Owned(q, row) == IF row.owner = NoPerson THEN [row EXCEPT !.owner = call[q].who] ELSE row

New(q, business, visibility) ==
    [owner |-> call[q].who, business |-> business, visibility |-> visibility]

ReplaceAll(t, rows) == db' = [db EXCEPT ![t] = rows]          \* mutant

Upsert(t, rows) == db' = [db EXCEPT ![t] = With(@, rows)]

Takes(q) ==
    CASE pc[q] = "draw" ->
            Upsert("locations", Row(q, New(q, NoRow,
                IF call[q].op = "create" THEN call[q].visibility ELSE "private")))
      [] pc[q] = "link" -> Upsert("locations", Row(q, New(q, q, "private")))
      [] pc[q] = "place" -> Upsert("locations", Row(PlaceOf(q), Owned(q, place[q])))
      [] pc[q] = "remove" ->
            db' = [db EXCEPT !.locations = [i \in (DOMAIN @) \ {call[q].row} |-> @[i]]]
      [] pc[q] = "business" -> Upsert("businesses", Row(BusinessOf(q), profile[q]))
      [] pc[q] \in {"properties", "residents"} -> Upsert(pc[q], homes[q][pc[q]])

AcceptsUnplaced(q) ==                                         \* mutant
    pc[q] = "remove" => \A b \in DOMAIN db.businesses : db.businesses[b].place # call[q].row

\* The foreign keys: of a business to its location, which it has alone and which
\* cannot be deleted then, and of a resident to the home.  A home has none to
\* its location.
Accepts(q) ==
    CASE pc[q] = "business" ->
            /\ profile[q].place \in DOMAIN db.locations
            /\ Unique(With(db.businesses, Row(BusinessOf(q), profile[q])), Placed)
      [] pc[q] = "residents" -> Refer(homes[q].residents, Housed, db.properties)
      [] pc[q] = "remove" -> \A b \in DOMAIN db.businesses : db.businesses[b].place # call[q].row
      [] OTHER -> TRUE

\* What follows the statement.
After(q) ==
    LET c == call[q]
        Then(step) == Go(q, step) /\ UNCHANGED held
    IN CASE pc[q] = "draw" /\ c.op = "register" -> Then("link")
         [] pc[q] = "draw" /\ c.op = "home" -> Then("load")
         [] pc[q] = "link" ->
              /\ Go(q, "business")
              /\ profile' = [profile EXCEPT ![q] = [owner |-> c.who, place |-> q, status |-> "draft"]]
              /\ UNCHANGED <<place, homes, failed>>
         [] pc[q] = "business" /\ c.op # "register" -> Then("fetch")
         [] pc[q] = "properties" -> Then("residents")
         [] pc[q] = "residents" /\ failed[q] -> End(q, "error")
         [] pc[q] = "residents" /\ ~failed[q] /\ c.op = "editHome" -> Then("fetch")
         [] pc[q] = "residents" /\ ~failed[q] /\ c.op = "home" ->
              /\ Go(q, "place")
              /\ place' = [place EXCEPT ![q] = New(q, NoRow, Offered(c.offer))]
              /\ UNCHANGED <<profile, homes, failed>>
         [] OTHER -> End(q, "ok")

Commit(q) == /\ pc[q] \in Writing /\ Accepts(q) /\ Takes(q) /\ After(q)
             /\ UNCHANGED calm

\* The residents are written even when the homes could not be.
Fails(q) == IF pc[q] = "properties"
            THEN /\ Go(q, "residents") /\ failed' = [failed EXCEPT ![q] = TRUE]
                 /\ UNCHANGED <<profile, place, homes>>
            ELSE End(q, "error")

Refuse(q) == /\ pc[q] \in Writing /\ ~Accepts(q) /\ Fails(q)
             /\ calm' = FALSE /\ UNCHANGED db

\* The statement, or its answer, is lost.  Empty tables are not upserted.
FailWrite(q) ==
    /\ "write" \in Faults /\ pc[q] \in Writing
    /\ pc[q] = "residents" => homes[q].residents # <<>>
    /\ \/ Accepts(q) /\ Takes(q)
       \/ UNCHANGED db
    /\ Fails(q) /\ calm' = FALSE

Crash(q) == /\ "crash" \in Faults /\ q \in InFlight
            /\ End(q, "lost") /\ calm' = FALSE /\ UNCHANGED db

Next == \E q \in Requests :
           \/ \E c \in Calls : Start(q, c)
           \/ Select(q) \/ FailSelect(q)
           \/ Commit(q) \/ Refuse(q) \/ FailWrite(q)
           \/ Crash(q)

Spec == Init /\ [][Next]_vars

-----------------------------------------------------------------------------
(* Properties.                                                             *)

\* The tables hold what their columns allow.  Every business has a location,
\* though staff may delete a location while its business is being registered,
\* and every resident a home, though the home's own upsert may have failed.
TypeOK ==
    /\ WellFormed(db)
    /\ Refer(db.businesses, Placed, db.locations)
    /\ Refer(db.residents, Housed, db.properties)
    /\ pc \in [Requests -> Reading \cup Writing
                            \cup {"idle", "ok", "rejected", "error", "lost"}]
    /\ profile \in [Requests -> BusinessProfile \cup {NoRow}]
    /\ place \in [Requests -> Location \cup {NoRow}]

\* Places of which it cannot be said at first whose they are.
Unowned == {l \in Seeded : \E s \in FirstStores : /\ l \in DOMAIN s.locations
                                                /\ s.locations[l].owner = NoPerson}

\* Every home of the tenant is written back by each change of one: no snapshot,
\* however old or incomplete, takes a home or a resident away, or moves a
\* business, a home or a place from its owner to somebody else.  A place that
\* nobody owned goes to whoever writes it, and then to the next who had read it
\* as nobody's.
OwnersArePermanent ==
    [][/\ \A t \in {"businesses", "properties", "residents"} : DOMAIN db[t] \subseteq DOMAIN db'[t]
       /\ \A b \in DOMAIN db.businesses : db'.businesses[b].owner = db.businesses[b].owner
       /\ \A h \in DOMAIN db.properties : db'.properties[h].by = db.properties[h].by
       /\ \A r \in DOMAIN db.residents : db'.residents[r] = db.residents[r]
       /\ \A l \in (DOMAIN db.locations \cap DOMAIN db'.locations) \ Unowned :
             db'.locations[l].owner = db.locations[l].owner]_db

StatusOf(b, tables) == IF b \in DOMAIN tables.businesses THEN tables.businesses[b].status ELSE "draft"

\* A business is published by a review of the staff, or by a request that had
\* read it as published before the staff suspended it: an edit by its owner
\* undoes the suspension then, and nothing else does.
PublishedByReview ==
    [][\A b \in DOMAIN db'.businesses :
          StatusOf(b, db) # "published" /\ StatusOf(b, db') = "published" =>
             \E q \in Requests :
                /\ pc[q] = "business" /\ call[q].op \in OfBusiness /\ call[q].row = b
                /\ \/ call[q].op = "review" /\ call[q].who \in Staff
                   \/ call[q].op = "edit" /\ profile[q].status = "published"]_db

\* The map in step with the businesses and the homes.
InStep(s) ==
    /\ \A b \in DOMAIN s.businesses :
          LET row == s.businesses[b]
          IN /\ s.locations[row.place].visibility = Published(row.status)
             /\ s.locations[row.place].business = b
    /\ Refer(s.properties, Placed, s.locations)
    /\ \A h \in DOMAIN s.properties :
          s.locations[s.properties[h].place].visibility = Offered(s.properties[h].offer)

\* No two of them share a place.
Apart(s) ==
    /\ Unique(s.properties, Placed)
    /\ \A b \in DOMAIN s.businesses, h \in DOMAIN s.properties :
          s.businesses[b].place # s.properties[h].place

StartsInStep == \A s \in FirstStores : InStep(s) /\ Apart(s)

\* Requests one after the other, none failing, keep the map in step with the
\* businesses and the homes: a suspended business or a home off the market is
\* private, a published one public.
CalmPlacesAgree == calm /\ InFlight = {} => InStep(db)
=============================================================================
