---------------------------- MODULE PlacesProofs ----------------------------
(***************************************************************************)
(* Who owns the businesses, the homes and their places, and how they come  *)
(* to be shown on the map, for any number of requests.                     *)
(*                                                                         *)
(* Every row is determined by the first store or by the call of the        *)
(* request it is named after, but for statuses, offers and visibility.     *)
(* The invariant says so of the tables and of everything read from them,   *)
(* for the store f that was found first.  While requests come one after    *)
(* the other, what is read is current as well, and one request at most has *)
(* something to put right on the map.                                      *)
(***************************************************************************)
EXTENDS Places, TLAPS

USE CallsAssumption, IdsAssumption

Ended == {"ok", "rejected", "error", "lost"}

\* The steps a request may be at.
OnRoad(op, step) ==
    \/ step \in Ended
    \/ op = "register" /\ step \in {"draw", "link", "business"}
    \/ op = "create" /\ step = "draw"
    \/ op = "home" /\ step \in {"draw", "load", "properties", "residents", "place"}
    \/ op \in OfBusiness /\ step \in {"check", "load", "business", "fetch", "place"}
    \/ op \in OfHome /\ step \in {"check", "load", "properties", "residents"}
    \/ op = "editHome" /\ step \in {"fetch", "place"}
    \/ op = "editPlace" /\ step \in {"check", "place"}
    \/ op = "removePlace" /\ step \in {"check", "remove"}

\* What a row has to be; at and ask stand for pc and call.
PlaceAs(f, at, ask, l, row) ==
    /\ row \in Location
    /\ \/ /\ l \in Seeded /\ l \in DOMAIN f.locations
          /\ f.locations[l].owner # NoPerson => row.owner = f.locations[l].owner
       \/ /\ l \in Requests /\ at[l] # "idle" /\ ask[l].op \in Registering
          /\ row.owner = ask[l].who

BusinessAs(f, at, ask, b, row) ==
    /\ row \in BusinessProfile
    /\ \/ /\ b \in Seeded /\ b \in DOMAIN f.businesses
          /\ row.owner = f.businesses[b].owner /\ row.place = f.businesses[b].place
       \/ /\ b \in Requests /\ at[b] \in Ended /\ ask[b].op = "register"
          /\ row.owner = ask[b].who /\ row.place = b

HomeAs(f, at, ask, h, row) ==
    /\ row \in Property
    /\ \/ /\ h \in Seeded /\ h \in DOMAIN f.properties
          /\ row.by = f.properties[h].by /\ row.place = f.properties[h].place
       \/ /\ h \in Requests /\ at[h] \in Ended \cup {"residents", "place"}
          /\ ask[h].op = "home" /\ row.by = ask[h].who /\ row.place = h

ResidentAs(f, at, ask, i, row) ==
    /\ row \in PropertyMembership
    /\ \/ i \in Seeded /\ i \in DOMAIN f.residents /\ row = f.residents[i]
       \/ /\ i \in Requests /\ at[i] # "idle"
          /\ \/ ask[i].op = "home" /\ row = Lives(ask[i].who, i, TRUE)
             \/ ask[i].op = "addResident" /\ row = Lives(ask[i].person, ask[i].row, ask[i].owns)

\* A home that its request has not written yet.
NewHome(ask, q, h, row) ==
    /\ h = q /\ ask[q].op = "home" /\ row \in Property
    /\ row.by = ask[q].who /\ row.place = q

IsTable(t) == t = [i \in DOMAIN t |-> t[i]]

Typed ==
    /\ pc \in [Requests -> Reading \cup Writing \cup Ended \cup {"idle"}]
    /\ call \in [Requests -> Calls \cup {NoCall}]
    /\ profile \in [Requests -> BusinessProfile \cup {NoRow}]
    /\ place \in [Requests -> Location \cup {NoRow}]
    /\ DOMAIN homes = Requests
    /\ \A q \in Requests : DOMAIN homes[q] = {"properties", "residents"}
    /\ failed \in [Requests -> BOOLEAN]
    /\ calm \in BOOLEAN

Faithful(f) ==
    /\ DOMAIN db = Tables /\ \A t \in Tables : IsTable(db[t])
    /\ \A l \in DOMAIN db.locations : PlaceAs(f, pc, call, l, db.locations[l])
    /\ \A b \in DOMAIN db.businesses : BusinessAs(f, pc, call, b, db.businesses[b])
    /\ \A h \in DOMAIN db.properties : HomeAs(f, pc, call, h, db.properties[h])
    /\ \A i \in DOMAIN db.residents : ResidentAs(f, pc, call, i, db.residents[i])
    /\ Refer(db.businesses, Placed, db.locations)
    /\ Refer(db.residents, Housed, db.properties)

\* What a request knows of a business, of the homes and of a place.
Busy(q) == pc[q] \in {"load", "business", "fetch", "place"} /\ call[q].op \in OfBusiness

KnowsBusiness(f, q) ==
    /\ Busy(q) =>
          /\ call[q].row \in DOMAIN db.businesses
          /\ call[q].op = "review" => call[q].who \in Staff
          /\ pc[q] # "load" => BusinessAs(f, pc, call, call[q].row, profile[q])
          /\ pc[q] # "load" /\ call[q].op = "submit" => profile[q].status = "pending_review"
    /\ pc[q] = "business" /\ call[q].op = "register" =>
          profile[q] = [owner |-> call[q].who, place |-> q, status |-> "draft"]

\* It holds both tables once it writes them, and row by row before.
HoldsHomes(q) == /\ pc[q] \in {"properties", "residents", "fetch", "place"}
                 /\ call[q].op \in OfHome \cup {"home"}

KnowsHomes(f, q) ==
    /\ call[q].op \in OfHome /\ (HoldsHomes(q) \/ pc[q] = "load") =>
          call[q].row \in DOMAIN db.properties
    /\ HoldsHomes(q) \/ homes[q].properties # Unread =>
          /\ IsTable(homes[q].properties)
          /\ \A h \in DOMAIN homes[q].properties :
                \/ HomeAs(f, pc, call, h, homes[q].properties[h])
                \/ HoldsHomes(q) /\ NewHome(call, q, h, homes[q].properties[h])
          /\ call[q].op \in OfHome /\ (HoldsHomes(q) \/ pc[q] = "load") =>
                call[q].row \in DOMAIN homes[q].properties
          /\ HoldsHomes(q) \/ DOMAIN homes[q].properties \subseteq DOMAIN db.properties
    /\ HoldsHomes(q) \/ homes[q].residents # Unread =>
          /\ IsTable(homes[q].residents)
          /\ \A i \in DOMAIN homes[q].residents :
                ResidentAs(f, pc, call, i, homes[q].residents[i])

KnowsPlace(f, q) == pc[q] = "place" => PlaceAs(f, pc, call, PlaceOf(q), place[q])

Knows(f, q) ==
    IF pc[q] = "idle" THEN homes[q] = NoHomes
    ELSE /\ call[q] \in Calls /\ OnRoad(call[q].op, pc[q])
         /\ KnowsBusiness(f, q) /\ KnowsHomes(f, q) /\ KnowsPlace(f, q)

Inv(f) == Typed /\ Faithful(f) /\ \A q \in Requests : Knows(f, q)

\* Every step: calls stand, answers are final, and what is stored stays.
Onward(at, ask, next, asked) ==
    \A r \in Requests :
        at[r] # "idle" =>
           /\ next[r] # "idle" /\ asked[r] = ask[r]
           /\ at[r] \in Ended => next[r] \in Ended
           /\ ask[r].op = "home" /\ at[r] \in Ended \cup {"residents", "place"} =>
                 next[r] \in Ended \cup {"residents", "place"}

Grows ==
    /\ DOMAIN db.businesses \subseteq DOMAIN db'.businesses
    /\ DOMAIN db.properties \subseteq DOMAIN db'.properties
    /\ DOMAIN db.residents \subseteq DOMAIN db'.residents

Same(r) == /\ pc'[r] = pc[r] /\ call'[r] = call[r]
           /\ profile'[r] = profile[r] /\ place'[r] = place[r]
           /\ homes'[r] = homes[r] /\ failed'[r] = failed[r]

-----------------------------------------------------------------------------

LEMMA WithRows ==
    ASSUME NEW table, NEW rows
    PROVE  /\ IsTable(With(table, rows))
           /\ DOMAIN With(table, rows) = DOMAIN rows \cup DOMAIN table
           /\ \A i \in DOMAIN rows : With(table, rows)[i] = rows[i]
           /\ \A i \in DOMAIN table \ DOMAIN rows : With(table, rows)[i] = table[i]
BY DEF With, IsTable

LEMMA WithRow ==
    ASSUME NEW table, NEW i, NEW row
    PROVE  /\ IsTable(With(table, Row(i, row)))
           /\ DOMAIN With(table, Row(i, row)) = DOMAIN table \cup {i}
           /\ With(table, Row(i, row))[i] = row
           /\ \A j \in DOMAIN table \ {i} : With(table, Row(i, row))[j] = table[j]
BY DEF With, Row, IsTable

LEMMA NoRowsAreATable == IsTable(<<>>) /\ DOMAIN <<>> = {}
BY DEF IsTable

\* What a row has to be, it has to be from then on.
LEMMA StillAs ==
    ASSUME NEW f, NEW at, NEW ask, NEW next, NEW asked, Onward(at, ask, next, asked),
           NEW i, NEW row
    PROVE  /\ PlaceAs(f, at, ask, i, row) => PlaceAs(f, next, asked, i, row)
           /\ BusinessAs(f, at, ask, i, row) => BusinessAs(f, next, asked, i, row)
           /\ HomeAs(f, at, ask, i, row) => HomeAs(f, next, asked, i, row)
           /\ ResidentAs(f, at, ask, i, row) => ResidentAs(f, next, asked, i, row)
<1>1. PlaceAs(f, at, ask, i, row) => PlaceAs(f, next, asked, i, row)
  BY DEF PlaceAs, Onward
<1>2. BusinessAs(f, at, ask, i, row) => BusinessAs(f, next, asked, i, row)
  BY DEF BusinessAs, Onward, Ended
<1>3. HomeAs(f, at, ask, i, row) => HomeAs(f, next, asked, i, row)
  BY DEF HomeAs, Onward, Ended
<1>4. ResidentAs(f, at, ask, i, row) => ResidentAs(f, next, asked, i, row)
  BY DEF ResidentAs, Onward
<1> QED
  BY <1>1, <1>2, <1>3, <1>4

LEMMA InitInv == ASSUME Init PROVE \E f \in FirstStores : Inv(f)
<1>1. db \in FirstStores
  BY DEF Init
<1>2. Typed
  BY DEF Init, Typed, NoHomes
<1>3. Faithful(db)
  <2>1. WellFormed(db) /\ \A t \in Tables : DOMAIN db[t] \subseteq Seeded
    BY <1>1, SeedAssumption
  <2>2. DOMAIN db = Tables /\ \A t \in Tables : IsTable(db[t])
    BY <2>1, <1>1 DEF WellFormed, Tables, IsTable
  <2>3. \A l \in DOMAIN db.locations : PlaceAs(db, pc, call, l, db.locations[l])
    BY <2>1 DEF PlaceAs, WellFormed, Tables
  <2>4. \A b \in DOMAIN db.businesses : BusinessAs(db, pc, call, b, db.businesses[b])
    BY <2>1 DEF BusinessAs, WellFormed, Tables
  <2>5. \A h \in DOMAIN db.properties : HomeAs(db, pc, call, h, db.properties[h])
    BY <2>1 DEF HomeAs, WellFormed, Tables
  <2>6. \A i \in DOMAIN db.residents : ResidentAs(db, pc, call, i, db.residents[i])
    BY <2>1 DEF ResidentAs, WellFormed, Tables
  <2> QED
    BY <1>1, <2>2, <2>3, <2>4, <2>5, <2>6, SeedAssumption DEF Faithful
<1>4. \A q \in Requests : Knows(db, q)
  BY DEF Init, Knows
<1> QED
  BY <1>1, <1>2, <1>3, <1>4 DEF Inv

\* The step of one request leaves what the others know true.
LEMMA OthersKnow ==
    ASSUME NEW f, NEW q \in Requests, Knows(f, q), Same(q), Grows, Onward(pc, call, pc', call')
    PROVE  Knows(f, q)'
<1>1. CASE pc[q] = "idle"
  BY <1>1 DEF Knows, Same, NoHomes
<1>2. CASE pc[q] # "idle"
  <2>1. /\ call[q] \in Calls /\ OnRoad(call[q].op, pc[q])
        /\ KnowsBusiness(f, q) /\ KnowsHomes(f, q) /\ KnowsPlace(f, q)
    BY <1>2 DEF Knows
  <2>2. KnowsBusiness(f, q)'
    BY <2>1, StillAs DEF KnowsBusiness, Busy, Same, Grows
  <2>3. HoldsHomes(q)' <=> HoldsHomes(q)
    BY DEF HoldsHomes, Same
  <2>4. KnowsHomes(f, q)'
    BY <2>1, <2>3, StillAs DEF KnowsHomes, NewHome, Same, Grows
  <2>5. KnowsPlace(f, q)'
    <3>1. PlaceOf(q)' = PlaceOf(q)
      BY DEF PlaceOf, Same
    <3> QED
      BY <2>1, <3>1, StillAs DEF KnowsPlace, Same
  <2> QED
    BY <1>2, <2>1, <2>2, <2>4, <2>5 DEF Knows, Same
<1> QED
  BY <1>1, <1>2

LEMMA OneRequest ==
    ASSUME NEW f, Inv(f), NEW q \in Requests, Typed', Faithful(f)', Grows,
           Onward(pc, call, pc', call'), Knows(f, q)',
           \A r \in Requests \ {q} : Same(r)
    PROVE  Inv(f)'
BY OthersKnow DEF Inv

LEMMA QuietRequest ==
    ASSUME NEW f, Inv(f), NEW q \in Requests, Typed', UNCHANGED db,
           Onward(pc, call, pc', call'), Knows(f, q)',
           \A r \in Requests \ {q} : Same(r)
    PROVE  Inv(f)'
<1>1. Faithful(f)'
  BY StillAs DEF Inv, Faithful
<1>2. Grows
  BY DEF Grows
<1> QED
  BY <1>1, <1>2, OneRequest

\* The answer, or the end without one, forgets what was read.
LEMMA Ending ==
    ASSUME NEW f, Inv(f), NEW q \in Requests, pc[q] # "idle", NEW a \in Ended, End(q, a)
    PROVE  /\ pc'[q] \in Ended /\ call' = call
           /\ \A r \in Requests \ {q} : Same(r)
           /\ Typed' <=> calm' \in BOOLEAN
           /\ Onward(pc, call, pc', call')
           /\ Knows(f, q)'
<1> USE DEF End, Go
<1>1. /\ pc'[q] = a /\ call' = call /\ homes'[q] = NoHomes
      /\ \A r \in Requests \ {q} : Same(r)
  BY DEF Inv, Typed, Same
<1>2. Typed' <=> calm' \in BOOLEAN
  BY DEF Inv, Typed, NoHomes, Ended
<1>3. Onward(pc, call, pc', call')
  BY <1>1 DEF Onward, Ended, Same
<1>4. call[q] \in Calls
  BY DEF Inv, Knows
<1>5. KnowsBusiness(f, q)' /\ KnowsPlace(f, q)'
  BY <1>1 DEF KnowsBusiness, Busy, KnowsPlace, Ended
<1>6. KnowsHomes(f, q)'
  BY <1>1 DEF KnowsHomes, HoldsHomes, NoHomes, Ended
<1> QED
  BY <1>1, <1>2, <1>3, <1>4, <1>5, <1>6 DEF Knows, OnRoad, Ended

\* A request that goes on to another step.
LEMMA Going ==
    ASSUME NEW f, Inv(f), NEW q \in Requests, pc[q] \in Reading \cup Writing,
           NEW step \in Reading \cup Writing, Go(q, step),
           pc[q] \in {"residents", "place"} => step \in {"residents", "place"}
                                               \/ call[q].op # "home"
    PROVE  /\ pc'[q] = step /\ call' = call
           /\ \A r \in Requests \ {q} : pc'[r] = pc[r]
           /\ pc' \in [Requests -> Reading \cup Writing \cup Ended \cup {"idle"}]
           /\ Onward(pc, call, pc', call')
<1> USE DEF Go, Reading, Writing, Ended
<1>1. /\ pc'[q] = step /\ call' = call
      /\ \A r \in Requests \ {q} : pc'[r] = pc[r]
      /\ pc' \in [Requests -> Reading \cup Writing \cup Ended \cup {"idle"}]
  BY DEF Inv, Typed
<1>2. Onward(pc, call, pc', call')
  BY <1>1 DEF Onward
<1> QED
  BY <1>1, <1>2

LEMMA StartStep ==
    ASSUME NEW f, Inv(f), NEW q \in Requests, NEW c \in Calls, Start(q, c)
    PROVE  Inv(f)' /\ UNCHANGED db
<1> USE DEF Start, held
<1>1. /\ pc[q] = "idle" /\ pc'[q] \in {"draw", "check"} /\ call'[q] = c
      /\ pc'[q] = "draw" <=> c.op \in Registering
      /\ UNCHANGED <<db, profile, place, homes, failed>>
      /\ homes[q] = NoHomes
      /\ \A r \in Requests \ {q} : Same(r)
  BY DEF Inv, Typed, Same, Knows
<1>2. Typed'
  BY DEF Inv, Typed, Reading, Writing
<1>3. Onward(pc, call, pc', call')
  BY <1>1 DEF Onward, Same
<1>4. OnRoad(c.op, pc'[q])
  BY <1>1 DEF OnRoad, Registering, OfBusiness, OfHome, OfPlace
<1>5. KnowsBusiness(f, q)' /\ KnowsPlace(f, q)'
  BY <1>1 DEF KnowsBusiness, Busy, KnowsPlace
<1>6. KnowsHomes(f, q)'
  BY <1>1 DEF KnowsHomes, HoldsHomes, NoHomes
<1>7. Knows(f, q)'
  BY <1>1, <1>4, <1>5, <1>6 DEF Knows
<1> QED
  BY <1>1, <1>2, <1>3, <1>7, QuietRequest

\* A request that ends without having changed the tables.
LEMMA QuietEnd ==
    ASSUME NEW f, Inv(f), NEW q \in Requests, pc[q] # "idle", NEW a \in Ended, End(q, a),
           UNCHANGED db, calm' \in BOOLEAN
    PROVE  Inv(f)'
BY Ending, QuietRequest

LEMMA ReadBusinessStep ==
    ASSUME NEW f, Inv(f), NEW q \in Requests, ReadBusiness(q), UNCHANGED <<db, calm>>
    PROVE  Inv(f)'
<1> DEFINE c == call[q]
<1> USE DEF ReadBusiness
<1>1. /\ pc[q] \in {"check", "load"} /\ c.op \in OfBusiness /\ c \in Calls
      /\ calm \in BOOLEAN /\ Knows(f, q)
  BY DEF Inv, Typed, Knows
<1>2. CASE /\ pc[q] = "check" /\ Go(q, "load") /\ UNCHANGED held
           /\ c.row \in DOMAIN db.businesses /\ MayTouchBusiness(c, db.businesses[c.row])
  <2>1. /\ pc'[q] = "load" /\ UNCHANGED <<call, profile, place, homes, failed>>
        /\ Onward(pc, call, pc', call') /\ \A r \in Requests \ {q} : pc'[r] = pc[r]
        /\ pc' \in [Requests -> Reading \cup Writing \cup Ended \cup {"idle"}]
    BY <1>1, <1>2, Going DEF Reading, held
  <2>2. Typed' /\ \A r \in Requests \ {q} : Same(r)
    BY <2>1 DEF Inv, Typed, Same
  <2>3. c.op = "review" => c.who \in Staff
    BY <1>2 DEF MayTouchBusiness
  <2>4. KnowsBusiness(f, q)' /\ KnowsPlace(f, q)'
    BY <1>1, <1>2, <2>1, <2>3 DEF KnowsBusiness, KnowsPlace, Busy
  <2>5. homes'[q] = homes[q] /\ ~HoldsHomes(q)' /\ c.op \notin OfHome
    BY <1>1, <2>1 DEF HoldsHomes, OfBusiness, OfHome
  <2>6. KnowsHomes(f, q)'
    <3>1. KnowsHomes(f, q)
      BY <1>1, <1>2 DEF Knows
    <3> QED
      BY <1>1, <2>1, <2>5, <3>1, StillAs DEF KnowsHomes, HoldsHomes, OfBusiness, OfHome
  <2>7. Knows(f, q)'
    BY <1>1, <2>1, <2>4, <2>6 DEF Knows, OnRoad
  <2> QED
    BY <2>1, <2>2, <2>7, QuietRequest
<1>3. CASE End(q, "rejected")
  BY <1>1, <1>3, QuietEnd DEF Ended
<1>4. CASE /\ pc[q] = "load" /\ Go(q, "business") /\ UNCHANGED <<place, homes, failed>>
           /\ profile' = [profile EXCEPT ![q] =
                 [db.businesses[c.row] EXCEPT !.status = NextStatus(c, @)]]
  <2>1. /\ pc'[q] = "business" /\ UNCHANGED <<call, place, homes, failed>>
        /\ Onward(pc, call, pc', call') /\ \A r \in Requests \ {q} : pc'[r] = pc[r]
        /\ pc' \in [Requests -> Reading \cup Writing \cup Ended \cup {"idle"}]
    BY <1>1, <1>4, Going DEF Reading, Writing
  <2>2. /\ KnowsBusiness(f, q) /\ KnowsHomes(f, q)
        /\ c.row \in DOMAIN db.businesses /\ (c.op = "review" => c.who \in Staff)
    BY <1>1, <1>4 DEF Knows, KnowsBusiness, Busy
  <2>3. BusinessAs(f, pc, call, c.row, db.businesses[c.row])
    BY <2>2 DEF Inv, Faithful
  <2>4. db.businesses[c.row] \in BusinessProfile
    BY <2>3 DEF BusinessAs
  <2>5. NextStatus(c, db.businesses[c.row].status) \in Statuses
    BY <1>1, <2>4 DEF NextStatus, OfBusiness, BusinessProfile, Statuses
  <2>6. /\ profile'[q] \in BusinessProfile
        /\ profile'[q].owner = db.businesses[c.row].owner
        /\ profile'[q].place = db.businesses[c.row].place
        /\ profile'[q].status = NextStatus(c, db.businesses[c.row].status)
        /\ \A r \in Requests \ {q} : profile'[r] = profile[r]
    BY <1>4, <2>4, <2>5 DEF Inv, Typed, BusinessProfile
  <2>7. Typed' /\ \A r \in Requests \ {q} : Same(r)
    BY <1>4, <2>1, <2>6 DEF Inv, Typed, Same
  <2>8. BusinessAs(f, pc, call, c.row, profile'[q])
    BY <2>3, <2>6 DEF BusinessAs
  <2>9. BusinessAs(f, pc', call', c.row, profile'[q])
    BY <2>1, <2>8, StillAs
  <2>10. KnowsBusiness(f, q)' /\ KnowsPlace(f, q)'
    <3>1. c.op = "submit" => profile'[q].status = "pending_review"
      BY <2>6 DEF NextStatus
    <3> QED
      BY <1>1, <2>1, <2>2, <2>9, <3>1 DEF KnowsBusiness, KnowsPlace, Busy, OfBusiness
  <2>11. KnowsHomes(f, q)'
    BY <1>1, <1>4, <2>1, <2>2, StillAs DEF KnowsHomes, HoldsHomes, OfBusiness, OfHome
  <2>12. Knows(f, q)'
    BY <1>1, <2>1, <2>10, <2>11 DEF Knows, OnRoad
  <2> QED
    BY <2>1, <2>7, <2>12, QuietRequest
<1> QED
  BY <1>1, <1>2, <1>3, <1>4

LEMMA ReadHomesStep ==
    ASSUME NEW f, Inv(f), NEW q \in Requests, NEW t \in {"properties", "residents"},
           ReadHomes(q, t), UNCHANGED <<db, calm>>
    PROVE  Inv(f)'
<1> USE DEF ReadHomes
<1>1. /\ UNCHANGED <<pc, call, profile, place, failed>>
      /\ pc[q] \in {"check", "load"} /\ call[q].op \in OfHome \cup {"home"}
      /\ \A r \in Requests \ {q} : homes'[r] = homes[r]
      /\ DOMAIN homes'[q] = {"properties", "residents"}
      /\ homes'[q][t] = db[t]
      /\ \A u \in {"properties", "residents"} \ {t} : homes'[q][u] = homes[q][u]
  BY DEF ReadsHomes, Inv, Typed
<1>2. Typed' /\ \A r \in Requests \ {q} : Same(r)
  BY <1>1 DEF Inv, Typed, Same
<1>3. /\ call[q] \in Calls /\ OnRoad(call[q].op, pc[q])
      /\ KnowsBusiness(f, q) /\ KnowsHomes(f, q) /\ KnowsPlace(f, q)
  BY <1>1 DEF Inv, Knows
<1>4. /\ IsTable(db.properties) /\ IsTable(db.residents)
      /\ \A h \in DOMAIN db.properties : HomeAs(f, pc, call, h, db.properties[h])
      /\ \A i \in DOMAIN db.residents : ResidentAs(f, pc, call, i, db.residents[i])
  BY DEF Inv, Faithful, Tables
<1>5. ~HoldsHomes(q)
  BY <1>1 DEF HoldsHomes
<1>6. KnowsHomes(f, q)'
  <2>1. CASE t = "properties"
    BY <1>1, <1>3, <1>4, <1>5, <2>1 DEF KnowsHomes, HoldsHomes
  <2>2. CASE t = "residents"
    BY <1>1, <1>3, <1>4, <1>5, <2>2 DEF KnowsHomes, HoldsHomes
  <2> QED
    BY <2>1, <2>2
<1>7. Knows(f, q)'
  BY <1>1, <1>3, <1>6 DEF Knows, KnowsBusiness, Busy, KnowsPlace
<1>8. Onward(pc, call, pc', call')
  BY <1>1 DEF Onward
<1> QED
  BY <1>1, <1>2, <1>7, <1>8, QuietRequest

LEMMA ReadPlaceStep ==
    ASSUME NEW f, Inv(f), NEW q \in Requests, ReadPlace(q), UNCHANGED <<db, calm>>
    PROVE  Inv(f)'
<1> DEFINE c == call[q]
<1> USE DEF ReadPlace
<1>1. /\ pc[q] = "check" /\ c.op \in OfPlace /\ c \in Calls /\ calm \in BOOLEAN
      /\ KnowsHomes(f, q)
  BY DEF Inv, Typed, Knows
<1>2. CASE End(q, "rejected")
  BY <1>1, <1>2, QuietEnd DEF Ended
<1>3. CASE ~ End(q, "rejected")
  <2> DEFINE row == IF c.op = "editPlace" THEN Patched(db.locations[c.row], c)
                    ELSE db.locations[c.row]
             step == IF c.op = "editPlace" THEN "place" ELSE "remove"
  <2>1. /\ Go(q, step) /\ place' = [place EXCEPT ![q] = row]
        /\ UNCHANGED <<profile, homes, failed>>
        /\ c.row \in DOMAIN db.locations
    BY <1>1, <1>3
  <2>2. PlaceAs(f, pc, call, c.row, db.locations[c.row])
    BY <2>1 DEF Inv, Faithful
  <2>3. PlaceAs(f, pc, call, c.row, row) /\ row \in Location
    BY <1>1, <2>2, CallsAssumption DEF PlaceAs, Location, OfPlace, Patched
  <2>4. step \in Reading \cup Writing
    BY DEF Reading, Writing
  <2> HIDE DEF row, step
  <2>5. /\ pc'[q] = step /\ call' = call
        /\ Onward(pc, call, pc', call') /\ \A r \in Requests \ {q} : pc'[r] = pc[r]
        /\ pc' \in [Requests -> Reading \cup Writing \cup Ended \cup {"idle"}]
    BY <1>1, <2>1, <2>4, Going DEF Reading
  <2>6. /\ Typed' /\ place'[q] = row /\ \A r \in Requests \ {q} : Same(r)
    BY <2>1, <2>3, <2>5 DEF Inv, Typed, Same
  <2>7. PlaceAs(f, pc', call', c.row, place'[q])
    BY <2>3, <2>5, <2>6, StillAs
  <2>8. PlaceOf(q)' = c.row
    BY <1>1, <2>5 DEF PlaceOf, OfPlace, OfHome, OfBusiness, Registering
  <2>9. KnowsBusiness(f, q)' /\ KnowsPlace(f, q)'
    BY <1>1, <2>5, <2>7, <2>8 DEF KnowsBusiness, Busy, KnowsPlace, OfPlace, OfBusiness
  <2>10. KnowsHomes(f, q)'
    BY <1>1, <2>1, <2>5, StillAs DEF KnowsHomes, HoldsHomes, OfPlace, OfHome
  <2>11. Knows(f, q)'
    <3>1. OnRoad(c.op, step)
      BY <1>1 DEF OnRoad, OfPlace, step
    <3> QED
      BY <1>1, <2>4, <2>5, <2>9, <2>10, <3>1 DEF Knows, Reading, Writing
  <2> QED
    BY <2>5, <2>6, <2>11, QuietRequest
<1> QED
  BY <1>2, <1>3

LEMMA HomesPlace ==
    ASSUME NEW q \in Requests, call[q].op \in OfHome
    PROVE  PlaceOf(q) = homes[q].properties[call[q].row].place
BY DEF PlaceOf, OfHome, OfBusiness, OfPlace, Registering

\* What is written of a place once its business or its home has been.
LEMMA SyncedIsFaithful ==
    ASSUME NEW f \in FirstStores, Inv(f), NEW q \in Requests, pc[q] = "fetch",
           PlaceOf(q) \in DOMAIN db.locations
    PROVE  PlaceAs(f, pc, call, PlaceOf(q), Synced(q, db.locations[PlaceOf(q)]))
<1> DEFINE c == call[q]
           l == PlaceOf(q)
           row == db.locations[l]
<1>1. c \in Calls /\ OnRoad(c.op, "fetch") /\ KnowsBusiness(f, q) /\ KnowsHomes(f, q)
  BY DEF Inv, Knows
<1>2. PlaceAs(f, pc, call, l, row)
  BY DEF Inv, Faithful
<1>3. CASE c.op \in OfBusiness
  <2>1. BusinessAs(f, pc, call, c.row, profile[q])
    BY <1>1, <1>3 DEF KnowsBusiness, Busy
  <2>2. c.row \in Ids /\ profile[q].owner \in People /\ profile[q].status \in Statuses
    BY <1>1, <1>3, <2>1 DEF BusinessAs, BusinessProfile, OfBusiness, Registering
  <2>3. Published(profile[q].status) \in Visibilities
    BY DEF Published, Visibilities
  <2>4. Synced(q, row) = [owner |-> IF row.owner = NoPerson THEN profile[q].owner ELSE row.owner,
                          business |-> c.row, visibility |-> Published(profile[q].status)]
    BY <1>3 DEF Synced
  <2> HIDE DEF l, row
  <2>5. row.owner \in People \cup {NoPerson}
    BY <1>2 DEF PlaceAs, Location
  <2>6. Synced(q, row) \in Location
    BY <2>2, <2>3, <2>4, <2>5 DEF Location
  <2>7. row.owner # NoPerson => Synced(q, row).owner = row.owner
    BY <2>4
  <2>8. PlaceAs(f, pc, call, l, Synced(q, row))
    BY <1>2, <2>6, <2>7 DEF PlaceAs, Inv, Knows
  <2> QED
    BY <2>8 DEF l, row
<1>4. CASE c.op = "editHome"
  <2>1. /\ HoldsHomes(q) /\ ~NewHome(call, q, c.row, homes[q].properties[c.row])
        /\ c.row \in DOMAIN homes[q].properties
    BY <1>1, <1>4 DEF KnowsHomes, HoldsHomes, OfHome, NewHome
  <2> DEFINE flat == homes[q].properties[c.row]
  <2>2. HomeAs(f, pc, call, c.row, flat)
    BY <1>1, <2>1 DEF KnowsHomes
  <2>3. l = flat.place
    <3>1. call[q].op = "editHome"
      BY <1>4
    <3> QED
      BY <3>1, HomesPlace DEF OfHome
  <2>4. Synced(q, row) = [row EXCEPT !.owner = flat.by, !.visibility = Offered(flat.offer)]
    BY <1>4 DEF Synced, OfBusiness
  <2> HIDE DEF flat, l, row
  <2>5. Offered(flat.offer) \in Visibilities /\ flat.by \in People
    BY <2>2 DEF Offered, Visibilities, HomeAs, Property
  <2>6. Synced(q, row) \in Location /\ Synced(q, row).owner = flat.by
    BY <1>2, <2>4, <2>5 DEF PlaceAs, Location
  <2>7. CASE c.row \in Seeded
    <3>1. /\ c.row \in DOMAIN f.properties /\ flat.by = f.properties[c.row].by
          /\ l = f.properties[c.row].place
      BY <2>2, <2>3, <2>7 DEF HomeAs
    <3>2. l \in Seeded
      BY <3>1, SeedAssumption
    <3>3. l \in DOMAIN f.locations
      BY <1>2, <3>2 DEF PlaceAs
    <3>4. f.locations[l].owner \in {NoPerson, flat.by}
      BY <3>1, <3>3, SeedAssumption
    <3>5. PlaceAs(f, pc, call, l, Synced(q, row))
      BY <2>6, <3>2, <3>3, <3>4 DEF PlaceAs
    <3> QED
      BY <3>5 DEF l, row
  <2>8. CASE c.row \notin Seeded
    <3>1. /\ l = c.row /\ l \in Requests /\ flat.by = call[l].who
          /\ call[l].op = "home" /\ pc[l] # "idle"
      BY <2>2, <2>3, <2>8 DEF HomeAs, Ended
    <3>2. PlaceAs(f, pc, call, l, Synced(q, row))
      BY <2>6, <3>1 DEF PlaceAs, Registering
    <3> QED
      BY <3>2 DEF l, row
  <2> QED
    BY <2>7, <2>8
<1> QED
  BY <1>1, <1>3, <1>4 DEF OnRoad, Ended, OfBusiness, OfHome

LEMMA FetchPlaceStep ==
    ASSUME NEW f \in FirstStores, Inv(f), NEW q \in Requests, FetchPlace(q), UNCHANGED <<db, calm>>
    PROVE  Inv(f)'
<1> DEFINE c == call[q]
           row == Synced(q, db.locations[PlaceOf(q)])
<1> USE DEF FetchPlace
<1>1. /\ pc[q] = "fetch" /\ calm \in BOOLEAN /\ Knows(f, q)
      /\ c \in Calls /\ OnRoad(c.op, "fetch")
  BY DEF Inv, Typed, Knows
<1>2. CASE PlaceOf(q) \notin DOMAIN db.locations
  BY <1>1, <1>2, QuietEnd DEF Ended
<1>3. CASE PlaceOf(q) \in DOMAIN db.locations
  <2>1. PlaceAs(f, pc, call, PlaceOf(q), row)
    BY <1>1, <1>3, SyncedIsFaithful
  <2>2. /\ place' = [place EXCEPT ![q] = row] /\ Go(q, "place")
        /\ UNCHANGED <<profile, homes, failed>>
    BY <1>3
  <2> HIDE DEF row
  <2>3. /\ pc'[q] = "place" /\ call' = call
        /\ Onward(pc, call, pc', call') /\ \A r \in Requests \ {q} : pc'[r] = pc[r]
        /\ pc' \in [Requests -> Reading \cup Writing \cup Ended \cup {"idle"}]
    BY <1>1, <2>2, Going DEF Reading, Writing
  <2>4. row \in Location
    BY <2>1 DEF PlaceAs
  <2>5. Typed' /\ place'[q] = row /\ \A r \in Requests \ {q} : Same(r)
    BY <2>2, <2>3, <2>4 DEF Inv, Typed, Same
  <2>6. PlaceOf(q)' = PlaceOf(q)
    BY <2>2, <2>3 DEF PlaceOf
  <2>7. KnowsPlace(f, q)'
    BY <2>1, <2>3, <2>5, <2>6, StillAs DEF KnowsPlace
  <2>8. c.op \in OfBusiness \cup {"editHome"}
    BY <1>1 DEF OnRoad, Ended
  <2>9. KnowsBusiness(f, q) /\ KnowsHomes(f, q)
    BY <1>1 DEF Knows
  <2>10. KnowsBusiness(f, q)'
    BY <1>1, <2>2, <2>3, <2>9, StillAs DEF KnowsBusiness, Busy
  <2>11. HoldsHomes(q)' <=> HoldsHomes(q)
    BY <1>1, <2>3 DEF HoldsHomes
  <2>12. KnowsHomes(f, q)'
    BY <1>1, <2>2, <2>3, <2>9, <2>11, StillAs DEF KnowsHomes, NewHome
  <2>13. Knows(f, q)'
    BY <1>1, <2>3, <2>7, <2>8, <2>10, <2>12 DEF Knows, OnRoad, OfBusiness
  <2> QED
    BY <2>2, <2>3, <2>5, <2>13, QuietRequest
<1> QED
  BY <1>2, <1>3

\* A decision on the homes that were read.
HoldsStore(f, q, s) ==
    /\ DOMAIN s = {"properties", "residents"}
    /\ IsTable(s.properties) /\ IsTable(s.residents)
    /\ \A h \in DOMAIN s.properties : \/ HomeAs(f, pc, call, h, s.properties[h])
                                      \/ NewHome(call, q, h, s.properties[h])
    /\ \A i \in DOMAIN s.residents : ResidentAs(f, pc, call, i, s.residents[i])
    /\ call[q].op \in OfHome => call[q].row \in DOMAIN s.properties

LEMMA HoldStep ==
    ASSUME NEW f, Inv(f), NEW q \in Requests, pc[q] = "load", call[q].op \in OfHome \cup {"home"},
           NEW s, HoldsStore(f, q, s), Go(q, "properties"), homes' = [homes EXCEPT ![q] = s],
           UNCHANGED <<profile, place, failed, db, calm>>
    PROVE  Inv(f)'
<1>1. /\ pc'[q] = "properties" /\ call' = call
      /\ Onward(pc, call, pc', call') /\ \A r \in Requests \ {q} : pc'[r] = pc[r]
      /\ pc' \in [Requests -> Reading \cup Writing \cup Ended \cup {"idle"}]
  BY Going DEF Reading, Writing
<1>2. Typed' /\ homes'[q] = s /\ \A r \in Requests \ {q} : Same(r)
  BY <1>1 DEF Inv, Typed, Same, HoldsStore
<1>3. KnowsBusiness(f, q)' /\ KnowsPlace(f, q)'
  BY <1>1 DEF KnowsBusiness, Busy, KnowsPlace, OfHome, OfBusiness
<1>4. KnowsHomes(f, q) /\ call[q] \in Calls
  BY DEF Inv, Knows
<1>5. KnowsHomes(f, q)'
  <2>1. HoldsHomes(q)'
    BY <1>1 DEF HoldsHomes
  <2>2. call[q].op \in OfHome => call[q].row \in DOMAIN db.properties
    BY <1>4 DEF KnowsHomes
  <2> QED
    BY <1>1, <1>2, <2>1, <2>2, StillAs DEF KnowsHomes, HoldsStore, NewHome
<1>6. Knows(f, q)'
  BY <1>1, <1>3, <1>4, <1>5 DEF Knows, OnRoad
<1> QED
  BY <1>1, <1>2, <1>6, QuietRequest

\* Residents keep their rows when one moves in.
LEMMA RegisterHolds ==
    ASSUME NEW f, Inv(f), NEW q \in Requests, pc[q] = "load", call[q].op = "home",
           homes[q].properties # Unread, homes[q].residents # Unread
    PROVE  HoldsStore(f, q, Register(q, homes[q]))
<1> DEFINE c == call[q]
           row == [by |-> c.who, place |-> q, offer |-> c.offer]
           new == Lives(c.who, q, TRUE)
           rows == With(homes[q].properties, Row(q, row))
           people == With(homes[q].residents, Row(q, new))
<1>1. /\ c \in Calls /\ KnowsHomes(f, q) /\ ~HoldsHomes(q)
  BY DEF Inv, Knows, HoldsHomes
<1>2. row \in Property /\ row.by = c.who /\ row.place = q
  BY <1>1 DEF Property, Ids
<1>3. ResidentAs(f, pc, call, q, new)
  BY <1>1 DEF ResidentAs, Lives, PropertyMembership, Ids
<1> HIDE DEF row, new
<1>4. /\ IsTable(rows) /\ rows[q] = row /\ DOMAIN rows = DOMAIN homes[q].properties \cup {q}
      /\ \A h \in DOMAIN homes[q].properties \ {q} : rows[h] = homes[q].properties[h]
  BY DEF With, Row, IsTable
<1>5. /\ IsTable(people) /\ people[q] = new /\ DOMAIN people = DOMAIN homes[q].residents \cup {q}
      /\ \A i \in DOMAIN homes[q].residents \ {q} : people[i] = homes[q].residents[i]
  BY DEF With, Row, IsTable
<1> HIDE DEF rows, people
<1>6. \A h \in DOMAIN rows : \/ HomeAs(f, pc, call, h, rows[h])
                             \/ NewHome(call, q, h, rows[h])
  <2>1. NewHome(call, q, q, row)
    BY <1>2 DEF NewHome
  <2> QED
    BY <1>1, <1>4, <2>1 DEF KnowsHomes
<1>7. \A i \in DOMAIN people : ResidentAs(f, pc, call, i, people[i])
  BY <1>1, <1>3, <1>5 DEF KnowsHomes
<1>8. Register(q, homes[q]) = [properties |-> rows, residents |-> people]
  BY DEF Register, rows, people, row, new
<1> QED
  BY <1>4, <1>5, <1>6, <1>7, <1>8 DEF HoldsStore, OfHome

LEMMA EditHolds ==
    ASSUME NEW f, Inv(f), NEW q \in Requests, pc[q] = "load", call[q].op = "editHome",
           homes[q].properties # Unread, homes[q].residents # Unread
    PROVE  HoldsStore(f, q, Edit(call[q], homes[q]))
<1> DEFINE c == call[q]
           s == homes[q]
<1>1. /\ c \in Calls /\ KnowsHomes(f, q) /\ ~HoldsHomes(q)
      /\ DOMAIN s = {"properties", "residents"}
  BY DEF Inv, Knows, HoldsHomes, Typed
<1>2. /\ IsTable(s.properties) /\ IsTable(s.residents)
      /\ \A h \in DOMAIN s.properties : HomeAs(f, pc, call, h, s.properties[h])
      /\ \A i \in DOMAIN s.residents : ResidentAs(f, pc, call, i, s.residents[i])
      /\ c.row \in DOMAIN s.properties
  BY <1>1 DEF KnowsHomes, OfHome
<1>3. CASE c.offer = "kept"
  BY <1>1, <1>2, <1>3 DEF Edit, HoldsStore
<1>4. CASE c.offer # "kept"
  <2> DEFINE row == [s.properties[c.row] EXCEPT !.offer = c.offer]
             rows == [s.properties EXCEPT ![c.row] = row]
             new == [s EXCEPT !["properties"] = rows]
  <2>1. HomeAs(f, pc, call, c.row, s.properties[c.row])
    BY <1>2
  <2>2. HomeAs(f, pc, call, c.row, row)
    BY <1>1, <1>4, <2>1 DEF HomeAs, Property
  <2>3. Edit(c, s) = new
    BY <1>4 DEF Edit
  <2> HIDE DEF row
  <2>4. /\ IsTable(rows) /\ DOMAIN rows = DOMAIN s.properties /\ rows[c.row] = row
        /\ \A h \in DOMAIN rows \ {c.row} : rows[h] = s.properties[h]
    BY <1>2 DEF IsTable
  <2>5. \A h \in DOMAIN rows : HomeAs(f, pc, call, h, rows[h])
    BY <1>2, <2>2, <2>4
  <2> HIDE DEF rows
  <2>6. /\ DOMAIN new = {"properties", "residents"}
        /\ new.properties = rows /\ new.residents = s.residents
    BY <1>1
  <2> HIDE DEF new, s
  <2>7. HoldsStore(f, q, new)
    BY <1>2, <2>4, <2>5, <2>6 DEF HoldsStore, s
  <2> QED
    BY <2>3, <2>7 DEF s
<1> QED
  BY <1>3, <1>4

LEMMA AddHolds ==
    ASSUME NEW f, Inv(f), NEW q \in Requests, pc[q] = "load", call[q].op = "addResident",
           homes[q].properties # Unread, homes[q].residents # Unread
    PROVE  HoldsStore(f, q, [homes[q] EXCEPT !.residents =
                 With(@, Row(q, Lives(call[q].person, call[q].row, call[q].owns)))])
<1> DEFINE c == call[q]
           s == homes[q]
           new == Lives(c.person, c.row, c.owns)
           people == With(s.residents, Row(q, new))
           store == [s EXCEPT !["residents"] = people]
<1>1. /\ c \in Calls /\ KnowsHomes(f, q) /\ ~HoldsHomes(q)
      /\ DOMAIN s = {"properties", "residents"}
  BY DEF Inv, Knows, HoldsHomes, Typed
<1>2. /\ IsTable(s.properties)
      /\ \A h \in DOMAIN s.properties : HomeAs(f, pc, call, h, s.properties[h])
      /\ \A i \in DOMAIN s.residents : ResidentAs(f, pc, call, i, s.residents[i])
      /\ c.row \in DOMAIN s.properties
  BY <1>1 DEF KnowsHomes, OfHome
<1>3. ResidentAs(f, pc, call, q, new)
  BY <1>1 DEF ResidentAs, Lives, PropertyMembership, Registering
<1>4. [s EXCEPT !.residents = With(@, Row(q, new))] = store
  BY <1>1
<1> HIDE DEF new
<1>5. /\ IsTable(people) /\ people[q] = new /\ DOMAIN people = DOMAIN s.residents \cup {q}
      /\ \A i \in DOMAIN s.residents \ {q} : people[i] = s.residents[i]
  BY DEF With, Row, IsTable
<1>6. \A i \in DOMAIN people : ResidentAs(f, pc, call, i, people[i])
  BY <1>2, <1>3, <1>5
<1> HIDE DEF people
<1>7. /\ DOMAIN store = {"properties", "residents"}
      /\ store.properties = s.properties /\ store.residents = people
  BY <1>1
<1> HIDE DEF store, s
<1>8. HoldsStore(f, q, store)
  BY <1>2, <1>5, <1>6, <1>7 DEF HoldsStore, s
<1> QED
  BY <1>4, <1>8 DEF s, new

LEMMA SettleHomesStep ==
    ASSUME NEW f, Inv(f), NEW q \in Requests, SettleHomes(q), UNCHANGED <<db, calm>>
    PROVE  Inv(f)'
<1> DEFINE c == call[q]
           s == homes[q]
<1>1. /\ s.properties # Unread /\ s.residents # Unread
      /\ pc[q] \in {"check", "load"} /\ c.op \in OfHome \cup {"home"}
      /\ pc[q] = "check" => c.op \in OfHome
      /\ calm \in BOOLEAN /\ c \in Calls /\ KnowsHomes(f, q)
  BY DEF SettleHomes, ReadsHomes, Inv, Typed, Knows
<1>2. CASE pc[q] = "check" /\ MayEditHome(c, s)
  <2>1. /\ Go(q, "load") /\ homes' = [homes EXCEPT ![q] = NoHomes]
        /\ UNCHANGED <<profile, place, failed>>
    BY <1>2 DEF SettleHomes
  <2>2. /\ pc'[q] = "load" /\ call' = call
        /\ Onward(pc, call, pc', call') /\ \A r \in Requests \ {q} : pc'[r] = pc[r]
        /\ pc' \in [Requests -> Reading \cup Writing \cup Ended \cup {"idle"}]
    BY <1>1, <2>1, Going DEF Reading
  <2>3. /\ Typed' /\ homes'[q] = NoHomes /\ \A r \in Requests \ {q} : Same(r)
    BY <2>1, <2>2 DEF Inv, Typed, Same, NoHomes
  <2>4. c.row \in DOMAIN db.properties
    BY <1>1, <1>2 DEF MayEditHome, KnowsHomes, HoldsHomes
  <2>5. KnowsBusiness(f, q)' /\ KnowsPlace(f, q)'
    BY <1>1, <2>2, <1>2 DEF KnowsBusiness, Busy, KnowsPlace, OfHome, OfBusiness
  <2>6. KnowsHomes(f, q)'
    BY <2>1, <2>2, <2>3, <2>4 DEF KnowsHomes, HoldsHomes, NoHomes
  <2>7. Knows(f, q)'
    BY <1>1, <1>2, <2>2, <2>5, <2>6 DEF Knows, OnRoad
  <2> QED
    BY <2>2, <2>3, <2>7, QuietRequest
<1>3. CASE pc[q] = "check" /\ ~MayEditHome(c, s)
  <2>1. End(q, "rejected")
    BY <1>3 DEF SettleHomes
  <2> QED
    BY <1>1, <2>1, QuietEnd DEF Ended
<1>4. CASE pc[q] = "load" /\ c.op = "home"
  <2>1. /\ Go(q, "properties") /\ homes' = [homes EXCEPT ![q] = Register(q, s)]
        /\ UNCHANGED <<profile, place, failed>>
    BY <1>4 DEF SettleHomes
  <2> QED
    BY <1>1, <1>4, <2>1, RegisterHolds, HoldStep
<1>5. CASE pc[q] = "load" /\ c.op = "editHome"
  <2>1. /\ Go(q, "properties") /\ homes' = [homes EXCEPT ![q] = Edit(c, s)]
        /\ UNCHANGED <<profile, place, failed>>
    BY <1>5 DEF SettleHomes
  <2> QED
    BY <1>1, <1>5, <2>1, EditHolds, HoldStep
<1>6. CASE pc[q] = "load" /\ c.op = "addResident" /\ End(q, "ok")
  BY <1>1, <1>6, QuietEnd DEF Ended
<1>7. CASE pc[q] = "load" /\ c.op = "addResident" /\ ~End(q, "ok")
  <2>1. /\ Go(q, "properties") /\ UNCHANGED <<profile, place, failed>>
        /\ homes' = [homes EXCEPT ![q] = [s EXCEPT !.residents =
                        With(@, Row(q, Lives(c.person, c.row, c.owns)))]]
    BY <1>7 DEF SettleHomes
  <2> QED
    BY <1>1, <1>7, <2>1, AddHolds, HoldStep
<1> QED
  BY <1>1, <1>2, <1>3, <1>4, <1>5, <1>6, <1>7 DEF OfHome

LEMMA FailSelectStep ==
    ASSUME NEW f, Inv(f), NEW q \in Requests, FailSelect(q)
    PROVE  Inv(f)' /\ UNCHANGED db
<1> USE DEF FailSelect
<1>1. pc[q] \in Reading /\ UNCHANGED db /\ calm' = FALSE /\ Knows(f, q)
  BY DEF Inv
<1>2. CASE End(q, "error")
  BY <1>1, <1>2, QuietEnd DEF Ended, Reading
<1>3. CASE ~End(q, "error")
  <2>1. /\ homes' = [homes EXCEPT ![q].residents = <<>>]
        /\ UNCHANGED <<pc, call, profile, place, failed>> /\ ReadsHomes(q)
    BY <1>3
  <2>2. /\ homes'[q].properties = homes[q].properties /\ homes'[q].residents = <<>>
        /\ DOMAIN homes'[q] = {"properties", "residents"}
        /\ \A r \in Requests \ {q} : homes'[r] = homes[r]
    BY <2>1 DEF Inv, Typed
  <2>3. Typed' /\ \A r \in Requests \ {q} : Same(r)
    BY <1>1, <2>1, <2>2 DEF Inv, Typed, Same
  <2>4. /\ pc[q] \in {"check", "load"} /\ ~HoldsHomes(q)
        /\ call[q] \in Calls /\ OnRoad(call[q].op, pc[q])
        /\ KnowsBusiness(f, q) /\ KnowsHomes(f, q) /\ KnowsPlace(f, q)
    BY <1>1, <2>1 DEF ReadsHomes, HoldsHomes, Knows
  <2>5. KnowsHomes(f, q)'
    BY <1>1, <2>1, <2>2, <2>4, NoRowsAreATable DEF KnowsHomes, HoldsHomes
  <2>6. Knows(f, q)'
    BY <1>1, <2>1, <2>4, <2>5 DEF Knows, KnowsBusiness, Busy, KnowsPlace
  <2>7. Onward(pc, call, pc', call')
    BY <2>1 DEF Onward
  <2> QED
    BY <1>1, <2>1, <2>3, <2>6, <2>7, QuietRequest
<1> QED
  BY <1>1, <1>2, <1>3

-----------------------------------------------------------------------------
(* What the statements do to the tables.                                    *)

LEMMA PutPlace ==
    ASSUME NEW f, Inv(f), Onward(pc, call, pc', call'), NEW l, NEW row,
           PlaceAs(f, pc', call', l, row), Upsert("locations", Row(l, row))
    PROVE  Faithful(f)' /\ Grows
<1> DEFINE rows == With(db.locations, Row(l, row))
<1>1. /\ IsTable(rows) /\ DOMAIN rows = DOMAIN db.locations \cup {l} /\ rows[l] = row
      /\ \A j \in DOMAIN db.locations \ {l} : rows[j] = db.locations[j]
  BY DEF With, Row, IsTable
<1>2. db' = [db EXCEPT !["locations"] = rows]
  BY DEF Upsert
<1> HIDE DEF rows
<1>3. /\ DOMAIN db' = Tables /\ db'.locations = rows /\ db'.businesses = db.businesses
      /\ db'.properties = db.properties /\ db'.residents = db.residents
  BY <1>2 DEF Inv, Faithful, Tables
<1>4. \A t \in Tables : IsTable(db'[t])
  BY <1>1, <1>3 DEF Inv, Faithful, Tables
<1>5. \A j \in DOMAIN rows : PlaceAs(f, pc', call', j, rows[j])
  BY <1>1, StillAs DEF Inv, Faithful
<1>6. Refer(db'.businesses, Placed, db'.locations) /\ Refer(db'.residents, Housed, db'.properties)
  BY <1>1, <1>3 DEF Inv, Faithful, Refer
<1>7. Faithful(f)'
  BY <1>3, <1>4, <1>5, <1>6, StillAs DEF Inv, Faithful
<1> QED
  BY <1>3, <1>7 DEF Grows

LEMMA RemovePlace ==
    ASSUME NEW f, Inv(f), Onward(pc, call, pc', call'), NEW l,
           \A b \in DOMAIN db.businesses : db.businesses[b].place # l,
           db' = [db EXCEPT !.locations = [i \in (DOMAIN @) \ {l} |-> @[i]]]
    PROVE  Faithful(f)' /\ Grows
<1> DEFINE rows == [i \in (DOMAIN db.locations) \ {l} |-> db.locations[i]]
<1>1. /\ IsTable(rows) /\ DOMAIN rows = DOMAIN db.locations \ {l}
      /\ \A j \in DOMAIN rows : rows[j] = db.locations[j]
  BY DEF IsTable
<1>2. db' = [db EXCEPT !["locations"] = rows]
  BY DEF Inv, Faithful, Tables
<1> HIDE DEF rows
<1>3. /\ DOMAIN db' = Tables /\ db'.locations = rows /\ db'.businesses = db.businesses
      /\ db'.properties = db.properties /\ db'.residents = db.residents
  BY <1>2 DEF Inv, Faithful, Tables
<1>4. \A t \in Tables : IsTable(db'[t])
  BY <1>1, <1>3 DEF Inv, Faithful, Tables
<1>5. \A j \in DOMAIN rows : PlaceAs(f, pc', call', j, rows[j])
  BY <1>1, StillAs DEF Inv, Faithful
<1>6. Refer(db'.businesses, Placed, db'.locations) /\ Refer(db'.residents, Housed, db'.properties)
  BY <1>1, <1>3 DEF Inv, Faithful, Refer, Placed
<1>7. Faithful(f)'
  BY <1>3, <1>4, <1>5, <1>6, StillAs DEF Inv, Faithful
<1> QED
  BY <1>3, <1>7 DEF Grows

LEMMA PutBusiness ==
    ASSUME NEW f, Inv(f), Onward(pc, call, pc', call'), NEW b, NEW row,
           BusinessAs(f, pc', call', b, row), row.place \in DOMAIN db.locations,
           Upsert("businesses", Row(b, row))
    PROVE  Faithful(f)' /\ Grows
<1> DEFINE rows == With(db.businesses, Row(b, row))
<1>1. /\ IsTable(rows) /\ DOMAIN rows = DOMAIN db.businesses \cup {b} /\ rows[b] = row
      /\ \A j \in DOMAIN db.businesses \ {b} : rows[j] = db.businesses[j]
  BY DEF With, Row, IsTable
<1>2. db' = [db EXCEPT !["businesses"] = rows]
  BY DEF Upsert
<1> HIDE DEF rows
<1>3. /\ DOMAIN db' = Tables /\ db'.businesses = rows /\ db'.locations = db.locations
      /\ db'.properties = db.properties /\ db'.residents = db.residents
  BY <1>2 DEF Inv, Faithful, Tables
<1>4. \A t \in Tables : IsTable(db'[t])
  BY <1>1, <1>3 DEF Inv, Faithful, Tables
<1>5. \A j \in DOMAIN rows : BusinessAs(f, pc', call', j, rows[j])
  BY <1>1, StillAs DEF Inv, Faithful
<1>6. Refer(db'.businesses, Placed, db'.locations) /\ Refer(db'.residents, Housed, db'.properties)
  BY <1>1, <1>3 DEF Inv, Faithful, Refer, Placed
<1>7. Faithful(f)'
  BY <1>3, <1>4, <1>5, <1>6, StillAs DEF Inv, Faithful
<1> QED
  BY <1>1, <1>3, <1>7 DEF Grows

LEMMA PutHomes ==
    ASSUME NEW f, Inv(f), Onward(pc, call, pc', call'), NEW homesOf,
           \A h \in DOMAIN homesOf : HomeAs(f, pc', call', h, homesOf[h]),
           Upsert("properties", homesOf)
    PROVE  Faithful(f)' /\ Grows
<1> DEFINE rows == With(db.properties, homesOf)
<1>1. /\ IsTable(rows) /\ DOMAIN rows = DOMAIN homesOf \cup DOMAIN db.properties
      /\ \A h \in DOMAIN homesOf : rows[h] = homesOf[h]
      /\ \A h \in DOMAIN db.properties \ DOMAIN homesOf : rows[h] = db.properties[h]
  BY DEF With, IsTable
<1>2. db' = [db EXCEPT !["properties"] = rows]
  BY DEF Upsert
<1> HIDE DEF rows
<1>3. /\ DOMAIN db' = Tables /\ db'.properties = rows /\ db'.locations = db.locations
      /\ db'.businesses = db.businesses /\ db'.residents = db.residents
  BY <1>2 DEF Inv, Faithful, Tables
<1>4. \A t \in Tables : IsTable(db'[t])
  BY <1>1, <1>3 DEF Inv, Faithful, Tables
<1>5. \A h \in DOMAIN rows : HomeAs(f, pc', call', h, rows[h])
  BY <1>1, StillAs DEF Inv, Faithful
<1>6. Refer(db'.businesses, Placed, db'.locations) /\ Refer(db'.residents, Housed, db'.properties)
  BY <1>1, <1>3 DEF Inv, Faithful, Refer
<1>7. Faithful(f)'
  <2>1. \A l \in DOMAIN db'.locations : PlaceAs(f, pc', call', l, db'.locations[l])
    BY <1>3, StillAs DEF Inv, Faithful
  <2>2. \A b \in DOMAIN db'.businesses : BusinessAs(f, pc', call', b, db'.businesses[b])
    BY <1>3, StillAs DEF Inv, Faithful
  <2>3. \A i \in DOMAIN db'.residents : ResidentAs(f, pc', call', i, db'.residents[i])
    BY <1>3, StillAs DEF Inv, Faithful
  <2> QED
    BY <1>3, <1>4, <1>5, <1>6, <2>1, <2>2, <2>3 DEF Faithful
<1> QED
  BY <1>1, <1>3, <1>7 DEF Grows

LEMMA PutResidents ==
    ASSUME NEW f, Inv(f), Onward(pc, call, pc', call'), NEW people,
           \A i \in DOMAIN people : ResidentAs(f, pc', call', i, people[i]),
           Refer(people, Housed, db.properties), Upsert("residents", people)
    PROVE  Faithful(f)' /\ Grows
<1> DEFINE rows == With(db.residents, people)
<1>1. /\ IsTable(rows) /\ DOMAIN rows = DOMAIN people \cup DOMAIN db.residents
      /\ \A i \in DOMAIN people : rows[i] = people[i]
      /\ \A i \in DOMAIN db.residents \ DOMAIN people : rows[i] = db.residents[i]
  BY DEF With, IsTable
<1>2. db' = [db EXCEPT !["residents"] = rows]
  BY DEF Upsert
<1> HIDE DEF rows
<1>3. /\ DOMAIN db' = Tables /\ db'.residents = rows /\ db'.locations = db.locations
      /\ db'.businesses = db.businesses /\ db'.properties = db.properties
  BY <1>2 DEF Inv, Faithful, Tables
<1>4. \A t \in Tables : IsTable(db'[t])
  BY <1>1, <1>3 DEF Inv, Faithful, Tables
<1>5. \A i \in DOMAIN rows : ResidentAs(f, pc', call', i, rows[i])
  BY <1>1, StillAs DEF Inv, Faithful
<1>6. Refer(db'.businesses, Placed, db'.locations) /\ Refer(db'.residents, Housed, db'.properties)
  BY <1>1, <1>3 DEF Inv, Faithful, Refer, Housed
<1>7. Faithful(f)'
  BY <1>3, <1>4, <1>5, <1>6, StillAs DEF Inv, Faithful
<1> QED
  BY <1>1, <1>3, <1>7 DEF Grows

\* Every statement that is accepted leaves the tables faithful.
LEMMA TakesKeeps ==
    ASSUME NEW f, Inv(f), NEW q \in Requests, pc[q] \in Writing, Accepts(q), Takes(q),
           Onward(pc, call, pc', call'), call' = call, pc'[q] # "idle",
           pc[q] = "properties" => pc'[q] \in {"residents", "place"} \cup Ended,
           pc[q] = "business" /\ call[q].op = "register" => pc'[q] \in Ended
    PROVE  Faithful(f)' /\ Grows
<1> DEFINE c == call[q]
<1>1. /\ c \in Calls /\ OnRoad(c.op, pc[q]) /\ pc[q] # "idle"
      /\ KnowsBusiness(f, q) /\ KnowsHomes(f, q) /\ KnowsPlace(f, q)
  BY DEF Inv, Knows, Writing
<1>2. CASE pc[q] \in {"draw", "link"}
  <2> DEFINE row == IF pc[q] = "draw"
                    THEN New(q, NoRow, IF c.op = "create" THEN c.visibility ELSE "private")
                    ELSE New(q, q, "private")
  <2>1. Upsert("locations", Row(q, row))
    BY <1>2 DEF Takes
  <2>2. c.op \in Registering
    BY <1>1, <1>2 DEF OnRoad, Ended, OfBusiness, OfHome, Registering
  <2>3. PlaceAs(f, pc', call', q, row)
    BY <1>1, <2>2 DEF PlaceAs, New, Location, Visibilities, Ids
  <2> HIDE DEF row
  <2> QED
    BY <2>1, <2>3, PutPlace
<1>3. CASE pc[q] = "place"
  <2> DEFINE row == Owned(q, place[q])
  <2>1. Upsert("locations", Row(PlaceOf(q), row))
    BY <1>3 DEF Takes
  <2>2. PlaceAs(f, pc, call, PlaceOf(q), place[q])
    BY <1>1, <1>3 DEF KnowsPlace
  <2>3. /\ row \in Location
        /\ place[q].owner # NoPerson => row.owner = place[q].owner
    BY <1>1, <2>2 DEF Owned, PlaceAs, Location
  <2> HIDE DEF row
  <2>4. PlaceAs(f, pc, call, PlaceOf(q), row)
    BY <2>2, <2>3 DEF PlaceAs, Inv, Knows
  <2>5. PlaceAs(f, pc', call', PlaceOf(q), row)
    BY <2>4, StillAs
  <2> QED
    BY <2>1, <2>5, PutPlace
<1>4. CASE pc[q] = "remove"
  BY <1>4, RemovePlace DEF Takes, Accepts
<1>5. CASE pc[q] = "business"
  <2>1. profile[q].place \in DOMAIN db.locations
    BY <1>5 DEF Accepts
  <2>2. CASE c.op = "register"
    <3>1. Upsert("businesses", Row(q, profile[q]))
      BY <1>5, <2>2 DEF Takes, BusinessOf
    <3>2. BusinessAs(f, pc', call', q, profile[q])
      BY <1>1, <1>5, <2>2 DEF KnowsBusiness, BusinessAs, BusinessProfile, Statuses, Ids
    <3> QED
      BY <2>1, <3>1, <3>2, PutBusiness
  <2>3. CASE c.op # "register"
    <3>1. Upsert("businesses", Row(c.row, profile[q]))
      BY <1>5, <2>3 DEF Takes, BusinessOf
    <3>2. BusinessAs(f, pc, call, c.row, profile[q])
      BY <1>1, <1>5, <2>3 DEF KnowsBusiness, Busy, OnRoad, Ended, OfHome
    <3>3. BusinessAs(f, pc', call', c.row, profile[q])
      BY <3>2, StillAs
    <3> QED
      BY <2>1, <3>1, <3>3, PutBusiness
  <2> QED
    BY <2>2, <2>3
<1>6. CASE pc[q] = "properties"
  <2>1. Upsert("properties", homes[q].properties)
    BY <1>6 DEF Takes
  <2>2. HoldsHomes(q)
    BY <1>1, <1>6 DEF HoldsHomes, OnRoad, Ended, OfBusiness, OfHome
  <2>3. \A h \in DOMAIN homes[q].properties : HomeAs(f, pc', call', h, homes[q].properties[h])
    <3> SUFFICES ASSUME NEW h \in DOMAIN homes[q].properties
                 PROVE  HomeAs(f, pc', call', h, homes[q].properties[h])
      OBVIOUS
    <3>1. CASE HomeAs(f, pc, call, h, homes[q].properties[h])
      BY <3>1, StillAs
    <3>2. CASE NewHome(call, q, h, homes[q].properties[h])
      BY <1>6, <3>2 DEF NewHome, HomeAs
    <3> QED
      BY <1>1, <2>2, <3>1, <3>2 DEF KnowsHomes
  <2> QED
    BY <2>1, <2>3, PutHomes
<1>7. CASE pc[q] = "residents"
  <2>1. Upsert("residents", homes[q].residents)
    BY <1>7 DEF Takes
  <2>2. HoldsHomes(q)
    BY <1>1, <1>7 DEF HoldsHomes, OnRoad, Ended, OfBusiness, OfHome
  <2>3. \A i \in DOMAIN homes[q].residents : ResidentAs(f, pc', call', i, homes[q].residents[i])
    BY <1>1, <2>2, StillAs DEF KnowsHomes
  <2>4. Refer(homes[q].residents, Housed, db.properties)
    BY <1>7 DEF Accepts
  <2> QED
    BY <2>1, <2>3, <2>4, PutResidents
<1> QED
  BY <1>2, <1>3, <1>4, <1>5, <1>6, <1>7 DEF Writing

LEMMA CarryHomes ==
    ASSUME NEW f, NEW q \in Requests, KnowsHomes(f, q), homes'[q] = homes[q], call'[q] = call[q],
           Grows, Onward(pc, call, pc', call'),
           HoldsHomes(q)' <=> HoldsHomes(q),
           call[q].op \in OfHome => pc'[q] # "load"
    PROVE  KnowsHomes(f, q)'
BY StillAs DEF KnowsHomes, NewHome, Grows

\* What a request goes on with after a statement, and what it does not.
LEMMA Proceeding ==
    ASSUME NEW f, Inv(f), NEW q \in Requests, pc[q] \in Writing, After(q) \/ Fails(q)
    PROVE  /\ call' = call /\ pc'[q] # "idle"
           /\ \A r \in Requests \ {q} : Same(r)
           /\ Typed' <=> calm' \in BOOLEAN
           /\ Onward(pc, call, pc', call')
           /\ pc[q] = "properties" => pc'[q] = "residents"
           /\ pc[q] = "business" /\ call[q].op = "register" => pc'[q] \in Ended
           /\ Grows => Knows(f, q)'
<1> DEFINE c == call[q]
<1>1. /\ c \in Calls /\ OnRoad(c.op, pc[q]) /\ pc[q] # "idle"
      /\ KnowsBusiness(f, q) /\ KnowsHomes(f, q) /\ KnowsPlace(f, q)
  BY DEF Inv, Knows, Writing
<1>2. CASE \E a \in Ended : End(q, a) /\ pc[q] # "properties"
  <2>1. PICK a \in Ended : End(q, a)
    BY <1>2
  <2>2. /\ pc'[q] \in Ended /\ call' = call /\ \A r \in Requests \ {q} : Same(r)
        /\ Typed' <=> calm' \in BOOLEAN
        /\ Onward(pc, call, pc', call') /\ Knows(f, q)'
    BY <1>1, <2>1, Ending
  <2> QED
    BY <1>2, <2>2 DEF Ended
<1>3. ASSUME NEW step \in {"link", "load", "fetch", "residents"}, Go(q, step),
             UNCHANGED <<profile, place, homes>>, failed' \in [Requests -> BOOLEAN],
             \A r \in Requests \ {q} : failed'[r] = failed[r],
             step = "link" => pc[q] = "draw" /\ c.op = "register",
             step = "load" => pc[q] = "draw" /\ c.op = "home",
             step = "fetch" => \/ pc[q] = "business" /\ c.op # "register"
                               \/ pc[q] = "residents" /\ c.op = "editHome",
             step = "residents" => pc[q] = "properties"
      PROVE  /\ call' = call /\ pc'[q] # "idle"
             /\ \A r \in Requests \ {q} : Same(r)
             /\ Typed' <=> calm' \in BOOLEAN
             /\ Onward(pc, call, pc', call')
             /\ pc[q] = "properties" => pc'[q] = "residents"
             /\ pc[q] = "business" /\ call[q].op = "register" => pc'[q] \in Ended
             /\ Grows => Knows(f, q)'
  <2>1. /\ pc'[q] = step /\ call' = call
        /\ Onward(pc, call, pc', call') /\ \A r \in Requests \ {q} : pc'[r] = pc[r]
        /\ pc' \in [Requests -> Reading \cup Writing \cup Ended \cup {"idle"}]
    BY <1>1, <1>3, Going DEF Reading, Writing
  <2>2. \A r \in Requests \ {q} : Same(r)
    BY <1>3, <2>1 DEF Same
  <2>3. Typed' <=> calm' \in BOOLEAN
    BY <1>3, <2>1 DEF Inv, Typed
  <2>4. ASSUME Grows PROVE Knows(f, q)'
    <3>1. HoldsHomes(q)' <=> HoldsHomes(q)
      BY <1>1, <1>3, <2>1 DEF HoldsHomes, OnRoad, OfHome, OfBusiness, Ended
    <3>2. KnowsHomes(f, q)'
      BY <1>1, <1>3, <2>1, <2>4, <3>1, CarryHomes DEF OfHome
    <3>3. KnowsPlace(f, q)'
      BY <1>3, <2>1 DEF KnowsPlace
    <3>4. KnowsBusiness(f, q)'
      <4>1. CASE step = "fetch" /\ pc[q] = "business"
        <5>1. /\ Busy(q) /\ c.row \in DOMAIN db.businesses
              /\ BusinessAs(f, pc, call, c.row, profile[q])
              /\ c.op = "review" => c.who \in Staff
              /\ c.op = "submit" => profile[q].status = "pending_review"
          BY <1>1, <1>3, <4>1 DEF KnowsBusiness, Busy, OnRoad, Ended, OfHome
        <5>2. BusinessAs(f, pc', call', c.row, profile[q])
          BY <2>1, <5>1, StillAs
        <5> QED
          BY <1>3, <2>1, <2>4, <4>1, <5>1, <5>2 DEF KnowsBusiness, Busy, Grows
      <4>2. CASE ~(step = "fetch" /\ pc[q] = "business")
        BY <1>3, <2>1, <4>2 DEF KnowsBusiness, Busy, OfBusiness
      <4> QED
        BY <4>1, <4>2
    <3>5. OnRoad(c.op, step)
      BY <1>1, <1>3 DEF OnRoad, Ended, OfHome, OfBusiness
    <3> QED
      BY <1>1, <1>3, <2>1, <3>2, <3>3, <3>4, <3>5 DEF Knows
  <2> QED
    BY <1>3, <2>1, <2>2, <2>3, <2>4
<1>4. CASE /\ pc[q] = "link" /\ Go(q, "business") /\ UNCHANGED <<place, homes, failed>>
           /\ profile' = [profile EXCEPT ![q] = [owner |-> c.who, place |-> q, status |-> "draft"]]
  <2>1. /\ pc'[q] = "business" /\ call' = call
        /\ Onward(pc, call, pc', call') /\ \A r \in Requests \ {q} : pc'[r] = pc[r]
        /\ pc' \in [Requests -> Reading \cup Writing \cup Ended \cup {"idle"}]
    BY <1>1, <1>4, Going DEF Reading, Writing
  <2>2. c.op = "register"
    BY <1>1, <1>4 DEF OnRoad, Ended, OfHome, OfBusiness
  <2>3. [owner |-> c.who, place |-> q, status |-> "draft"] \in BusinessProfile
    BY <1>1 DEF BusinessProfile, Statuses, Ids
  <2>4. /\ profile' \in [Requests -> BusinessProfile \cup {NoRow}]
        /\ profile'[q] = [owner |-> c.who, place |-> q, status |-> "draft"]
        /\ \A r \in Requests \ {q} : profile'[r] = profile[r]
    BY <1>4, <2>3 DEF Inv, Typed
  <2>5. (Typed' <=> calm' \in BOOLEAN) /\ \A r \in Requests \ {q} : Same(r)
    BY <1>4, <2>1, <2>4 DEF Inv, Typed, Same
  <2>6. ASSUME Grows PROVE Knows(f, q)'
    <3>1. KnowsHomes(f, q)'
      BY <1>1, <1>4, <2>1, <2>2, <2>6, CarryHomes DEF HoldsHomes, OfHome
    <3>2. KnowsBusiness(f, q)' /\ KnowsPlace(f, q)'
      BY <2>1, <2>2, <2>4 DEF KnowsBusiness, Busy, KnowsPlace, OfBusiness
    <3> QED
      BY <1>1, <2>1, <2>2, <3>1, <3>2 DEF Knows, OnRoad
  <2> QED
    BY <1>4, <2>1, <2>5, <2>6
<1>5. CASE /\ pc[q] = "residents" /\ c.op = "home" /\ Go(q, "place")
           /\ place' = [place EXCEPT ![q] = New(q, NoRow, Offered(c.offer))]
           /\ UNCHANGED <<profile, homes, failed>>
  <2>1. /\ pc'[q] = "place" /\ call' = call
        /\ Onward(pc, call, pc', call') /\ \A r \in Requests \ {q} : pc'[r] = pc[r]
        /\ pc' \in [Requests -> Reading \cup Writing \cup Ended \cup {"idle"}]
    BY <1>1, <1>5, Going DEF Reading, Writing
  <2> DEFINE row == New(q, NoRow, Offered(c.offer))
  <2>2. row \in Location /\ row.owner = c.who
    BY <1>1 DEF New, Location, Offered, Visibilities, Ids
  <2> HIDE DEF row
  <2>3. /\ place' \in [Requests -> Location \cup {NoRow}] /\ place'[q] = row
        /\ \A r \in Requests \ {q} : place'[r] = place[r]
    BY <1>5, <2>2 DEF Inv, Typed, row
  <2>4. (Typed' <=> calm' \in BOOLEAN) /\ \A r \in Requests \ {q} : Same(r)
    BY <1>5, <2>1, <2>3 DEF Inv, Typed, Same
  <2>5. PlaceOf(q)' = q
    BY <1>5, <2>1 DEF PlaceOf, Registering, OfBusiness, OfHome, OfPlace
  <2>6. PlaceAs(f, pc', call', q, row)
    BY <1>5, <2>1, <2>2 DEF PlaceAs, Registering
  <2>7. ASSUME Grows PROVE Knows(f, q)'
    <3>1. KnowsHomes(f, q)'
      BY <1>1, <1>5, <2>1, <2>7, CarryHomes DEF HoldsHomes, OfHome
    <3>2. KnowsPlace(f, q)'
      BY <2>3, <2>5, <2>6 DEF KnowsPlace
    <3>3. KnowsBusiness(f, q)'
      BY <1>5, <2>1 DEF KnowsBusiness, Busy, OfBusiness
    <3> QED
      BY <1>1, <1>5, <2>1, <3>1, <3>2, <3>3 DEF Knows, OnRoad
  <2> QED
    BY <1>5, <2>1, <2>4, <2>7
<1>6. CASE After(q)
  <2>1. failed \in [Requests -> BOOLEAN]
    BY DEF Inv, Typed
  <2> USE <1>6, <2>1 DEF After, held
  <2>2. CASE pc[q] = "draw" /\ c.op = "register"
    BY <1>3, <2>2
  <2>3. CASE pc[q] = "draw" /\ c.op = "home"
    BY <1>3, <2>3
  <2>4. CASE pc[q] = "link"
    BY <1>4, <2>4
  <2>5. CASE pc[q] = "business" /\ c.op # "register"
    BY <1>3, <2>5
  <2>6. CASE pc[q] = "properties"
    BY <1>3, <2>6
  <2>7. CASE pc[q] = "residents" /\ ~failed[q] /\ c.op = "editHome"
    BY <1>3, <2>7
  <2>8. CASE pc[q] = "residents" /\ ~failed[q] /\ c.op = "home"
    BY <1>5, <2>8
  <2>9. CASE pc[q] = "residents" /\ failed[q]
    <3>1. End(q, "error")
      BY <2>9
    <3> QED
      BY <1>2, <2>9, <3>1 DEF Ended
  <2>10. CASE ~ \/ pc[q] = "draw" /\ c.op \in {"register", "home"}
                \/ pc[q] \in {"link", "properties"}
                \/ pc[q] = "business" /\ c.op # "register"
                \/ pc[q] = "residents" /\ (failed[q] \/ c.op \in {"editHome", "home"})
    <3>1. End(q, "ok")
      BY <2>10
    <3> QED
      BY <1>2, <2>10, <3>1 DEF Ended
  <2> QED
    BY <2>2, <2>3, <2>4, <2>5, <2>6, <2>7, <2>8, <2>9, <2>10
<1>7. CASE Fails(q) /\ pc[q] = "properties"
  <2>1. /\ Go(q, "residents") /\ UNCHANGED <<profile, place, homes>>
        /\ failed' \in [Requests -> BOOLEAN] /\ \A r \in Requests \ {q} : failed'[r] = failed[r]
    BY <1>7 DEF Fails, Inv, Typed
  <2> QED
    BY <1>3, <1>7, <2>1
<1>8. CASE Fails(q) /\ pc[q] # "properties"
  <2>1. End(q, "error")
    BY <1>8 DEF Fails
  <2> QED
    BY <1>2, <1>8, <2>1 DEF Ended
<1> QED
  BY <1>6, <1>7, <1>8

LEMMA WriteStep ==
    ASSUME NEW f, Inv(f), NEW q \in Requests, Commit(q) \/ Refuse(q) \/ FailWrite(q)
    PROVE  Inv(f)' /\ Grows
<1>1. /\ pc[q] \in Writing /\ calm' \in BOOLEAN /\ (After(q) \/ Fails(q))
      /\ UNCHANGED db \/ (Accepts(q) /\ Takes(q))
  BY DEF Commit, Refuse, FailWrite, Inv, Typed
<1>2. /\ call' = call /\ pc'[q] # "idle"
      /\ \A r \in Requests \ {q} : Same(r)
      /\ Typed' /\ Onward(pc, call, pc', call')
      /\ pc[q] = "properties" => pc'[q] = "residents"
      /\ pc[q] = "business" /\ call[q].op = "register" => pc'[q] \in Ended
      /\ Grows => Knows(f, q)'
  BY <1>1, Proceeding
<1>3. CASE UNCHANGED db
  <2>1. Grows
    BY <1>3 DEF Grows
  <2> QED
    BY <1>2, <1>3, <2>1, QuietRequest
<1>4. CASE Accepts(q) /\ Takes(q)
  <2>1. Faithful(f)' /\ Grows
    BY <1>1, <1>2, <1>4, TakesKeeps
  <2> QED
    BY <1>2, <2>1, OneRequest
<1> QED
  BY <1>1, <1>3, <1>4

\* Every step keeps the invariant.
LEMMA NextInv ==
    ASSUME NEW f \in FirstStores, Inv(f), [Next]_vars
    PROVE  Inv(f)' /\ Grows
<1>1. ASSUME NEW q \in Requests, NEW c \in Calls, Start(q, c)
      PROVE  Inv(f)' /\ Grows
  BY <1>1, StartStep DEF Grows
<1>2. ASSUME NEW q \in Requests, Select(q)
      PROVE  Inv(f)' /\ Grows
  <2>1. UNCHANGED <<db, calm>>
    BY <1>2 DEF Select
  <2>2. Grows
    BY <2>1 DEF Grows
  <2> QED
    BY <1>2, <2>1, <2>2, ReadBusinessStep, SettleHomesStep, FetchPlaceStep, ReadPlaceStep,
       ReadHomesStep DEF Select
<1>3. ASSUME NEW q \in Requests, FailSelect(q)
      PROVE  Inv(f)' /\ Grows
  BY <1>3, FailSelectStep DEF Grows
<1>4. ASSUME NEW q \in Requests, Commit(q) \/ Refuse(q) \/ FailWrite(q)
      PROVE  Inv(f)' /\ Grows
  BY <1>4, WriteStep
<1>5. ASSUME NEW q \in Requests, Crash(q)
      PROVE  Inv(f)' /\ Grows
  <2>1. pc[q] # "idle" /\ End(q, "lost") /\ calm' = FALSE /\ UNCHANGED db
    BY <1>5 DEF Crash, InFlight, Reading, Writing
  <2> QED
    BY <2>1, QuietEnd DEF Grows, Ended
<1>6. CASE UNCHANGED vars
  <2>1. UNCHANGED <<db, pc, call, profile, place, homes, failed, calm>>
    BY <1>6 DEF vars, held
  <2>2. \A q \in Requests : Knows(f, q)'
    <3>1. Grows /\ Onward(pc, call, pc', call') /\ \A q \in Requests : Same(q)
      BY <2>1 DEF Grows, Onward, Same
    <3> QED
      BY <3>1, OthersKnow DEF Inv
  <2>3. Typed' /\ Faithful(f)'
    BY <2>1 DEF Inv, Typed, Faithful
  <2> QED
    BY <2>1, <2>2, <2>3 DEF Inv, Grows
<1>7. Inv(f)' /\ Grows
  BY <1>1, <1>2, <1>3, <1>4, <1>5, <1>6 DEF Next
<1> QED
  BY <1>7

LEMMA CallsStand ==
    ASSUME Typed, [Next]_vars, NEW r \in Requests, pc[r] # "idle"
    PROVE  call'[r] = call[r]
<1>1. ASSUME NEW q \in Requests, NEW c \in Calls, Start(q, c)
      PROVE  call'[r] = call[r]
  BY <1>1 DEF Start, Typed
<1>2. ASSUME NEW q \in Requests, Select(q) \/ FailSelect(q)
      PROVE  call'[r] = call[r]
  <2>1. CASE ReadBusiness(q) \/ FetchPlace(q) \/ ReadPlace(q)
    BY <2>1 DEF ReadBusiness, FetchPlace, ReadPlace, End, Go
  <2>2. CASE FailSelect(q) \/ \E t \in {"properties", "residents"} : ReadHomes(q, t)
    BY <2>2 DEF FailSelect, ReadHomes, End, Go
  <2>3. CASE SettleHomes(q)
    <3>1. pc[q] = "check" \/ call[q].op \in {"home", "editHome", "addResident"}
      BY <2>3 DEF SettleHomes, ReadsHomes, OfHome
    <3>2. CASE pc[q] = "check"
      BY <2>3, <3>2 DEF SettleHomes, End, Go
    <3>3. CASE pc[q] # "check" /\ call[q].op = "home"
      BY <2>3, <3>3 DEF SettleHomes, Go
    <3>4. CASE pc[q] # "check" /\ call[q].op = "editHome"
      BY <2>3, <3>4 DEF SettleHomes, Go
    <3>5. CASE pc[q] # "check" /\ call[q].op = "addResident"
      BY <2>3, <3>5 DEF SettleHomes, End, Go
    <3> QED
      BY <3>1, <3>2, <3>3, <3>4, <3>5
  <2> QED
    BY <1>2, <2>1, <2>2, <2>3 DEF Select
<1>3. ASSUME NEW q \in Requests, Commit(q) \/ Refuse(q) \/ FailWrite(q) \/ Crash(q)
      PROVE  call'[r] = call[r]
  BY <1>3 DEF Commit, Refuse, FailWrite, Crash, After, Fails, End, Go
<1>4. CASE UNCHANGED vars
  BY <1>4 DEF vars
<1> QED
  BY <1>1, <1>2, <1>3, <1>4 DEF Next

Invariant == \E f \in FirstStores : Inv(f)

\* Every row of every table, and everything a request has read and is about to
\* write back, is what the first store or the call that made it says, and the
\* steps of each request lead through the checks that its call requires.
THEOREM PlacesInvariant == Spec => []Invariant
<1>1. Init => Invariant
  BY InitInv DEF Invariant
<1>2. Invariant /\ [Next]_vars => Invariant'
  BY NextInv DEF Invariant
<1> QED
  BY <1>1, <1>2, PTL DEF Spec

\* The tables hold what their columns and foreign keys allow.
THEOREM PlacesTypes == Spec => []TypeOK
<1>1. Invariant => TypeOK
  <2> SUFFICES ASSUME NEW f \in FirstStores, Inv(f) PROVE TypeOK
    BY DEF Invariant
  <2>1. WellFormed(db)
    <3>1. /\ \A l \in DOMAIN db.locations : db.locations[l] \in Location
          /\ \A b \in DOMAIN db.businesses : db.businesses[b] \in BusinessProfile
          /\ \A h \in DOMAIN db.properties : db.properties[h] \in Property
          /\ \A i \in DOMAIN db.residents : db.residents[i] \in PropertyMembership
      BY DEF Inv, Faithful, PlaceAs, BusinessAs, HomeAs, ResidentAs
    <3>2. DOMAIN db = Tables /\ \A t \in Tables : IsTable(db[t])
      BY DEF Inv, Faithful
    <3> QED
      BY <3>1, <3>2 DEF WellFormed, IsTable, Tables
  <2> QED
    BY <2>1 DEF Inv, Typed, Faithful, TypeOK, Ended
<1> QED
  BY <1>1, PlacesInvariant, PTL

\* No snapshot written back takes a home or a resident away, or gives a
\* business, a home or a place to another person.
THEOREM PlacesOwners == Spec => OwnersArePermanent
<1>1. ASSUME Invariant, [Next]_vars
      PROVE  /\ \A t \in {"businesses", "properties", "residents"} :
                   DOMAIN db[t] \subseteq DOMAIN db'[t]
             /\ \A b \in DOMAIN db.businesses : db'.businesses[b].owner = db.businesses[b].owner
             /\ \A h \in DOMAIN db.properties : db'.properties[h].by = db.properties[h].by
             /\ \A r \in DOMAIN db.residents : db'.residents[r] = db.residents[r]
             /\ \A l \in (DOMAIN db.locations \cap DOMAIN db'.locations) \ Unowned :
                   db'.locations[l].owner = db.locations[l].owner
  <2>1. PICK f \in FirstStores : Inv(f)
    BY <1>1 DEF Invariant
  <2>2. Inv(f)' /\ Grows
    BY <1>1, <2>1, NextInv
  <2>3. \A r \in Requests : pc[r] # "idle" => call'[r] = call[r]
    BY <1>1, <2>1, CallsStand DEF Inv
  <2>4. Faithful(f) /\ Faithful(f)'
    BY <2>1, <2>2 DEF Inv
  <2>5. ASSUME NEW b \in DOMAIN db.businesses
        PROVE  db'.businesses[b].owner = db.businesses[b].owner
    <3>1. /\ BusinessAs(f, pc, call, b, db.businesses[b])
          /\ BusinessAs(f, pc', call', b, db'.businesses[b])
      BY <2>2, <2>4 DEF Faithful, Grows
    <3> QED
      BY <2>3, <3>1 DEF BusinessAs, Ended
  <2>6. ASSUME NEW h \in DOMAIN db.properties
        PROVE  db'.properties[h].by = db.properties[h].by
    <3>1. /\ HomeAs(f, pc, call, h, db.properties[h])
          /\ HomeAs(f, pc', call', h, db'.properties[h])
      BY <2>2, <2>4 DEF Faithful, Grows
    <3> QED
      BY <2>3, <3>1 DEF HomeAs, Ended
  <2>7. ASSUME NEW i \in DOMAIN db.residents
        PROVE  db'.residents[i] = db.residents[i]
    <3>1. /\ ResidentAs(f, pc, call, i, db.residents[i])
          /\ ResidentAs(f, pc', call', i, db'.residents[i])
      BY <2>2, <2>4 DEF Faithful, Grows
    <3> QED
      BY <2>3, <3>1 DEF ResidentAs
  <2>8. ASSUME NEW l \in (DOMAIN db.locations \cap DOMAIN db'.locations) \ Unowned
        PROVE  db'.locations[l].owner = db.locations[l].owner
    <3>1. /\ PlaceAs(f, pc, call, l, db.locations[l])
          /\ PlaceAs(f, pc', call', l, db'.locations[l])
      BY <2>4 DEF Faithful
    <3> QED
      BY <2>3, <3>1 DEF PlaceAs, Unowned
  <2> QED
    BY <2>2, <2>5, <2>6, <2>7, <2>8 DEF Grows
<1>2. Invariant /\ [Next]_vars =>
         [/\ \A t \in {"businesses", "properties", "residents"} :
                   DOMAIN db[t] \subseteq DOMAIN db'[t]
          /\ \A b \in DOMAIN db.businesses : db'.businesses[b].owner = db.businesses[b].owner
          /\ \A h \in DOMAIN db.properties : db'.properties[h].by = db.properties[h].by
          /\ \A r \in DOMAIN db.residents : db'.residents[r] = db.residents[r]
          /\ \A l \in (DOMAIN db.locations \cap DOMAIN db'.locations) \ Unowned :
                   db'.locations[l].owner = db.locations[l].owner]_db
  BY <1>1
<1> QED
  BY <1>2, PlacesInvariant, PTL DEF Spec, OwnersArePermanent

\* Only a commit, or a statement whose answer is lost, changes the tables.
LEMMA OnlyStatementsWrite ==
    ASSUME [Next]_vars
    PROVE  \/ UNCHANGED db
           \/ \E q \in Requests : pc[q] \in Writing /\ Accepts(q) /\ Takes(q)
BY DEF Next, vars, Start, Select, FailSelect, Commit, Refuse, FailWrite, Crash

\* A business is published by a review of the staff, or by an edit that had read
\* it as published.
THEOREM PlacesPublished == Spec => PublishedByReview
<1> DEFINE Reviewed(b, q) ==
              /\ pc[q] = "business" /\ call[q].op \in OfBusiness /\ call[q].row = b
              /\ \/ call[q].op = "review" /\ call[q].who \in Staff
                 \/ call[q].op = "edit" /\ profile[q].status = "published"
           Step == \A b \in DOMAIN db'.businesses :
                      StatusOf(b, db) # "published" /\ StatusOf(b, db') = "published" =>
                         \E q \in Requests : Reviewed(b, q)
<1>1. ASSUME Invariant, [Next]_vars,
             NEW b \in DOMAIN db'.businesses, StatusOf(b, db) # "published",
             StatusOf(b, db') = "published"
      PROVE  \E q \in Requests : Reviewed(b, q)
  <2>1. PICK f \in FirstStores : Inv(f)
    BY <1>1 DEF Invariant
  <2>2. ~ UNCHANGED db
    BY <1>1 DEF StatusOf
  <2>3. PICK q \in Requests : pc[q] \in Writing /\ Accepts(q) /\ Takes(q)
    BY <1>1, <2>2, OnlyStatementsWrite
  <2>4. call[q] \in Calls /\ OnRoad(call[q].op, pc[q]) /\ KnowsBusiness(f, q) /\ DOMAIN db = Tables
    BY <2>1, <2>3 DEF Inv, Knows, Writing, Faithful
  <2>5. db'.businesses # db.businesses
    BY <1>1 DEF StatusOf
  <2>6. pc[q] = "business"
    BY <2>3, <2>4, <2>5 DEF Takes, Upsert, Writing, Tables
  <2> DEFINE k == IF call[q].op = "register" THEN q ELSE call[q].row
             rows == With(db.businesses, Row(k, profile[q]))
  <2>7. db' = [db EXCEPT !["businesses"] = rows]
    BY <2>3, <2>6 DEF Takes, Upsert, BusinessOf
  <2>8. /\ DOMAIN rows = DOMAIN db.businesses \cup {k} /\ rows[k] = profile[q]
        /\ \A j \in DOMAIN db.businesses \ {k} : rows[j] = db.businesses[j]
    BY DEF With, Row
  <2> HIDE DEF rows, k
  <2>9. db'.businesses = rows
    BY <2>4, <2>7 DEF Tables
  <2>10. b = k /\ profile[q].status = "published"
    BY <1>1, <2>8, <2>9 DEF StatusOf
  <2>11. call[q].op # "register" /\ call[q].op # "submit"
    BY <2>4, <2>6, <2>10 DEF KnowsBusiness, Busy, OfBusiness
  <2>12. call[q].op \in {"edit", "review"}
    BY <2>4, <2>6, <2>11 DEF OnRoad, Ended, OfBusiness, OfHome
  <2>13. call[q].op = "review" => call[q].who \in Staff
    BY <2>4, <2>6 DEF KnowsBusiness, Busy, OfBusiness
  <2>14. call[q].row = b
    BY <2>10, <2>11 DEF k
  <2> QED
    BY <2>6, <2>10, <2>12, <2>13, <2>14 DEF OfBusiness
<1>2. Invariant /\ [Next]_vars => [Step]_db
  BY <1>1
<1> QED
  BY <1>2, PlacesInvariant, PTL DEF Spec, PublishedByReview

-----------------------------------------------------------------------------
(* Requests one after the other.                                           *)

Alone == \A q, r \in InFlight : q = r

\* What a request has begun to change and has yet to show on the map.
MendsBusiness(q, b) ==
    pc[q] \in {"fetch", "place"} /\ call[q].op \in OfBusiness /\ call[q].row = b

MendsHome(q, h) ==
    \/ pc[q] \in {"residents", "place"} /\ call[q].op = "home" /\ h = q
    \/ pc[q] \in {"residents", "fetch", "place"} /\ call[q].op = "editHome" /\ h = call[q].row

Shown ==
    /\ \A b \in DOMAIN db.businesses :
          /\ db.locations[db.businesses[b].place].business = b
          /\ \/ \E q \in Requests : MendsBusiness(q, b)
             \/ db.locations[db.businesses[b].place].visibility = Published(db.businesses[b].status)
    /\ Refer(db.properties, Placed, db.locations)
    /\ \A h \in DOMAIN db.properties :
          \/ \E q \in Requests : MendsHome(q, h)
          \/ db.locations[db.properties[h].place].visibility = Offered(db.properties[h].offer)

FreshBusiness(q) ==
    /\ pc[q] = "business" /\ call[q].op = "register" =>
          /\ q \in DOMAIN db.locations
          /\ db.locations[q].business = q /\ db.locations[q].visibility = "private"
    /\ pc[q] \in {"fetch", "place"} /\ call[q].op \in OfBusiness =>
          profile[q] = db.businesses[call[q].row]
    /\ pc[q] = "place" /\ call[q].op \in OfBusiness =>
          /\ place[q].business = call[q].row
          /\ place[q].visibility = Published(profile[q].status)

\* The home whose offer a request sets.
Subject(q, h) == \/ call[q].op = "home" /\ h = q
                 \/ call[q].op = "editHome" /\ h = call[q].row

FreshHomes(q) ==
    /\ call[q].op = "home" /\ pc[q] # "draw" => q \in DOMAIN db.locations
    /\ pc[q] \in {"draw", "check", "load"} /\ homes[q].properties # Unread =>
          homes[q].properties = db.properties
    /\ HoldsHomes(q) =>
          /\ call[q].op = "home" => q \in DOMAIN homes[q].properties
                                    /\ homes[q].properties[q].offer = call[q].offer
          /\ \A h \in DOMAIN homes[q].properties :
                \/ pc[q] = "properties" /\ Subject(q, h)
                \/ h \in DOMAIN db.properties /\ homes[q].properties[h] = db.properties[h]
    /\ pc[q] = "place" /\ call[q].op \in {"home", "editHome"} =>
          \A h \in DOMAIN db.properties :
             Subject(q, h) => place[q].visibility = Offered(db.properties[h].offer)

Fresh(q) == call[q].op \notin OfPlace /\ FreshBusiness(q) /\ FreshHomes(q)

Calm == calm => /\ Alone /\ Shown /\ \A q \in Requests : ~failed[q]
                /\ \A q \in InFlight : Fresh(q)

LEMMA TakesIn ==
    ASSUME DOMAIN db = Tables, NEW t \in Tables, NEW rows, Upsert(t, rows)
    PROVE  /\ DOMAIN db'[t] = DOMAIN rows \cup DOMAIN db[t]
           /\ \A i \in DOMAIN rows : db'[t][i] = rows[i]
           /\ \A i \in DOMAIN db[t] \ DOMAIN rows : db'[t][i] = db[t][i]
           /\ \A u \in Tables \ {t} : db'[u] = db[u]
<1> DEFINE new == With(db[t], rows)
<1>1. /\ DOMAIN new = DOMAIN rows \cup DOMAIN db[t]
      /\ \A i \in DOMAIN rows : new[i] = rows[i]
      /\ \A i \in DOMAIN db[t] \ DOMAIN rows : new[i] = db[t][i]
  BY DEF With
<1>2. db' = [db EXCEPT ![t] = new]
  BY DEF Upsert
<1> HIDE DEF new
<1>3. db'[t] = new /\ \A u \in Tables \ {t} : db'[u] = db[u]
  BY <1>2
<1> QED
  BY <1>1, <1>3

\* One row of one table.
LEMMA TakesRow ==
    ASSUME DOMAIN db = Tables, NEW t \in Tables, NEW l, NEW row, Upsert(t, Row(l, row))
    PROVE  /\ DOMAIN db'[t] = {l} \cup DOMAIN db[t]
           /\ db'[t][l] = row
           /\ \A i \in DOMAIN db[t] \ {l} : db'[t][i] = db[t][i]
           /\ \A u \in Tables \ {t} : db'[u] = db[u]
<1> DEFINE rows == Row(l, row)
<1>1. DOMAIN rows = {l} /\ rows[l] = row
  BY DEF Row
<1> HIDE DEF rows
<1>2. Upsert(t, rows)
  BY DEF rows
<1> QED
  BY <1>1, <1>2, TakesIn

\* Places stay apart, and those of new rows are new.
LEMMA StayApart ==
    ASSUME NEW f \in FirstStores, Apart(f), Inv(f)
    PROVE  /\ Apart(db)
           /\ \A b \in DOMAIN db.businesses :
                 db.businesses[b].place \in Requests =>
                    /\ b = db.businesses[b].place
                    /\ pc[b] \in Ended /\ call[b].op = "register"
           /\ \A h \in DOMAIN db.properties :
                 db.properties[h].place \in Requests =>
                    /\ h = db.properties[h].place /\ call[h].op = "home"
                    /\ pc[h] \in Ended \cup {"residents", "place"}
<1>1. /\ \A b \in DOMAIN db.businesses : BusinessAs(f, pc, call, b, db.businesses[b])
      /\ \A h \in DOMAIN db.properties : HomeAs(f, pc, call, h, db.properties[h])
  BY DEF Inv, Faithful
<1>2. \A b \in DOMAIN f.businesses : f.businesses[b].place \in Seeded
  BY SeedAssumption DEF Refer, Placed, Tables
<1>3. \A h \in DOMAIN f.properties : f.properties[h].place \in Seeded
  BY SeedAssumption
<1>4. Unique(db.properties, Placed)
  BY <1>1, <1>3 DEF HomeAs, Apart, Unique, Placed
<1>5. \A b \in DOMAIN db.businesses, h \in DOMAIN db.properties :
         db.businesses[b].place # db.properties[h].place
  BY <1>1, <1>2, <1>3 DEF HomeAs, BusinessAs, Apart
<1> QED
  BY <1>1, <1>2, <1>3, <1>4, <1>5 DEF Apart, BusinessAs, HomeAs

\* Nobody but the request in flight has anything to put right.
LEMMA OnlyMender ==
    ASSUME Alone, NEW q \in InFlight, NEW r \in Requests, NEW i
    PROVE  /\ MendsBusiness(r, i) => r = q
           /\ MendsHome(r, i) => r = q
BY DEF Alone, InFlight, Reading, Writing, MendsBusiness, MendsHome

\* The map, but for what q has to put right.
ShownBut(q) ==
    /\ \A b \in DOMAIN db.businesses :
          /\ db.locations[db.businesses[b].place].business = b
          /\ \/ MendsBusiness(q, b)
             \/ db.locations[db.businesses[b].place].visibility = Published(db.businesses[b].status)
    /\ Refer(db.properties, Placed, db.locations)
    /\ \A h \in DOMAIN db.properties :
          \/ MendsHome(q, h)
          \/ db.locations[db.properties[h].place].visibility = Offered(db.properties[h].offer)

LEMMA ShownToOne ==
    ASSUME Calm, calm, NEW q \in InFlight
    PROVE  ShownBut(q)
BY OnlyMender DEF Calm, Shown, ShownBut

LEMMA CalmStep ==
    ASSUME NEW f, Inv(f), Calm, NEW q \in InFlight, calm' => calm,
           \A r \in Requests \ {q} : Same(r),
           calm' => /\ ShownBut(q)' /\ ~failed'[q]
                    /\ pc'[q] \in Reading \cup Writing => Fresh(q)'
    PROVE  Calm'
<1> SUFFICES ASSUME calm' PROVE Calm'
  BY DEF Calm
<1>1. q \in Requests /\ InFlight' \subseteq {q}
  BY DEF InFlight, Calm, Alone, Same
<1>2. \A r \in Requests : ~failed'[r]
  BY DEF Calm, Same
<1>3. \A r \in InFlight' : Fresh(r)'
  BY <1>1 DEF InFlight
<1>4. Shown'
  BY <1>1 DEF Shown, ShownBut
<1> QED
  BY <1>1, <1>2, <1>3, <1>4 DEF Calm, Alone

\* The request in flight, and what is known of it.
LEMMA InFlightKnows ==
    ASSUME NEW f, Inv(f), NEW q \in InFlight
    PROVE  /\ q \in Requests /\ pc[q] # "idle" /\ pc[q] \notin Ended
           /\ call[q] \in Calls /\ OnRoad(call[q].op, pc[q])
           /\ KnowsBusiness(f, q) /\ KnowsHomes(f, q) /\ KnowsPlace(f, q)
           /\ DOMAIN db = Tables /\ Faithful(f)
BY DEF Inv, Knows, Faithful, InFlight, Reading, Writing, Ended

LEMMA ShownStays ==
    ASSUME NEW q, ShownBut(q), UNCHANGED db,
           \A i : MendsBusiness(q, i) => MendsBusiness(q, i)',
           \A i : MendsHome(q, i) => MendsHome(q, i)'
    PROVE  ShownBut(q)'
BY DEF ShownBut

LEMMA CalmEnd ==
    ASSUME NEW f, Inv(f), Calm, NEW q \in InFlight, calm' => calm,
           NEW a \in Ended, End(q, a), calm' => ShownBut(q)'
    PROVE  Calm'
<1>1. q \in Requests /\ pc[q] # "idle"
  BY InFlightKnows
<1>2. pc'[q] \in Ended /\ \A r \in Requests \ {q} : Same(r)
  BY <1>1, Ending
<1>3. ~failed'[q]
  BY <1>1 DEF End, Inv, Typed
<1>4. pc'[q] \notin Reading \cup Writing
  BY <1>2 DEF Ended, Reading, Writing
<1> QED
  BY <1>2, <1>3, <1>4, CalmStep

\* An end before anything was written.
LEMMA CalmQuietEnd ==
    ASSUME NEW f, Inv(f), Calm, NEW q \in InFlight, calm' => calm,
           NEW a \in Ended, End(q, a), UNCHANGED db, pc[q] \in {"check", "load"}
    PROVE  Calm'
<1>1. ASSUME calm' PROVE ShownBut(q)'
  <2>1. ShownBut(q)
    BY <1>1, ShownToOne
  <2>2. \A i : ~MendsBusiness(q, i) /\ ~MendsHome(q, i)
    BY DEF MendsBusiness, MendsHome
  <2> QED
    BY <2>1, <2>2, ShownStays
<1> QED
  BY <1>1, CalmEnd

\* A step that leaves the tables as they are.
LEMMA CalmQuiet ==
    ASSUME NEW f, Inv(f), Calm, NEW q \in InFlight, UNCHANGED <<db, calm, call, failed>>,
           \A r \in Requests \ {q} : Same(r),
           \A i : MendsBusiness(q, i) => MendsBusiness(q, i)',
           \A i : MendsHome(q, i) => MendsHome(q, i)',
           calm => FreshBusiness(q)' /\ FreshHomes(q)'
    PROVE  Calm'
<1>1. q \in Requests
  BY InFlightKnows
<1>2. ASSUME calm'
      PROVE  ShownBut(q)' /\ ~failed'[q] /\ Fresh(q)'
  <2>1. ShownBut(q) /\ Fresh(q) /\ ~failed[q]
    BY <1>1, <1>2, ShownToOne DEF Calm
  <2>2. ShownBut(q)'
    BY <2>1, ShownStays
  <2> QED
    BY <1>2, <2>1, <2>2 DEF Fresh
<1> QED
  BY <1>2, CalmStep

LEMMA StartCalm ==
    ASSUME NEW f, Inv(f), Calm, NEW q \in Requests, NEW c \in Calls, Start(q, c)
    PROVE  Calm'
<1> SUFFICES ASSUME calm' PROVE Calm'
  BY DEF Calm
<1>1. /\ calm /\ InFlight = {} /\ c.op \notin OfPlace
      /\ pc[q] = "idle" /\ pc'[q] \in {"draw", "check"} /\ call'[q] = c
      /\ c.op \in Registering => pc'[q] = "draw"
      /\ UNCHANGED <<db, profile, place, homes, failed>>
      /\ \A r \in Requests \ {q} : Same(r)
      /\ homes[q] = NoHomes
  BY DEF Start, held, Inv, Typed, Same, Knows
<1>2. InFlight' = {q}
  BY <1>1 DEF InFlight, Same, Reading, Writing
<1>3. \A r \in Requests : \A i : ~MendsBusiness(r, i) /\ ~MendsHome(r, i)
  BY <1>1 DEF MendsBusiness, MendsHome, InFlight, Reading, Writing
<1>4. Shown'
  BY <1>1, <1>3 DEF Calm, Shown
<1>5. Fresh(q)'
  BY <1>1 DEF Fresh, FreshBusiness, FreshHomes, HoldsHomes, NoHomes, Registering
<1> QED
  BY <1>1, <1>2, <1>4, <1>5 DEF Calm, Alone

\* Steps that read.
LEMMA ReadBusinessCalm ==
    ASSUME NEW f, Inv(f), Calm, NEW q \in InFlight, ReadBusiness(q), UNCHANGED <<db, calm>>
    PROVE  Calm'
<1> DEFINE c == call[q]
<1>1. /\ q \in Requests /\ pc[q] \in {"check", "load"} /\ c.op \in OfBusiness
      /\ pc \in [Requests -> Reading \cup Writing \cup Ended \cup {"idle"}]
  BY InFlightKnows DEF ReadBusiness, Inv, Typed
<1>2. CASE End(q, "rejected")
  BY <1>1, <1>2, CalmQuietEnd DEF Ended
<1>3. CASE ~End(q, "rejected")
  <2>1. /\ pc'[q] \in {"load", "business"} /\ UNCHANGED <<call, place, homes, failed>>
        /\ \A r \in Requests \ {q} : Same(r)
    BY <1>1, <1>3 DEF ReadBusiness, Go, held, Same, Inv, Typed
  <2>2. \A i : ~MendsBusiness(q, i) /\ ~MendsHome(q, i)
    BY <1>1 DEF MendsBusiness, MendsHome
  <2>3. ASSUME calm PROVE FreshBusiness(q)' /\ FreshHomes(q)'
    <3>1. FreshHomes(q)
      BY <1>1, <2>3 DEF Calm, Fresh
    <3> QED
      BY <1>1, <2>1, <3>1 DEF FreshBusiness, FreshHomes, HoldsHomes, OfBusiness, OfHome
  <2> QED
    BY <2>1, <2>2, <2>3, CalmQuiet
<1> QED
  BY <1>2, <1>3

LEMMA ReadHomesCalm ==
    ASSUME NEW f, Inv(f), Calm, NEW q \in InFlight, NEW t \in {"properties", "residents"},
           ReadHomes(q, t), UNCHANGED <<db, calm>>
    PROVE  Calm'
<1>1. /\ q \in Requests /\ pc[q] \in {"check", "load"}
      /\ UNCHANGED <<pc, call, profile, place, failed>>
      /\ \A r \in Requests \ {q} : Same(r)
      /\ t = "properties" => homes'[q].properties = db.properties
      /\ t # "properties" => homes'[q].properties = homes[q].properties
  BY InFlightKnows DEF ReadHomes, ReadsHomes, Inv, Typed, Same
<1>2. \A i : ~MendsBusiness(q, i) /\ ~MendsHome(q, i)
  BY <1>1 DEF MendsBusiness, MendsHome
<1>3. ASSUME calm PROVE FreshBusiness(q)' /\ FreshHomes(q)'
  <2>1. FreshHomes(q)
    BY <1>3 DEF Calm, Fresh
  <2> QED
    BY <1>1, <2>1 DEF FreshBusiness, FreshHomes, HoldsHomes
<1> QED
  BY <1>1, <1>2, <1>3, CalmQuiet

LEMMA BusinessPlace ==
    ASSUME NEW q \in Requests, call[q].op \in OfBusiness
    PROVE  PlaceOf(q) = profile[q].place
BY DEF PlaceOf, OfHome, OfBusiness, OfPlace, Registering

LEMMA FetchPlaceCalm ==
    ASSUME NEW f, Inv(f), Calm, NEW q \in InFlight, FetchPlace(q), UNCHANGED <<db, calm>>
    PROVE  Calm'
<1> DEFINE c == call[q]
<1>1. /\ q \in Requests /\ pc[q] = "fetch" /\ OnRoad(c.op, "fetch") /\ Faithful(f)
      /\ KnowsBusiness(f, q) /\ KnowsHomes(f, q)
      /\ pc \in [Requests -> Reading \cup Writing \cup Ended \cup {"idle"}]
  BY InFlightKnows DEF FetchPlace, Inv, Typed
<1>2. c.op \in OfBusiness \cup {"editHome"}
  BY <1>1 DEF OnRoad, Ended
<1> SUFFICES ASSUME calm PROVE Calm'
  BY DEF Calm
<1>3. ShownBut(q) /\ FreshBusiness(q) /\ FreshHomes(q)
  BY ShownToOne DEF Calm, Fresh
<1>4. PlaceOf(q) \in DOMAIN db.locations
  <2>1. CASE c.op \in OfBusiness
    <3>1. c.row \in DOMAIN db.businesses /\ profile[q] = db.businesses[c.row]
      BY <1>1, <1>3, <2>1 DEF KnowsBusiness, Busy, FreshBusiness
    <3>2. PlaceOf(q) = profile[q].place
      BY <1>1, <2>1, BusinessPlace
    <3> QED
      BY <1>1, <3>1, <3>2 DEF Faithful, Refer, Placed
  <2>2. CASE c.op = "editHome"
    <3>1. /\ c.row \in DOMAIN db.properties /\ c.row \in DOMAIN homes[q].properties
          /\ homes[q].properties[c.row] = db.properties[c.row]
      BY <1>1, <1>3, <2>2 DEF KnowsHomes, HoldsHomes, OfHome, FreshHomes
    <3>2. call[q].op \in OfHome
      BY <2>2 DEF OfHome
    <3>3. PlaceOf(q) = homes[q].properties[c.row].place
      BY <1>1, <3>2, HomesPlace
    <3> QED
      BY <1>3, <3>1, <3>3 DEF ShownBut, Refer, Placed
  <2> QED
    BY <1>2, <2>1, <2>2
<1> DEFINE row == db.locations[PlaceOf(q)]
           new == Synced(q, row)
<1>5. row \in Location
  BY <1>1, <1>4 DEF Faithful, PlaceAs
<1> HIDE DEF row
<1>6. /\ c.op \in OfBusiness => /\ new.business = c.row
                                /\ new.visibility = Published(profile[q].status)
      /\ c.op = "editHome" => new.visibility = Offered(homes[q].properties[c.row].offer)
  <2>1. CASE c.op \in OfBusiness
    <3>1. new = [owner |-> IF row.owner = NoPerson THEN profile[q].owner ELSE row.owner,
                 business |-> c.row, visibility |-> Published(profile[q].status)]
      BY <2>1 DEF Synced
    <3> QED
      BY <2>1, <3>1 DEF OfBusiness
  <2>2. CASE c.op = "editHome"
    <3> DEFINE flat == homes[q].properties[c.row]
    <3>1. new = [row EXCEPT !.owner = flat.by, !.visibility = Offered(flat.offer)]
      BY <2>2 DEF Synced, OfBusiness
    <3> QED
      BY <1>5, <2>2, <3>1 DEF OfBusiness, Location
  <2> QED
    BY <1>2, <2>1, <2>2
<1>7. /\ Go(q, "place") /\ place' = [place EXCEPT ![q] = new] /\ UNCHANGED <<profile, homes, failed>>
  BY <1>4 DEF FetchPlace, row
<1> HIDE DEF new
<1>8. /\ pc'[q] = "place" /\ call' = call /\ place'[q] = new
      /\ \A r \in Requests \ {q} : Same(r)
  BY <1>1, <1>7 DEF Go, Same, Inv, Typed
<1>9. \A i : /\ MendsBusiness(q, i) => MendsBusiness(q, i)'
             /\ MendsHome(q, i) => MendsHome(q, i)'
  BY <1>8 DEF MendsBusiness, MendsHome
<1>10. FreshBusiness(q)'
  BY <1>1, <1>3, <1>6, <1>7, <1>8 DEF FreshBusiness
<1>11. FreshHomes(q)'
  <2>1. HoldsHomes(q)' <=> HoldsHomes(q)
    BY <1>1, <1>8 DEF HoldsHomes
  <2>2. c.op = "editHome" => /\ HoldsHomes(q) /\ c.row \in DOMAIN homes[q].properties
    BY <1>1 DEF KnowsHomes, HoldsHomes, OfHome
  <2> QED
    BY <1>1, <1>2, <1>3, <1>6, <1>7, <1>8, <2>1, <2>2 DEF FreshHomes, Subject, OfBusiness
<1> QED
  BY <1>7, <1>8, <1>9, <1>10, <1>11, CalmQuiet

\* What a request is about to write of the homes: as they are, but for its own.
HoldsFresh(q, rows) ==
    /\ call[q].op = "home" => q \in DOMAIN rows /\ rows[q].offer = call[q].offer
    /\ \A h \in DOMAIN rows :
          Subject(q, h) \/ (h \in DOMAIN db.properties /\ rows[h] = db.properties[h])

LEMMA HoldCalm ==
    ASSUME NEW f, Inv(f), Calm, NEW q \in InFlight, pc[q] = "load",
           call[q].op \in OfHome \cup {"home"}, NEW s, calm => HoldsFresh(q, s.properties),
           Go(q, "properties"), homes' = [homes EXCEPT ![q] = s],
           UNCHANGED <<profile, place, failed, db, calm>>
    PROVE  Calm'
<1>1. q \in Requests
  BY InFlightKnows
<1>2. /\ pc'[q] = "properties" /\ call' = call /\ homes'[q] = s
      /\ \A r \in Requests \ {q} : Same(r)
  BY <1>1 DEF Go, Same, Inv, Typed
<1>3. \A i : ~MendsBusiness(q, i) /\ ~MendsHome(q, i)
  BY DEF MendsBusiness, MendsHome
<1>4. ASSUME calm PROVE FreshBusiness(q)' /\ FreshHomes(q)'
  <2>1. FreshHomes(q)
    BY <1>4 DEF Calm, Fresh
  <2> QED
    BY <1>2, <1>4, <2>1 DEF FreshBusiness, FreshHomes, HoldsFresh, Subject
<1> QED
  BY <1>2, <1>3, <1>4, CalmQuiet

LEMMA SettleHomesCalm ==
    ASSUME NEW f, Inv(f), Calm, NEW q \in InFlight, SettleHomes(q), UNCHANGED <<db, calm>>
    PROVE  Calm'
<1> DEFINE c == call[q]
           s == homes[q]
<1>1. /\ s.properties # Unread /\ s.residents # Unread /\ q \in Requests
      /\ pc[q] \in {"check", "load"} /\ c.op \in OfHome \cup {"home"}
      /\ pc[q] = "check" => c.op \in OfHome
      /\ DOMAIN s = {"properties", "residents"}
  BY InFlightKnows DEF SettleHomes, ReadsHomes, Inv, Typed
<1>2. calm => s.properties = db.properties
  BY <1>1 DEF Calm, Fresh, FreshHomes
<1>3. CASE pc[q] = "check" /\ MayEditHome(c, s)
  <2>1. /\ Go(q, "load") /\ homes' = [homes EXCEPT ![q] = NoHomes]
        /\ UNCHANGED <<profile, place, failed>>
    BY <1>3 DEF SettleHomes
  <2>2. /\ pc'[q] = "load" /\ call' = call /\ homes'[q] = NoHomes
        /\ \A r \in Requests \ {q} : Same(r)
    BY <1>1, <2>1 DEF Go, Same, Inv, Typed
  <2>3. \A i : ~MendsBusiness(q, i) /\ ~MendsHome(q, i)
    BY <1>3 DEF MendsBusiness, MendsHome
  <2>4. FreshBusiness(q)' /\ FreshHomes(q)'
    BY <1>1, <1>3, <2>2 DEF FreshBusiness, FreshHomes, HoldsHomes, NoHomes, OfHome
  <2> QED
    BY <2>1, <2>2, <2>3, <2>4, CalmQuiet
<1>4. CASE pc[q] = "check" /\ ~MayEditHome(c, s)
  <2>1. End(q, "rejected")
    BY <1>4 DEF SettleHomes
  <2> QED
    BY <1>1, <2>1, CalmQuietEnd DEF Ended
<1>5. CASE pc[q] = "load" /\ c.op = "home"
  <2> DEFINE row == [by |-> c.who, place |-> q, offer |-> c.offer]
             rows == With(s.properties, Row(q, row))
             store == Register(q, s)
  <2>1. /\ Go(q, "properties") /\ homes' = [homes EXCEPT ![q] = store]
        /\ UNCHANGED <<profile, place, failed>>
    BY <1>5 DEF SettleHomes
  <2>2. store.properties = rows
    BY DEF Register
  <2>3. row.offer = c.offer
    OBVIOUS
  <2> HIDE DEF row, store
  <2>4. /\ rows[q] = row /\ DOMAIN rows = DOMAIN s.properties \cup {q}
        /\ \A h \in DOMAIN s.properties \ {q} : rows[h] = s.properties[h]
    BY DEF With, Row
  <2> HIDE DEF rows
  <2>5. ASSUME calm PROVE HoldsFresh(q, rows)
    BY <1>2, <1>5, <2>3, <2>4, <2>5 DEF HoldsFresh, Subject
  <2> QED
    BY <1>1, <1>5, <2>1, <2>2, <2>5, HoldCalm
<1>6. CASE pc[q] = "load" /\ c.op = "editHome"
  <2> DEFINE store == Edit(c, s)
  <2>1. /\ Go(q, "properties") /\ homes' = [homes EXCEPT ![q] = store]
        /\ UNCHANGED <<profile, place, failed>>
    BY <1>6 DEF SettleHomes
  <2>2. /\ DOMAIN store.properties = DOMAIN s.properties
        /\ \A h \in DOMAIN s.properties \ {c.row} : store.properties[h] = s.properties[h]
    BY <1>1 DEF Edit
  <2> HIDE DEF store
  <2>3. ASSUME calm PROVE HoldsFresh(q, store.properties)
    BY <1>2, <1>6, <2>2, <2>3 DEF HoldsFresh, Subject
  <2> QED
    BY <1>1, <1>6, <2>1, <2>3, HoldCalm
<1>7. CASE pc[q] = "load" /\ c.op = "addResident" /\ End(q, "ok")
  BY <1>1, <1>7, CalmQuietEnd DEF Ended
<1>8. CASE pc[q] = "load" /\ c.op = "addResident" /\ ~End(q, "ok")
  <2> DEFINE store == [s EXCEPT !.residents = With(@, Row(q, Lives(c.person, c.row, c.owns)))]
  <2>1. /\ Go(q, "properties") /\ UNCHANGED <<profile, place, failed>>
        /\ homes' = [homes EXCEPT ![q] = store]
    BY <1>8 DEF SettleHomes
  <2>2. store.properties = s.properties
    BY <1>1
  <2> HIDE DEF store
  <2>3. ASSUME calm PROVE HoldsFresh(q, store.properties)
    BY <1>2, <1>8, <2>2, <2>3 DEF HoldsFresh
  <2> QED
    BY <1>1, <1>8, <2>1, <2>3, HoldCalm
<1> QED
  BY <1>1, <1>3, <1>4, <1>5, <1>6, <1>7, <1>8 DEF OfHome

-----------------------------------------------------------------------------
(* Statements.                                                             *)

\* A place that is written shows what stands there, and nothing else waits.
LEMMA PlaceShown ==
    ASSUME NEW f, Inv(f), NEW q \in Requests, ShownBut(q),
           NEW l, NEW row, Upsert("locations", Row(l, row)),
           \A b \in DOMAIN db.businesses :
              /\ db.businesses[b].place = l => /\ row.business = b
                                               /\ row.visibility = Published(db.businesses[b].status)
              /\ db.businesses[b].place # l => ~MendsBusiness(q, b),
           \A h \in DOMAIN db.properties :
              /\ db.properties[h].place = l => row.visibility = Offered(db.properties[h].offer)
              /\ db.properties[h].place # l => ~MendsHome(q, h)
    PROVE  ShownBut(q)'
<1>1. DOMAIN db = Tables /\ Refer(db.businesses, Placed, db.locations)
  BY DEF Inv, Faithful
<1>2. /\ DOMAIN db'.locations = {l} \cup DOMAIN db.locations
      /\ db'.locations[l] = row
      /\ \A i \in DOMAIN db.locations \ {l} : db'.locations[i] = db.locations[i]
      /\ db'.businesses = db.businesses /\ db'.properties = db.properties
  BY <1>1, TakesRow DEF Tables
<1>3. ASSUME NEW b \in DOMAIN db.businesses
      PROVE  /\ db'.locations[db.businesses[b].place].business = b
             /\ db'.locations[db.businesses[b].place].visibility
                   = Published(db.businesses[b].status)
  <2>1. db.businesses[b].place \in DOMAIN db.locations
    BY <1>1 DEF Refer, Placed
  <2> QED
    BY <1>2, <2>1 DEF ShownBut
<1>4. ASSUME NEW h \in DOMAIN db.properties
      PROVE  /\ db.properties[h].place \in DOMAIN db'.locations
             /\ db'.locations[db.properties[h].place].visibility = Offered(db.properties[h].offer)
  <2>1. db.properties[h].place \in DOMAIN db.locations
    BY DEF ShownBut, Refer, Placed
  <2> QED
    BY <1>2, <2>1 DEF ShownBut
<1> QED
  BY <1>2, <1>3, <1>4 DEF ShownBut, Refer, Placed

\* What all commits have in common.
LEMMA CommitFacts ==
    ASSUME NEW f, Inv(f), Calm, calm, NEW q \in InFlight, Commit(q)
    PROVE  /\ q \in Requests /\ call[q] \in Calls /\ OnRoad(call[q].op, pc[q])
           /\ KnowsBusiness(f, q) /\ KnowsHomes(f, q) /\ DOMAIN db = Tables
           /\ Faithful(f)
           /\ call' = call /\ calm' = calm /\ Takes(q) /\ After(q) /\ pc[q] \in Writing
           /\ \A r \in Requests \ {q} : Same(r)
           /\ ShownBut(q) /\ ~failed[q]
           /\ call[q].op \notin OfPlace /\ FreshBusiness(q) /\ FreshHomes(q)
<1>1. /\ q \in Requests /\ calm' = calm /\ Takes(q) /\ After(q) /\ pc[q] \in Writing
  BY InFlightKnows DEF Commit
<1>2. call' = call /\ \A r \in Requests \ {q} : Same(r)
  BY <1>1, Proceeding
<1>3. ShownBut(q)
  BY ShownToOne
<1>4. ~failed[q] /\ Fresh(q)
  BY <1>1 DEF Calm
<1> QED
  BY <1>1, <1>2, <1>3, <1>4, InFlightKnows DEF Fresh

LEMMA DrawCalm ==
    ASSUME NEW f \in FirstStores, Apart(f), Inv(f), Calm, calm, NEW q \in InFlight, Commit(q),
           pc[q] \in {"draw", "link"}
    PROVE  Calm'
<1> DEFINE c == call[q]
           row == IF pc[q] = "draw"
                  THEN New(q, NoRow, IF c.op = "create" THEN c.visibility ELSE "private")
                  ELSE New(q, q, "private")
<1>1. /\ q \in Requests /\ OnRoad(c.op, pc[q]) /\ DOMAIN db = Tables
      /\ call' = call /\ calm' = calm /\ Takes(q) /\ After(q)
      /\ \A r \in Requests \ {q} : Same(r)
      /\ ShownBut(q) /\ ~failed[q] /\ FreshBusiness(q) /\ FreshHomes(q)
      /\ c.op \notin OfPlace
  BY CommitFacts
<1>2. Upsert("locations", Row(q, row))
  BY <1>1 DEF Takes
<1>3. pc[q] = "link" => row.business = q /\ row.visibility = "private"
  BY DEF New
<1> HIDE DEF row
<1>4. /\ DOMAIN db'.locations = {q} \cup DOMAIN db.locations /\ db'.locations[q] = row
      /\ db'.properties = db.properties
  BY <1>1, <1>2, TakesRow DEF Tables
<1>5. /\ \A b \in DOMAIN db.businesses : db.businesses[b].place # q /\ ~MendsBusiness(q, b)
      /\ \A h \in DOMAIN db.properties : db.properties[h].place # q /\ ~MendsHome(q, h)
  BY <1>1, StayApart DEF Ended, MendsBusiness, MendsHome
<1>6. ShownBut(q)'
  BY <1>1, <1>2, <1>5, PlaceShown
<1>7. c.op \in Registering /\ (pc[q] = "link" => c.op = "register")
  BY <1>1 DEF OnRoad, Ended, OfBusiness, OfHome, OfPlace, Registering
<1>8. CASE pc[q] = "draw" /\ c.op \in {"register", "home"}
  <2>1. /\ Go(q, IF c.op = "register" THEN "link" ELSE "load")
        /\ UNCHANGED <<profile, place, homes, failed>>
    BY <1>1, <1>8 DEF After, held
  <2>2. pc'[q] = IF c.op = "register" THEN "link" ELSE "load"
    BY <1>1, <2>1 DEF Go, Inv, Typed
  <2>3. FreshBusiness(q)' /\ FreshHomes(q)'
    BY <1>1, <1>4, <1>8, <2>1, <2>2
       DEF FreshBusiness, FreshHomes, HoldsHomes, OfBusiness, OfHome
  <2> QED
    BY <1>1, <1>6, <2>1, <2>3, CalmStep DEF Fresh
<1>9. CASE pc[q] = "draw" /\ c.op = "create"
  <2>1. End(q, "ok")
    BY <1>1, <1>9 DEF After
  <2> QED
    BY <1>1, <1>6, <2>1, CalmEnd DEF Ended
<1>10. CASE pc[q] = "link"
  <2>1. Go(q, "business") /\ UNCHANGED <<place, homes, failed>>
    BY <1>1, <1>10 DEF After
  <2>2. pc'[q] = "business"
    BY <1>1, <2>1 DEF Go, Inv, Typed
  <2>3. FreshBusiness(q)' /\ FreshHomes(q)'
    BY <1>1, <1>3, <1>4, <1>7, <1>10, <2>1, <2>2
       DEF FreshBusiness, FreshHomes, HoldsHomes, OfBusiness, OfHome
  <2> QED
    BY <1>1, <1>6, <2>1, <2>3, CalmStep DEF Fresh
<1> QED
  BY <1>7, <1>8, <1>9, <1>10 DEF Registering

LEMMA BusinessCalm ==
    ASSUME NEW f \in FirstStores, Apart(f), Inv(f), Calm, calm, NEW q \in InFlight, Commit(q),
           pc[q] = "business"
    PROVE  Calm'
<1> DEFINE c == call[q]
           k == IF c.op = "register" THEN q ELSE c.row
<1>1. /\ q \in Requests /\ OnRoad(c.op, "business") /\ DOMAIN db = Tables
      /\ call' = call /\ calm' = calm /\ Takes(q) /\ After(q)
      /\ \A r \in Requests \ {q} : Same(r)
      /\ ShownBut(q) /\ ~failed[q] /\ FreshBusiness(q) /\ FreshHomes(q)
      /\ c.op \notin OfPlace /\ Faithful(f) /\ KnowsBusiness(f, q)
  BY CommitFacts
<1>2. Upsert("businesses", Row(k, profile[q]))
  BY <1>1 DEF Takes, BusinessOf
<1>3. /\ DOMAIN db'.businesses = {k} \cup DOMAIN db.businesses
      /\ db'.businesses[k] = profile[q]
      /\ \A b \in DOMAIN db.businesses \ {k} : db'.businesses[b] = db.businesses[b]
      /\ db'.properties = db.properties /\ db'.locations = db.locations
  BY <1>1, <1>2, TakesRow DEF Tables
<1>4. c.op = "register" \/ c.op \in OfBusiness
  BY <1>1 DEF OnRoad, Ended, OfHome
<1>5. db.locations[profile[q].place].business = k
  <2>1. CASE c.op = "register"
    BY <1>1, <2>1 DEF KnowsBusiness, FreshBusiness
  <2>2. CASE c.op \in OfBusiness
    <3>1. /\ c.row \in DOMAIN db.businesses /\ BusinessAs(f, pc, call, c.row, profile[q])
          /\ BusinessAs(f, pc, call, c.row, db.businesses[c.row])
      BY <1>1, <2>2 DEF KnowsBusiness, Busy, Faithful
    <3>2. profile[q].place = db.businesses[c.row].place
      BY <3>1 DEF BusinessAs
    <3> QED
      BY <1>1, <2>2, <3>1, <3>2 DEF ShownBut, OfBusiness
  <2> QED
    BY <1>4, <2>1, <2>2
<1>6. /\ \A i : ~MendsBusiness(q, i)
      /\ \A i : ~MendsHome(q, i)
  BY DEF MendsBusiness, MendsHome
<1>7. CASE c.op = "register"
  <2>1. End(q, "ok")
    BY <1>1, <1>7 DEF After
  <2>2. db.locations[profile[q].place].visibility = Published(profile[q].status)
    BY <1>1, <1>7 DEF KnowsBusiness, FreshBusiness, Published
  <2>3. ShownBut(q)'
    BY <1>1, <1>3, <1>5, <1>6, <2>2 DEF ShownBut
  <2> QED
    BY <1>1, <2>1, <2>3, CalmEnd DEF Ended
<1>8. CASE c.op \in OfBusiness
  <2>1. Go(q, "fetch") /\ UNCHANGED <<profile, place, homes, failed>> /\ k = c.row
    BY <1>1, <1>8 DEF After, held, OfBusiness
  <2>2. pc'[q] = "fetch"
    BY <1>1, <2>1 DEF Go, Inv, Typed
  <2>3. MendsBusiness(q, k)'
    BY <1>1, <1>8, <2>1, <2>2 DEF MendsBusiness
  <2>4. ShownBut(q)'
    BY <1>1, <1>3, <1>5, <1>6, <2>3 DEF ShownBut
  <2>5. FreshBusiness(q)' /\ FreshHomes(q)'
    BY <1>1, <1>3, <1>8, <2>1, <2>2
       DEF FreshBusiness, FreshHomes, HoldsHomes, OfBusiness, OfHome
  <2> QED
    BY <1>1, <2>1, <2>4, <2>5, CalmStep DEF Fresh
<1> QED
  BY <1>4, <1>7, <1>8

LEMMA PropertiesCalm ==
    ASSUME NEW f \in FirstStores, Apart(f), Inv(f), Calm, calm, NEW q \in InFlight, Commit(q),
           pc[q] = "properties"
    PROVE  Calm'
<1> DEFINE c == call[q]
           rows == homes[q].properties
<1>1. /\ q \in Requests /\ OnRoad(c.op, "properties") /\ DOMAIN db = Tables
      /\ call' = call /\ calm' = calm /\ Takes(q) /\ After(q)
      /\ \A r \in Requests \ {q} : Same(r)
      /\ ShownBut(q) /\ ~failed[q] /\ FreshBusiness(q) /\ FreshHomes(q)
      /\ c.op \notin OfPlace /\ Faithful(f) /\ KnowsHomes(f, q)
  BY CommitFacts
<1>2. Upsert("properties", rows)
  BY <1>1 DEF Takes
<1>3. /\ DOMAIN db'.properties = DOMAIN rows \cup DOMAIN db.properties
      /\ \A h \in DOMAIN rows : db'.properties[h] = rows[h]
      /\ \A h \in DOMAIN db.properties \ DOMAIN rows : db'.properties[h] = db.properties[h]
      /\ db'.businesses = db.businesses /\ db'.locations = db.locations
  BY <1>1, <1>2, TakesIn DEF Tables
<1>4. c.op = "home" \/ c.op \in OfHome
  BY <1>1 DEF OnRoad, Ended, OfBusiness
<1>5. HoldsHomes(q)
  BY <1>4 DEF HoldsHomes
<1>6. /\ \A h \in DOMAIN rows : HomeAs(f, pc, call, h, rows[h]) \/ NewHome(call, q, h, rows[h])
      /\ \A h \in DOMAIN db.properties : HomeAs(f, pc, call, h, db.properties[h])
  BY <1>1, <1>5 DEF KnowsHomes, Faithful
<1>7. /\ Go(q, "residents") /\ UNCHANGED <<profile, place, homes, failed>>
  BY <1>1 DEF After, held
<1>8. pc'[q] = "residents"
  BY <1>1, <1>7 DEF Go, Inv, Typed
<1>9. \A i : ~MendsBusiness(q, i) /\ ~MendsHome(q, i)
  BY DEF MendsBusiness, MendsHome
<1>10. \A h : Subject(q, h) => MendsHome(q, h)'
  BY <1>1, <1>8 DEF Subject, MendsHome
<1>11. ASSUME NEW h \in DOMAIN db'.properties
       PROVE  /\ db'.properties[h].place \in DOMAIN db.locations
              /\ \/ MendsHome(q, h)'
                 \/ db.locations[db'.properties[h].place].visibility = Offered(db'.properties[h].offer)
  <2>1. CASE h \in DOMAIN db.properties /\ db'.properties[h] = db.properties[h]
    BY <1>1, <1>9, <2>1 DEF ShownBut, Refer, Placed
  <2>2. CASE ~(h \in DOMAIN db.properties /\ db'.properties[h] = db.properties[h])
    <3>1. h \in DOMAIN rows /\ db'.properties[h] = rows[h]
      BY <1>3, <2>2
    <3>2. Subject(q, h)
      BY <1>1, <1>5, <2>2, <3>1 DEF FreshHomes
    <3>3. rows[h].place \in DOMAIN db.locations
      <4>1. CASE c.op = "home"
        <5>1. h = q /\ q \in DOMAIN db.locations
          BY <1>1, <3>2, <4>1 DEF Subject, FreshHomes
        <5> QED
          BY <1>1, <1>6, <3>1, <5>1 DEF HomeAs, NewHome
      <4>2. CASE c.op = "editHome"
        <5>1. h = c.row /\ h \in DOMAIN db.properties
          BY <1>1, <1>5, <3>2, <4>2 DEF Subject, KnowsHomes, OfHome
        <5>2. HomeAs(f, pc, call, h, rows[h]) /\ HomeAs(f, pc, call, h, db.properties[h])
          BY <1>6, <3>1, <4>2, <5>1 DEF NewHome
        <5>3. rows[h].place = db.properties[h].place
          BY <5>2 DEF HomeAs
        <5> QED
          BY <1>1, <5>1, <5>3 DEF ShownBut, Refer, Placed
      <4> QED
        BY <3>2, <4>1, <4>2 DEF Subject
    <3> QED
      BY <1>10, <3>1, <3>2, <3>3
  <2> QED
    BY <2>1, <2>2
<1>12. ShownBut(q)'
  BY <1>1, <1>3, <1>9, <1>11 DEF ShownBut, Refer, Placed
<1>13. FreshBusiness(q)' /\ FreshHomes(q)'
  <2>1. FreshBusiness(q)'
    BY <1>8 DEF FreshBusiness
  <2>2. c.op = "home" => q \in DOMAIN db'.locations
    BY <1>1, <1>3 DEF FreshHomes
  <2>3. HoldsHomes(q)' /\ homes' = homes
    BY <1>1, <1>4, <1>7, <1>8 DEF HoldsHomes
  <2>4. c.op = "home" => q \in DOMAIN rows /\ rows[q].offer = c.offer
    BY <1>1, <1>5 DEF FreshHomes
  <2> QED
    BY <1>1, <1>3, <1>8, <2>1, <2>2, <2>3, <2>4 DEF FreshHomes
<1> QED
  BY <1>1, <1>7, <1>12, <1>13, CalmStep DEF Fresh

LEMMA ResidentsCalm ==
    ASSUME NEW f \in FirstStores, Apart(f), Inv(f), Calm, calm, NEW q \in InFlight, Commit(q),
           pc[q] = "residents"
    PROVE  Calm'
<1> DEFINE c == call[q]
<1>1. /\ q \in Requests /\ OnRoad(c.op, "residents") /\ DOMAIN db = Tables
      /\ call' = call /\ calm' = calm /\ Takes(q) /\ After(q)
      /\ \A r \in Requests \ {q} : Same(r)
      /\ ShownBut(q) /\ ~failed[q] /\ FreshBusiness(q) /\ FreshHomes(q)
      /\ c.op \notin OfPlace
  BY CommitFacts
<1>2. Upsert("residents", homes[q].residents)
  BY <1>1 DEF Takes
<1>3. /\ db'.properties = db.properties /\ db'.businesses = db.businesses
      /\ db'.locations = db.locations
  BY <1>1, <1>2, TakesIn DEF Tables
<1>4. c.op \in {"home", "editHome", "addResident"}
  BY <1>1 DEF OnRoad, Ended, OfBusiness, OfHome
<1>5. HoldsHomes(q)
  BY <1>4 DEF HoldsHomes, OfHome
<1>6. CASE c.op = "addResident"
  <2>1. End(q, "ok")
    BY <1>1, <1>6 DEF After
  <2>2. \A i : ~MendsBusiness(q, i) /\ ~MendsHome(q, i)
    BY <1>6 DEF MendsBusiness, MendsHome
  <2>3. ShownBut(q)'
    BY <1>1, <1>3, <2>2 DEF ShownBut
  <2> QED
    BY <1>1, <2>1, <2>3, CalmEnd DEF Ended
<1>7. CASE c.op \in {"home", "editHome"}
  <2>1. /\ Go(q, IF c.op = "home" THEN "place" ELSE "fetch")
        /\ UNCHANGED <<profile, homes, failed>>
        /\ c.op = "home" => place' = [place EXCEPT ![q] = New(q, NoRow, Offered(c.offer))]
    BY <1>1, <1>7 DEF After, held
  <2>2. pc'[q] = IF c.op = "home" THEN "place" ELSE "fetch"
    BY <1>1, <2>1 DEF Go, Inv, Typed
  <2>3. c.op = "home" => place'[q].visibility = Offered(c.offer)
    BY <1>1, <2>1 DEF Inv, Typed, New
  <2>4. /\ \A i : MendsHome(q, i) => MendsHome(q, i)'
        /\ \A i : ~MendsBusiness(q, i)
    BY <1>1, <1>7, <2>2 DEF MendsHome, MendsBusiness
  <2>5. ShownBut(q)'
    BY <1>1, <1>3, <2>4 DEF ShownBut
  <2>6. FreshBusiness(q)'
    BY <1>1, <1>7, <2>2 DEF FreshBusiness, OfBusiness
  <2>7. FreshHomes(q)'
    <3>1. HoldsHomes(q)'
      BY <1>1, <1>7, <2>2 DEF HoldsHomes, OfHome
    <3>2. c.op = "home" => /\ q \in DOMAIN db.locations
                           /\ q \in DOMAIN homes[q].properties
                           /\ homes[q].properties[q].offer = c.offer
      BY <1>1, <1>5 DEF FreshHomes
    <3>3. \A h \in DOMAIN homes[q].properties :
             h \in DOMAIN db.properties /\ homes[q].properties[h] = db.properties[h]
      BY <1>1, <1>5 DEF FreshHomes
    <3> QED
      BY <1>1, <1>3, <1>7, <2>1, <2>2, <2>3, <3>1, <3>2, <3>3 DEF FreshHomes, Subject
  <2> QED
    BY <1>1, <2>1, <2>5, <2>6, <2>7, CalmStep DEF Fresh
<1> QED
  BY <1>4, <1>6, <1>7

LEMMA PlaceCalm ==
    ASSUME NEW f \in FirstStores, Apart(f), Inv(f), Calm, calm, NEW q \in InFlight, Commit(q),
           pc[q] = "place"
    PROVE  Calm'
<1> DEFINE c == call[q]
           l == PlaceOf(q)
           row == Owned(q, place[q])
<1>1. /\ q \in Requests /\ OnRoad(c.op, "place") /\ DOMAIN db = Tables
      /\ call' = call /\ calm' = calm /\ Takes(q) /\ After(q)
      /\ \A r \in Requests \ {q} : Same(r)
      /\ ShownBut(q) /\ ~failed[q] /\ FreshBusiness(q) /\ FreshHomes(q)
      /\ c.op \notin OfPlace /\ Faithful(f) /\ KnowsBusiness(f, q) /\ KnowsHomes(f, q)
  BY CommitFacts
<1>2. Upsert("locations", Row(l, row))
  BY <1>1 DEF Takes
<1>3. row.business = place[q].business /\ row.visibility = place[q].visibility
  <2>1. place[q] \in Location
    BY InFlightKnows DEF KnowsPlace, PlaceAs
  <2> QED
    BY <2>1 DEF Owned, Location
<1> HIDE DEF row
<1>4. Apart(db)
  BY StayApart
<1>5. c.op \in OfBusiness \/ c.op \in {"home", "editHome"}
  BY <1>1 DEF OnRoad, Ended, OfHome, OfPlace
<1>6. ShownBut(q)'
  <2>1. CASE c.op \in OfBusiness
    <3>1. /\ c.row \in DOMAIN db.businesses /\ profile[q] = db.businesses[c.row]
          /\ row.business = c.row /\ row.visibility = Published(db.businesses[c.row].status)
      BY <1>1, <1>3, <2>1 DEF KnowsBusiness, Busy, FreshBusiness
    <3>2. l = db.businesses[c.row].place
      BY <1>1, <2>1, <3>1, BusinessPlace
    <3> HIDE DEF l
    <3>3. \A b \in DOMAIN db.businesses : db.businesses[b].place = l => b = c.row
      BY <1>1, <3>1, <3>2 DEF ShownBut
    <3>4. \A b : MendsBusiness(q, b) => b = c.row
      BY DEF MendsBusiness
    <3>5. \A h : ~MendsHome(q, h)
      BY <2>1 DEF MendsHome, OfBusiness
    <3>6. \A h \in DOMAIN db.properties : db.properties[h].place # l
      BY <1>4, <3>1, <3>2 DEF Apart
    <3> QED
      BY <1>1, <1>2, <3>1, <3>2, <3>3, <3>4, <3>5, <3>6, PlaceShown
  <2>2. CASE c.op \in {"home", "editHome"}
    <3> DEFINE g == IF c.op = "home" THEN q ELSE c.row
    <3>1. HoldsHomes(q) /\ Subject(q, g) /\ \A h : MendsHome(q, h) => h = g
      BY <2>2 DEF HoldsHomes, OfHome, Subject, MendsHome
    <3>2. g \in DOMAIN homes[q].properties
      BY <1>1, <2>2, <3>1 DEF FreshHomes, KnowsHomes, OfHome
    <3>3. g \in DOMAIN db.properties /\ homes[q].properties[g] = db.properties[g]
      BY <1>1, <3>1, <3>2 DEF FreshHomes
    <3>4. l = db.properties[g].place
      <4>1. CASE c.op = "home"
        <5>1. l = q
          BY <4>1 DEF PlaceOf, Registering, OfBusiness, OfHome, OfPlace
        <5>2. HomeAs(f, pc, call, q, db.properties[q])
          BY <1>1, <3>3, <4>1 DEF Faithful
        <5>3. db.properties[q].place = q
          BY <1>1, <5>2 DEF HomeAs
        <5> QED
          BY <4>1, <5>1, <5>3
      <4>2. CASE c.op = "editHome"
        <5>1. call[q].op \in OfHome
          BY <4>2 DEF OfHome
        <5>2. l = homes[q].properties[c.row].place
          BY <1>1, <5>1, HomesPlace
        <5> QED
          BY <3>3, <4>2, <5>2
      <4> QED
        BY <2>2, <4>1, <4>2
    <3>5. row.visibility = Offered(db.properties[g].offer)
      BY <1>1, <1>3, <2>2, <3>1, <3>3 DEF FreshHomes
    <3> HIDE DEF l, g
    <3>6. \A h \in DOMAIN db.properties : db.properties[h].place = l => h = g
      BY <1>4, <3>3, <3>4 DEF Apart, Unique, Placed
    <3>7. \A b \in DOMAIN db.businesses : db.businesses[b].place # l
      BY <1>4, <3>3, <3>4 DEF Apart
    <3>8. \A b : ~MendsBusiness(q, b)
      BY <2>2 DEF MendsBusiness, OfBusiness
    <3> QED
      BY <1>1, <1>2, <3>1, <3>4, <3>5, <3>6, <3>7, <3>8, PlaceShown
  <2> QED
    BY <1>5, <2>1, <2>2
<1>7. End(q, "ok")
  BY <1>1 DEF After
<1> QED
  BY <1>1, <1>6, <1>7, CalmEnd DEF Ended

LEMMA NextCalm ==
    ASSUME NEW f \in FirstStores, Apart(f), Inv(f), Calm, [Next]_vars
    PROVE  Calm'
<1>1. ASSUME NEW q \in Requests, NEW c \in Calls, Start(q, c)
      PROVE  Calm'
  BY <1>1, StartCalm
<1>2. ASSUME NEW q \in Requests, Select(q)
      PROVE  Calm'
  <2>1. UNCHANGED <<db, calm>>
    BY <1>2 DEF Select
  <2>2. q \in InFlight
    BY <1>2 DEF Select, ReadBusiness, SettleHomes, FetchPlace, ReadPlace, ReadHomes, ReadsHomes,
                InFlight, Reading
  <2>3. CASE ReadPlace(q)
    <3>1. ~calm
      BY <2>2, <2>3 DEF ReadPlace, Calm, Fresh
    <3> QED
      BY <2>1, <3>1 DEF Calm
  <2> QED
    BY <1>2, <2>1, <2>2, <2>3, ReadBusinessCalm, SettleHomesCalm, FetchPlaceCalm, ReadHomesCalm
       DEF Select
<1>3. ASSUME NEW q \in Requests, Commit(q)
      PROVE  Calm'
  <2> SUFFICES ASSUME calm PROVE Calm'
    BY <1>3 DEF Commit, Calm
  <2>1. q \in InFlight /\ pc[q] \in Writing
    BY <1>3 DEF Commit, InFlight
  <2>2. pc[q] # "remove"
    <3>1. OnRoad(call[q].op, pc[q]) /\ call[q].op \notin OfPlace
      BY <1>3, <2>1, CommitFacts
    <3> QED
      BY <3>1 DEF OnRoad, Ended, OfPlace
  <2> QED
    BY <1>3, <2>1, <2>2, DrawCalm, BusinessCalm, PropertiesCalm, ResidentsCalm, PlaceCalm
       DEF Writing
<1>4. ASSUME NEW q \in Requests, FailSelect(q) \/ Refuse(q) \/ FailWrite(q) \/ Crash(q)
      PROVE  Calm'
  BY <1>4 DEF FailSelect, Refuse, FailWrite, Crash, Calm
<1>5. CASE UNCHANGED vars
  BY <1>5 DEF vars, held, Calm, Alone, Shown, InFlight, MendsBusiness, MendsHome, Fresh,
              FreshBusiness, FreshHomes, HoldsHomes, Subject
<1> QED
  BY <1>1, <1>2, <1>3, <1>4, <1>5 DEF Next

\* Requests one after the other, none failing, keep the map in step with the
\* businesses and the homes, if it was at first and no two shared a place.
THEOREM PlacesAgree ==
    ASSUME StartsInStep
    PROVE  Spec => []CalmPlacesAgree
<1> DEFINE Good == \E f \in FirstStores : Apart(f) /\ Inv(f) /\ Calm
<1>1. Init => Good
  <2> SUFFICES ASSUME Init PROVE Good
    OBVIOUS
  <2>1. PICK f \in FirstStores : Inv(f)
    BY InitInv
  <2>2. Calm
    <3>1. InFlight = {} /\ \A q \in Requests : ~failed[q]
      BY DEF Init, InFlight, Reading, Writing
    <3>2. InStep(db)
      BY DEF Init, StartsInStep
    <3> QED
      BY <3>1, <3>2 DEF Calm, Alone, Shown, InStep
  <2> QED
    BY <2>1, <2>2 DEF StartsInStep
<1>2. Good /\ [Next]_vars => Good'
  BY NextInv, NextCalm
<1>3. Good => CalmPlacesAgree
  <2> SUFFICES ASSUME Calm, calm, InFlight = {} PROVE InStep(db)
    BY DEF CalmPlacesAgree
  <2>1. \A q \in Requests : \A i : ~MendsBusiness(q, i) /\ ~MendsHome(q, i)
    BY DEF MendsBusiness, MendsHome, InFlight, Reading, Writing
  <2> QED
    BY <2>1 DEF Calm, Shown, InStep
<1> QED
  BY <1>1, <1>2, <1>3, PTL DEF Spec

=============================================================================
