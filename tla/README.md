# Life Community OS: a TLA+ verification of its stateful core

Life Community OS is a multi-tenant platform for residential communities: a
Next.js application (`apps/web`), shared domain packages (`packages/*`) and a
Postgres schema with row-level security (`supabase/migrations`). What can go
wrong in ways a unit test hardly reaches is in the *repositories* and services of
`apps/web/src/lib`, called by the HTTP routes of `apps/web/src/app/api`. Nearly
every one of them

1. **loads** the whole store of its tenant with a few parallel `SELECT`s,
2. **decides** on that snapshot in JavaScript, and
3. **writes the whole snapshot back** with a few `UPSERT`s.

No transaction, lock or version check spans the three, and any number of requests
run at once. The control plane (tenants, operators, backups) lives in variables of
one process instead, and the web client keeps copies of everything, refreshed by
effects that cancel one another. This project models those protocols where most
depends on them, says what holds of them and proves the central part of it.

## 1. Inventory

| Component | State | Operations | What makes it hard | What makes it correct |
|---|---|---|---|---|
| **Reservations** (`lib/reservations`, `api/reservations`, `api/resources`) | tables `resources`, `resource_availability`, `reservations`, `reservation_participants` | book, change, cancel, confirm; create and manage resources | concurrent write-back of snapshots, partial reads and writes, row-level security, a capacity check that only some paths make | no place is sold twice; no booking is lost; what was answered is stored |
| **Experiences** (`lib/experiences`, `api/experiences`) | tables `experiences`, `experience_participants`, and bookings in Reservations | create, change, join, leave, invite, cancel | two stores written in turn, a waitlist, a facility shared with other activities | seats and bookings agree; a cancelled activity holds nothing |
| **Tenant factory, lifecycle, customers, data operations** (`lib/tenant`, `lib/platform`) | tenants, features, audit trail and backups in one process (customers and onboarding too, but no route can write them) | provision, activate, suspend, restore, archive, back up, restore | long sequences of legal calls by two routes, a capped trail, memory lost on restart | the trail tells the truth; suspended tenants take no write that asks the gate |
| **Membership and onboarding** (`lib/auth`, `lib/membership`, `api/admin/memberships`) | tables `persons`, `identities`, `memberships`; codes and invitations in the memory of the process | register, join with a code, accept an invitation, change role or status | rows made by separate statements, roles decided on a stale directory | one person per identity; administrators are promoted, never made by accident; blocked people stay out |
| **Communication** (`lib/communication`) | conversations, participants, messages | open, send, post, edit, delete, add people | four upserts in sequence, write-back of others' messages | only invited people in private threads; deleted messages stay deleted |
| **Community core** (`lib/community`) | posts, comments, reactions, notifications (and groups, events, saves) | publish, comment, react, moderate, notify | seven upserts in parallel under row-level security | references hold; announced posts exist; hidden posts stay hidden |
| **Media** (`lib/media`) | tables `media_assets`, `media_references`, and an object store | upload, delete, link | two stores, three statements, write-back | a file on offer has its bytes; links are unique |
| **Business, housing, locations** (`lib/business`, `lib/housing`, `lib/locations`) | `businesses`, `properties`, `property_relationships`, `locations` | register, edit, submit, review, move in; create, edit, delete places | two tables in step, owners and staff at once, everybody's homes written back | the map agrees with what stands on it; nobody loses a row; publication is the staff's |
| **Web client** (`providers/*`) | session, territory, bookings, feed, notifications of one tab | load, refill, patch, sign in and out | answers in any order, effects that trigger and cancel one another | a quiet screen agrees with the server; no list of another account |
| **Marketplace, help** | one table each, with a status | publish, change, withdraw | the write-back Places shows | no hazard of its own |
| **Participation, event backfill** (`lib/community`; modelled in `Experiences`) | none of its own | joins, invitations, the move of an event to an experience | a rerun that finds half of its work, two runs at once | an event moves once, its seats are backed |
| **Governance, privacy** | rules, reports, safety actions, consents, requests; in memory in production | report, decide, appeal, erase | state lost on restart | a decision is final and audited |
| **Launch, incidents, administration lists, trust signals, preferences, map, documents** | derived, presentational or one person's own | reads, checklists | none of the above | not planned |

How they interact: a route resolves a session into an actor (membership, role,
tenant), passes the gate of suspended tenants and calls one repository. Experiences
calls Reservations to book and release places; Business and Housing write Locations;
Reservations reads Experiences and Community for the context of a booking; a post
is announced by a second load and write of the community's store; mutations may
add an audit row (`lib/admin`), best effort. They share no state but the database
and, inside one process, the module-level variables of the platform, membership and
governance services. The hazards met while reading are in `PROJECT.json`, each at
its line with the properties about it, or with the reason why there is none: mostly that
the code goes wrong there, so that no property of it can hold.

## 2. Modules

| Module | What it models |
|---|---|
| `Seats` | Which bookings occupy places, interval overlap and the places a set of bookings holds (`packages/types/src/domain/resource.ts`). |
| `BookingLedger` | The abstract inventory: a booking enters the active set only if the bookings that overlap it leave room. |
| `Reservations` | The reservation repository and its routes, statement by statement; implements `BookingLedger` one request at a time. |
| `Attendance` | The abstract activity: who is seated, who waits, and when a seat may be given. |
| `Experiences` | The experience repository and the calls it makes into the reservation repository; implements `Attendance` one request at a time. |
| `Stores`, `WriteBack` | The protocol load / decide / write back, parameterised by tables, order of upserts, visibility and constraints; with failed reads and writes, lost answers and crashes. |
| `Communication`, `Community`, `Media` | Three repositories as instances of `WriteBack`: what each decides (`Decide`), sees (`Visible`) and may store (`Accepts`). |
| `Membership` | Persons, identities and memberships, statement by statement. |
| `Places` | Businesses, homes and residents and their locations, statement by statement. |
| `Platform` | Tenants, trail, backups and the gate of members' writes, handler by handler. |
| `Client` | One browser tab: rendering, effects, calls and what the member does. |
| `MC...` | An instance of each for TLC: people, rows, and the calls its run offers. |
| `ReservationsProofs`, `ExperiencesProofs`, `MembershipProofs`, `CommunityProofs`, `CommunicationProofs`, `PlacesProofs`, `PlatformAndClientProofs`, `MediaProofs` | Theorems. |

### How a request is modelled

A request is an element of `Requests`; its id is also the id of the row it
creates (the code mints a fresh UUID). `pc[q]` is where it is between its
`await`s, `call[q]` the parsed and authorised call, `snap[q]` or `seen[q]` the store
it has loaded, `loaded[q]` the `SELECT`s that were answered, `todo[q]` the statements
still to come, `out[q]` or `work[q]` what they will write, `failed[q]` whether one of
them failed. A table is a function from row ids to rows.

- `Start` is the route up to the repository call. Only calls that routes let through
  are in `Calls`; authorisation that depends on rows is part of the decision.
- `Read` is one `SELECT`, and the order of parallel ones is free. `FailRead` is a
  `SELECT` that fails: most repositories look at the error of one or two tables only
  (`Critical`), and take a table they could not read for an empty one.
- `Decide...` (`Settle` in `WriteBack`) is the JavaScript between the last `SELECT` and
  the first write: it runs without interruption. A thrown error is answered with 4xx.
- `Commit` (in `Experiences` and `Places`, actions named for the table) is one `UPSERT`
  of every row of the snapshot. Tables of one `Rank` are sent in parallel, those of a
  later rank only when the earlier ones were accepted.
- A statement may be refused by a policy or a constraint (`PolicyAllows`, `Accepts`,
  `ReferencesHold`, `Admissible`), may fail, or may take effect and lose its answer
  (fault `write`). A request whose statement failed is answered with an error.
- `Crash` (fault `crash`) ends a request between any two steps.
- A call that loads twice has two rounds (`Rounds`): a post and its announcement.

`Reservations`, `Community` and `Media` have two planes, like
`createDomainDatabaseClient`: the service-role client sees and writes everything, the
signed-in person's client is subject to the policies of the migrations, where an
`UPSERT` is refused as a whole when one proposed row is. `Communication`,
`Experiences` and `Places` are modelled for the service client: under a token every
request of Communication fails (a policy refers to itself), and so do staff reviews
and every request for a home.

`Platform` has one action per handler, because its handlers run to their end without
yielding; `Crash` forgets everything the process kept. `Client` has an action for
rendering (several state updates may be rendered at once), one each for the server
treating a post, for an answer and for a lost call, and one per thing a member does.
An effect that runs again cancels what it was loading, so that a list has one load that
counts (`loading`), answered by `Arrive` or lost by `Fail`; refills, sessions,
territories and posts are never cancelled and wait in the order they were sent (`calls`).

Abstractions: one tenant (except in `Platform`) and one territory; one day, in which a
time window is a pair of minutes; statuses the code never tells apart are merged;
titles, prices, bodies, names and metadata are left out. In `Experiences` the linked
facility does not change and bookings are of one place each, as joins make them. The
file store of development and tests is not modelled: every run is of the production
path, where a failed write becomes an error.

## 3. Runs

| Run | Question | Bounds |
|---|---|---|
| `exp_serial` | Requests one at a time on two experiences that share a hall: do seats and bookings tell the same story, is the hall ever overfull, are the tables an `Attendance`? | 4 requests, overlapping hours |
| `exp_pair` | Two at a time: is whoever is listed backed by a booking of theirs, does an event move to an experience once, can an answered join leave a booking nobody sees? | 3 requests, 2 in flight; every fault |
| `serial` | One booking request at a time: do answers hold, are the tables a `BookingLedger`, does a court go either to members or to the class held on it? | 3 requests; crashes |
| `policy` | Two at a time as signed-in people: can a write-back lose a booking or change somebody else's, is an answered or announced booking stored? | 3 requests, 2 in flight; failed reads and writes |
| `race` | Two bookings at once of one place: finds `NeverOverbooked` violated. | 2 requests |
| `platform` | Does the trail name the status a tenant has, and does a suspended tenant take no write that asks `requireMutationActor` until an operator decides otherwise? | 2 tenants, a trail of 2 entries, 2 backups, 5 requests, 1 restart |
| `communication` | Who can be in a private thread, what brings a deleted message back, do answered calls take effect? | 2 requests in flight; every fault |
| `community` | Do announcements name stored posts, what republishes a hidden post, do answered calls take effect? | 2 requests in flight, one person with a token; every fault |
| `membership` | Who can become an administrator, on which directory, and who lets a blocked member in again? | 3 requests in flight; every fault |
| `media` | Is a file on offer there, what brings a deleted one back, is a link made once? | 3 requests, 2 in flight, one person with a token; failures of the database and of the object store |
| `places` | Does the map agree with the businesses and homes on it, does a row change hands, who publishes a business? | 3 requests, 2 in flight; every fault |
| `client` | Does a quiet screen agree with the server, even one account's after another's, do notifications follow the account, does every screen come to rest? | 2 members, 2 acts, 1 lost call |

Deadlock is not checked: a system whose requests were all answered, whose operators
have spent their requests, or whose member does nothing more, has nothing left to do.

**Why the bounds are enough.** A lost update, a write-back or a double sale needs one
request that acts between the load and the write of another, so two in flight show
it, and a third before, between or after them shows what it does to what was already
answered. A deleted, hidden or cancelled row that comes back needs the deletion and
one stale store. A revival of a booking needs three calls in a row (book, cancel, book
or confirm); leaving and coming back while somebody overtakes needs four. The two
windows overlap without being equal, and resources have one or two places, so that
"the last place" is every place. The stored rows a run begins with (`FirstStores`,
`Stored`, `Seeded`) are those earlier requests would have made, which saves the
requests that make them. On the platform, five requests are enough to provision, back
up, suspend, restore and try again, a trail of two entries is shorter than that
sequence, so that eviction happens, and one restart is one more than the
process survives with its memory. Two acts are enough for two
accounts to meet on one screen: a sign-out and a sign-in, or a sign-in on the sign-in
page, where a tab may begin, and an act with what was left there.

The faults are spread over the runs of `Reservations` and `Experiences` to keep each
run below two minutes; for the types, permanence, own-bookings and answered-booking
properties of `Reservations` the theorems cover all faults and any number of requests.
`Experiences` has every fault in `exp_pair` and none in `exp_serial`, whose properties
speak of whole, undisturbed requests. Of the properties, some are about calm
sequences only and say so themselves: `NoHiddenBooking`, `CalmPlacesAgree` and
`CalmScreenAgrees` carry the state that makes them calm in their definition.
`FacilityNotOverbooked` is about the bookings that asked the facility, and says so in
its definition: the service branch and a change of time do not look at it (below), so
that a class booked as a service or moved into another hour can meet the court's own
booking. The calls of `serial` do both, which shows that such bookings do not spoil the
count for the others.

### The violation

`race` checks what a test of the repository is named for
(`reservations-isolation.test.ts:235`, "TEST 7: availability prevents double
booking"): two requests count the places in use on the same snapshot and each writes
its booking by a later statement, so both get the last place. The test books one
after the other.

### What else the models show

The models contain more ways to break promises of the code's documents and comments.
They have no run of their own; each is one call, constant or property away from a run
above.

*Reservations.*
- A cancelled booking is confirmed again by a bare status change, after its place was
  sold. The theorems and the ledger therefore speak of *counted* bookings.
- A signed-in member's client cannot see the bookings of others, and counts none
  (`Plane = "jwt"`, one in flight); a failed `SELECT` of the bookings reads as "no
  bookings" (`Faults = {"read"}`). Either overbooks without any concurrency.
- A cancellation that was answered is undone by a request that loaded before it.
- A class booked as a `service` takes a court that is already booked.
- Participants that reach the database before their booking are refused by the foreign
  key, and the booking stays without its owner's participant row.
- Row-level security refuses a later statement of a store whose booking was already
  stored: the caller sees an error and has a booking (compare
  `reservations-isolation.test.ts:84`).
- An audit entry that cannot be inserted is only logged (`Finish`).

*Experiences.*
- Nothing promotes the waitlist when a seat is freed (`ADR-027:180` has "Waitlist
  promoted | Seat available").
- `PATCH` to `cancelled` sets the status and releases no booking (compare `ADR-031:203`).
- The `CHECK` of the table refuses the role `invited`, so that no invitation of
  the production plane is stored (compare `community-participation-isolation.test.ts:187`).
- Two joins at once take the last seat; a join that loaded before a cancellation
  writes the experience back as published; a join that races a leave, or a leave that
  could not read the bookings, leaves a hidden booking.
- Two overlapping backfills of an event, or one whose last load comes after a change,
  reset the experience; one that stops between its two upserts leaves it without its
  host for good, because the next run finds the experience and skips the rest. A
  cancellation that fails half-way leaves seats without an active booking. The
  participants of an event are not stored in the database, so nobody is enrolled.
- With an access token a join is answered with an error after its seat was taken,
  because the conversation of the experience cannot be opened.

*Platform.*
- `mark_ready` of the provisioning route activates an archived tenant without a restore,
  leaving its subscription cancelled (`TENANT_LIFECYCLE_AUDIT.md:30` has "archived →
  active solo vía restoreTenant()").
- A restart forgets a suspension (`TENANT_LIFECYCLE_AUDIT.md:56`).
- No customer is ever made over HTTP: `POST /api/platform/customers` demands a `tenantId`
  in the body (`customers/route.ts:63-66`) and passes it to a service that refuses any body
  with one (`customer-operations-service.ts:105-108`), and so do its siblings for the
  configuration, the plan, notes, checklists and the completion of an onboarding.
  Alerts and the look at a customer's health remain (`Annotate`).
- Redeeming a community code, accepting an invitation and registering do not pass
  `requireMutationActor`: they write in a suspended tenant. `Write` stands for the routes
  that do.
- Backups and exports contain only territories in production, and a restore does not
  restore those. The trail drops its oldest entries. The limit on territories is
  checked nowhere. Provisioning with an administrator and no territory stores a
  tenant and leaves no entry.

*Membership.*
- In production a registration always fails after it has stored a person and an
  identity: the status `pending` it inserts is refused by the `CHECK` of the table,
  although the route's comment says the membership stays pending. Joining
  with a code never succeeds there for somebody without a membership: codes are not seeded
  and no route issues an invitation (compare
  `membership-experience-recovery-isolation.test.ts:68`). Only the same `CHECK` keeps a
  registrant from becoming an administrator when the count of members fails or is zero.
- A block is undone by a join in flight. A plain member can be made administrator in one
  step by a request whose directory is out of date. The last administrator can be
  demoted or blocked. Two registrations at once leave a person without identity.
- The statuses `pending`, `invited`, `suspended` and `removed` an administrator may choose
  are refused by the table.

*Communication.*
- A deleted message is brought back by a request that loaded before the deletion.
- A conversation stored without its participants, because the second statement failed or
  the process died, closes a direct thread for good and leaves an open one without owner.
- A stored `locked` or `archived` status is not read, and is written back as active.
- Every request of a signed-in client fails, since the policy on participants refers to
  its own table.

*Community.*
- A removed reaction or save is never removed: the store is upserted without it. Event
  participants, group memberships, participation privacy and the details of an
  announcement are answered with success and not stored.
- When the second round of a publication fails the caller sees an error and the post
  is stored. With an access token every statement that holds other people's rows is
  refused, a moderator's included (compare `community-isolation.test.ts:96`, "TEST 4
  — moderator can moderate").

*Places.*
- An approval and a suspension that overlap, or a synchronisation that fails, leave a
  suspended business on the public map. An owner's edit of the location can publish a
  draft's place; an edit between the two statements of a registration unlinks it. A
  deleted location is brought back by a stale upsert. Whoever first edits a location
  without an owner becomes its owner, until another member of the staff who had read it
  as nobody's writes it as well: `OwnersArePermanent` leaves such places out (`Unowned`). Each edit of a home drops its territory.

*Media.*
- A reference that is invalid is refused after the bytes and nothing else were stored;
  a deletion undone by a stale write-back leaves a file on offer without its bytes.
- With an access token an owner's deletion is refused after the bytes are gone, and
  once somebody else's reference is visible to them every link they make is refused.
  Of two calls that make the same link at once, one is answered 500. References of
  deleted files stay.

*Client.*
- The sign-in page is open to members (`middleware.ts:13-21`, `LoginScreen.tsx:17-60`), and
  the effects that load bookings and feed depend on there being a membership, not on
  whose it is (`ReservationProvider.tsx:122`, `CommunityInteractionProvider.tsx:100`). Whoever
  signs in there over the screen of another account, however calmly, goes on with that
  one's bookings and feed; the notifications follow. `CalmScreenAgrees` says so:
  `displaced` remembers such a sign-in until somebody signs in over a guest's screen.
- Signing out refreshes the page, and the middleware answers with the sign-in page.
- A refill answered after the sign-out fills a guest's lists. A
  session answer overtaken by the sign-out shows the member as signed in until the
  next navigation. Refills answered out of order leave the older list.
- A load of the bookings that the network rejects leaves the provider unready for
  good. A reaction the server refused, or one taken back, stays on the screen or in the
  store.

### Fairness

Only `Client` has a liveness property, `ScreenSettles`, under `WF_tab(Progress)`: React
renders a state that was set, the server treats what it was sent, and a call is answered
or rejected by the network. Nothing is assumed of the member: no act has to happen. The
requests on the server terminate by construction, a finite list of awaited calls;
asking more of them would be asking the database to answer. The waitlist would be the other
candidate, and no step of the code promotes it, so there is nothing whose fairness
could be assumed.

## 4. Theorems

| Module | Theorems | Property of a run |
|---|---|---|
| `ReservationsProofs` | `LedgerKeepsCapacity` | |
| | `ReservationsTypeCorrect` | `TypeOK` |
| | `BookingsAreNeverLost` | `BookingsArePermanent` |
| | `AnsweredBookingsAreStored` | `AnsweredBookingIsStored` |
| | `OthersBookingsAreSafe` (signed-in client) | `OnlyOwnBookingsChange` |
| | `SerialRequestsImplementLedger`, `SerialRequestsKeepCapacity` (one request at a time, service client, no failed `SELECT`) | `SerialBookingsFollowLedger` |
| | `AnsweredChangesAreKept` (likewise) | `AnsweredChangesHold` |
| | `FacilitiesAreNotOverbooked` (likewise) | `FacilityNotOverbooked` |
| `ExperiencesProofs` | `ExperiencesInvariant`, `ExperiencesTypes` | `TypeOK` |
| | `ListedSeatsAreBacked` | `SeatsAreBacked` |
| | `RequestsDecideOnTheTables` (as long as no two requests overlap) | |
| | `EventsAreMovedOnce` (likewise) | `EventsMoveOnce` |
| | `BookingsAreNotHidden` (likewise) | `NoHiddenBooking` |
| | `FacilitiesAreNotOverfull` (likewise), `FacilitiesOneAtATime` (`OneAtATime`) | `FacilityNotOverfull` |
| | `EverySeatHasItsBooking` (`NothingFails`), `SeatsAndBookingsAgree` (and `PatchesDoNotCancel`) | `SeatAndBookingAgree` |
| | `AttendanceIsKept` (`StatementsWork`) | `SerialAttendance` |
| `MembershipProofs` | `MembershipInvariant`, `MembershipTypes` | `TypeOK` |
| | `MembershipPromotion` | `AdministratorsArePromoted` |
| | `MembershipNoJump` | `NobodyJumpsToAdministrator` |
| | `MembershipBlocks` | `BlockedStayBlocked` |
| `CommunityProofs` | `CommunityInvariant`, `CommunityTypes` | `TypeOK` |
| | `CommunityAnnouncements` | `AnnouncedPostsExist` |
| | `CommunityAnswers`, `CommunityGrows` | `AnsweredCallsTookEffect` |
| | `CommunityRepublishing` | `OnlyStaleStoresRepublish` |
| `CommunicationProofs` | `CommunicationInvariant`, `CommunicationTypes` | `TypeOK` |
| | `PrivateThreadsStayPrivate` | `PrivateThreadsAreInvited` |
| | `CommunicationAnswers`, `CommunicationStands` | `AnsweredCallsTookEffect` |
| | `CommunicationRevival` | `OnlyStaleStoresRevive` |
| `PlacesProofs` | `PlacesInvariant`, `PlacesTypes` | `TypeOK` |
| | `PlacesOwners` | `OwnersArePermanent` |
| | `PlacesPublished` | `PublishedByReview` |
| | `PlacesAgree` (if the map is in step at first, `StartsInStep`) | `CalmPlacesAgree` |
| `PlatformAndClientProofs` | `TabTypes` (of `Client`) | |
| | `FollowsTheAccount` | `NotificationsFollowTheAccount` |
| | `CalmScreensAgree` | `CalmScreenAgrees` |
| | `PlatformInvariant`, `PlatformTypes` | `TypeOK` |
| | `PlatformTrail` | `TrailAgreesWithStatus` |
| | `PlatformQuiet` | `SuspendedTenantsAreQuiet` |
| `MediaProofs` | `MediaInvariant`, `MediaTypes` | `TypeOK` |
| | `MediaBytes` | `ReadyAssetsHaveBytes` |
| | `MediaAnswers` | `AnsweredCallsTookEffect` |
| | `MediaRestores` | `OnlyStaleStoresRestore` |

They hold for every value of the constants that satisfies the named `ASSUME`s
(`ReservationConstants`, `NoRowIsNoEntry`; `ExperienceConstants`; `PeopleAssumption` and `CallsAssumption` of
`Membership`; `CallsAssumption`, `IdsAssumption` and `SeedAssumption` of `Community`, of `Communication` and of `Places`;
`PlatformConstants`; `ClientConstants`; `MediaCalls`, `MediaSeeds`): the shape of calls, fresh ids, a
consistent first store, finite sets. Faults and the number of requests in flight are
arbitrary unless stated otherwise.

- *Capacity.* A booking that covers minute `t` overlaps every window that contains
  `t`, so the bookings that hold `t` are among those `Fits` counted
  (`CountedBookingLeavesRoom`). `CapacityAtEveryMinute` with `TypeOK` is inductive; only
  finiteness and monotonicity of `SeatsOf` are needed.
- *Permanence of bookings.* `BookingsArePermanent` is not inductive: a snapshot in flight
  could hold another version of a row. `RowsMatchCalls` says that every row, stored or
  loaded by anyone, is what the request that created it asked for; an `Upsert` of
  such rows over such a table cannot change a booking's identity, and removes none.
- *Answered bookings.* `BookingInProgress` links a writing request's statements to the
  rows: until a statement is done its row is in the snapshot, afterwards (if none
  failed) in the table; with permanence this carries over the answer.
- *Others' bookings.* Under the policies an `UPSERT` is refused as a whole when it
  proposes a changed row of somebody else (`CommitChangesOwn`), and nothing but an
  `UPSERT` changes a booking.
- *Refinement.* `SerialInv` says that at most one request is in flight, that what it
  has read is what the tables still hold, and that what it is about to write is one
  counted step from them. Only the `UPSERT` of the bookings changes the ledger; every
  other step stutters. The ledger's theorem is then applied through the refinement
  mapping. Each hypothesis is needed (section 3).
- *Answered changes.* Every request writes the whole store back, so an answered change
  lives on only because one request at a time reads what is stored: what it is about to
  write differs from the tables in its own row alone (`WritesAreCounted`,
  `ResourceWritesAreCurrent`), a resource being created is not there yet
  (`NewResources`), and a change in hand is in the snapshot until its statement is done
  and in the table afterwards (`ChangesInHand`).
- *Facilities.* A booking of the facility counts the activities on it, an activity asks
  that a place of the facility be free; `RoomIsStillThere` keeps what either found true
  until its bookings are written, and `BookedResourcesExist` keeps the activities in the
  count. At a minute, the holders and activities are among those counted for any
  interval around it (`PartyFits`, `ActivityFits`). The facility is one that exists from
  the start: `linked_resource_id` is no foreign key, and the check is skipped for a
  facility that is not there.
- *Experiences, any interleaving.* `Inv` says that a row, stored or held by a request, is
  of the experience and the person its id tells, and so is its booking (`Named`); that
  rows refer to what is stored and each person has one per experience; and that a join
  that has come as far as its write keeps a row for its person. Since ids tell, a stale
  snapshot written over a table cannot turn a booking into somebody else's.
- *Experiences, one after the other.* While requests do not overlap (`apart`, a variable
  that remembers it), a request has read what is stored, and what it is about to write
  is one decision away from it (`SeqInv`): one row for a join, a departure, a creation,
  the occupying rows for a cancellation, and one booking. That is what the code takes for
  granted, and the next theorems follow from it step by step: an event is moved only
  where no experience is; a booking is counted on the bookings it is stored with, so that
  a new one fits at every minute its interval covers; a booking in force has its
  participant or a request that is about to list them.
- *Two stores, one story.* When nothing fails, every active booking has its participant
  (`Backed`), and every participant has an active booking or a request that will clear
  the row (`SeatsHeld`). A cancelled experience then has none: a participant's booking
  is among the linked ones, which are released before the status is written. `PATCH`
  releases nothing, so that a patch to `cancelled` would leave them:
  `PatchesDoNotCancel` excludes just that call, and `EverySeatHasItsBooking` needs no
  such assumption.
- *Attendance.* Each of the last two statements of a request is a step of `Attendance`
  or a stutter: the experiences are written as `Open` or `Change`, the participants as
  `TakeHostSeat`, `Enroll`, `Queue`, `Withdraw` or `Dismiss`. `Enroll` has a seat free because
  rows are at least as many as the persons they seat. Processes may die: a
  cancellation that dies after its first statement has closed the activity and not
  emptied it, which `Attendance` allows. A first statement that fails unnoticed is not
  covered, since the seats would be emptied of an activity that is still open.
- *Hypotheses on the traffic.* `OneAtATime` is `MaxInFlight = 1` and no failed `SELECT`;
  `StatementsWork` adds that no write fails, `NothingFails` that no process dies either.
  Section 3 lists what the code does without them: they are the conditions under which
  the repository keeps its promise, and the runs of `ExperiencesPair` show the others.
- *Membership.* The roles cannot be shown safe from the code's own checks, which are
  made on whatever a request has read. What is inductive is that no `INSERT` of a
  membership ever takes effect: `pending` is refused by the `CHECK`, and `active` is only
  tried for somebody who has a row. The rest follows by the updates, each with the
  directory it was decided on.
- *Community.* Rows only grow and keep their author and recipient, so what was read
  agrees with what is stored in both; what is written was decided on what was read
  (`Inv`); and a row with a request's id is that request's. An announcement is
  written in the second round, which begins only when the first was accepted.
- *Communication.* Conversations and participants never change once stored, so what a
  request has read of them still holds when it writes (`Agrees`); a role can only be had
  by a row, and a row in a private conversation was made with its founder, or by a
  request that had read its caller's role there. The rows of that decision arrive by one
  statement, so that founder and invited are inside together (`Entitled`). Of messages
  only the status changes, and a deleted one is written as deleted by every request
  that read it so. Neither that a thread's `SELECT` of participants may fail, nor the
  order of statements, nor a lost answer needs a hypothesis.
- *Places.* A row's owner, place and home are those of the first store or of the call of the
  request it is named after. The invariant says so of the tables and of whatever a
  request is about to write (`PlaceAs`, `BusinessAs`, `HomeAs`, `ResidentAs`), so that a snapshot
  of all homes written back cannot change them, and that a review has passed the
  check of the staff, a submission holds `pending_review` (`KnowsBusiness`). The rest, statuses, offers and visibility, may
  come from any age. Of those `Calm` speaks, while requests do not overlap or fail: what
  was read is what is stored (`FreshBusiness`, `FreshHomes`), and the only rows that the
  map does not show as they are belong to the request in flight, which will (`MendsBusiness`,
  `MendsHome`). Nobody else stands at the place it writes: businesses have theirs
  by a unique index, homes because every registration makes one; `Apart` asks it of the
  first store, with `InStep`, which `MCPlaces` assumes of its own and TLC checks.
- *Platform.* The trail drops old entries and is lost with the process while seeded tenants
  come back, so what is inductive is said of every entry and not of the last one: it tells
  the status as it is unless a newer one does (`TrailIsTrue`), it names nobody who is absent
  (`NamesKnown`), and what operators decided since the start still holds (`Decided`). The
  newest backup of a tenant exists because initial segments of the list are well-founded
  under inclusion.
- *Client, in any hurry.* What a quiet screen shows is decided by the calls before it
  was quiet, so the invariant is about those. Unless a session was lost or taken for a
  newer one, the last session asked for was asked for the account that counts, and is on
  its way, unless a still later one has been answered, or on the screen (`LastSessionCounts`);
  and the notifications that load, or were last shown, were requested for the person of
  the last rendering (`NotificationsRequested`): cancelling a load is what makes the second
  inductive. An answer is taken out of the middle of the calls and a rendering adds to
  their end: `DeliverCalls`, `RenderCalls` and their like tell which place held what before.
- *Client, calmly.* While a member waits after every step, one thing
  happens at a time. A session, a refill or a post is alone on its way, with everything
  rendered (`AloneOnItsWay`); loads are made for the account that is signed in and will
  bring what is stored (`CalmCalls`); the session on the screen is the account's unless a
  token ran out, or somebody signed in over another one's screen and the answer is still
  to come (`CalmSession`); and where a list does not agree with the store, what
  is on its way is a post or a refill that makes it so (`BookingsAgree`,
  `NotificationsAgree`, `FeedAgrees`). Another person's bookings and feed are on the screen
  only where somebody signed in over it (`Owned`, `displaced`): a rendering that finds
  a membership where there was none reloads them, one that finds another person
  with a membership does not. A token that runs out elsewhere than on the sign-in
  page lets the lists go wrong, which is why they are only spoken of while that
  is not so (`Kept`). `Orderly` is these together; after a sign-out a session, a territory and
  the refresh of the page overlap, and all that is said then is that everything on its way
  leads to a guest's empty screen (`Gone`). The number of steps and the
  order of answers are arbitrary; what the theorem assumes of the member and the network
  is in `CalmScreenAgrees` itself, and section 3 lists what happens without it.
- *Media.* `Backed` says of every store, the database's and each one in flight, that
  a file it offers has its bytes or that a deletion explains their loss. Owners and the
  ends of links never change.

`PlatformAndClientProofs` holds two components that share nothing, neither state nor a
name, so that one module can extend both.

What is only model-checked: `ScreenSettles`, which is liveness: the prover handles neither
fairness nor `ENABLED`. It handles no `RECURSIVE` operators either; no module with a theorem
uses them. Of the runs' safety properties only `NeverOverbooked` has no theorem: the
code violates it.

## 5. Not modelled, and the plan

In the modelled components:
- *Reservations*: bookings whose context is a community event, or a service that names no
  stored resource (the last branch of the service context, `createReservationServer`
  lines 1112-1118: such a booking has no resource and occupies nothing), territories, prices,
  notifications.
- *Experiences*: a change of facility, a facility that is missing or not bookable (the
  refusals at `server-reservations-repository.ts:1155-1162`), the client of a signed-in person, conversations and
  notifications that follow a join.
- *Platform*: limits, plans, branding, contracts, the customers no route can write, security events, the
  verification of a backup and the lists of exports and restores.
- *Membership*: audit entries, territories, the reading of requests for approval.
- *Communication*: attachments, replies, notifications.
- *Community*: groups, events and their participants, saves; they take the same road as
  the tables that are modelled.
- *Places*: catalogue seeds, territories, an id chosen by the client of
  `POST /api/locations`, token clients; `listLocationsForMapVisibility` is used by tests only.
- *Media*: names, types, sizes and signed addresses.
- *Client*: a second tab, empty lists in place of refused answers, slots, publications and
  saves. A cookie is only cleared in the browser: a request already sent with it is
  honoured, as in the model.

Components without a module, and why:
- *Marketplace, help*: one table each, loaded and written back; an owner's change carries
  the status that was read, as in `Places`.
- *Governance, privacy*: in production their state is kept by one process and changed by
  synchronous steps; a restart loses it. Two first loads that overlap each install an
  empty store. The next module, with `Crash` and the database plane the code prepares.
- *Durable documents*: one JSON document per tenant, whole-document upserts, last
  writer wins; the plane of development.
- *Launch, incidents*: checklists from constants, statuses an operator sets freely.
- *Trust signals, preferences, life places, administration lists, map and geocoder, the
  listing and publisher rules, tenant packs*: derived, presentational, one person's own, or
  called by nothing that keeps state.

Next, in order:
1. `Governance` and `Privacy` with restarts and two processes.
2. Groups, events and saves in `Community`; the signed-in client in `Experiences`.
3. The development plane: the JSON file store and its read-modify-write.
