----------------------------- MODULE Membership -----------------------------
(***************************************************************************)
(* Who belongs to a community, and as what: accounts, people and the       *)
(* memberships of one tenant on the production data plane.  Registration   *)
(* and joining find or create a person, an identity and a membership by    *)
(* separate statements (ensureSupabaseMembership); administrators change   *)
(* roles and statuses through the directory they have read.                *)
(*                                                                         *)
(* The audit entry that follows a change is best effort and left out, as   *)
(* are names, territories and the invitations administrators e-mail: no    *)
(* route reads them, and accepting one always fails after the person was   *)
(* looked up.                                                              *)
(***************************************************************************)
EXTENDS Naturals, FiniteSets

CONSTANTS Requests,        \* HTTP calls; also the ids of the people they create
          Users,           \* accounts of the authentication provider
          Seeded,          \* people stored before the first request
          FirstIdentity,   \* [Users -> Seeded or NoPerson]
          FirstMembership, \* [Seeded -> Row or NoRow]
          Calls,           \* what a client may ask for
          CodesAreSeeded,  \* FALSE where NODE_ENV is production
          MaxInFlight,     \* bound: requests between their start and answer
          Faults,          \* the failures considered: "read", "write", "crash"
          NoCall, NoPerson, NoRow

Roles == {"member", "group_manager", "moderator", "administrator"}

\* The CHECK of the table; the code declares four more statuses and writes them.
Declared == {"active", "inactive", "ended", "pending", "invited", "suspended", "removed"}

AllowedAsDeclared(status) == status \in Declared              \* mutant

Allowed(status) == status \in {"active", "inactive", "ended"}

Row == [role : Roles, status : {"active", "inactive", "ended"}]

People == Seeded \cup Requests

ASSUME PeopleAssumption ==
    /\ Seeded \cap Requests = {}
    /\ NoPerson \notin People
    /\ NoRow \notin [role : Roles, status : Declared]
    /\ FirstIdentity \in [Users -> Seeded \cup {NoPerson}]
    /\ FirstMembership \in [Seeded -> Row \cup {NoRow}]

ASSUME CallsAssumption ==
    /\ NoCall \notin Calls
    /\ \A c \in Calls :
          /\ c.user \in Users
          /\ c.op \in {"register", "join", "accept", "role", "status"}
          /\ c.op \in {"role", "status"} => c.person \in People
          /\ c.op = "role" => c.role \in Roles

VARIABLES persons,      \* those stored
          identities,   \* the person of each account
          memberships,  \* of each person in the tenant
          pc, call,
          person,       \* the person a request has found or made
          known,        \* the membership it has read
          want          \* the status a new membership would get

tables == <<persons, identities, memberships>>
vars == <<tables, pc, call, person, known, want>>

Init == /\ persons = Seeded
        /\ identities = FirstIdentity
        /\ memberships = [p \in People |-> IF p \in Seeded THEN FirstMembership[p] ELSE NoRow]
        /\ pc = [q \in Requests |-> "idle"]
        /\ call = [q \in Requests |-> NoCall]
        /\ person = [q \in Requests |-> NoPerson]
        /\ known = [q \in Requests |-> NoRow]
        /\ want = [q \in Requests |-> "none"]

Reading == {"session", "identity", "membership", "count", "resolve", "directory"}
Writing == {"person", "link", "insert", "activate", "update"}
InFlight == {q \in Requests : pc[q] \in Reading \cup Writing}

Go(q, step) == pc' = [pc EXCEPT ![q] = step]

End(q, answer) == /\ Go(q, answer)
                  /\ person' = [person EXCEPT ![q] = NoPerson]
                  /\ known' = [known EXCEPT ![q] = NoRow]
                  /\ want' = [want EXCEPT ![q] = "none"]
                  /\ UNCHANGED call

Keep == UNCHANGED <<call, person, known, want>>

Start(q, c) ==
    /\ pc[q] = "idle" /\ Cardinality(InFlight) < MaxInFlight
    /\ Go(q, IF c.op = "register" THEN "identity" ELSE "session")
    /\ call' = [call EXCEPT ![q] = c]
    /\ want' = [want EXCEPT ![q] = "pending"]
    /\ UNCHANGED <<tables, person, known>>

-----------------------------------------------------------------------------
(* SELECTs.                                                                *)

IsActive(p) == p # NoPerson /\ memberships[p] # NoRow /\ memberships[p].status = "active"

Operates(p) == IsActive(p) /\ memberships[p].role = "administrator"

Administers(c) == c.op \in {"role", "status"}

\* The person p of the request is known: try the code.
TryCode(q, p) ==
    IF call[q].op = "join" /\ CodesAreSeeded
    THEN /\ Go(q, "resolve")
         /\ person' = [person EXCEPT ![q] = p]
         /\ UNCHANGED <<call, known, want>>
    ELSE End(q, "rejected")

Session(q) ==
    LET p == identities[call[q].user]
    IN IF Administers(call[q])
       THEN IF Operates(p) THEN Go(q, "directory") /\ Keep ELSE End(q, "rejected")
       ELSE IF IsActive(p) THEN TryCode(q, p) ELSE Go(q, "identity") /\ Keep

FindIdentity(q) ==
    LET p == identities[call[q].user]
    IN /\ Go(q, IF p = NoPerson THEN "person" ELSE "membership")
       /\ person' = [person EXCEPT ![q] = p]
       /\ UNCHANGED <<call, known, want>>

\* A membership of any status will do.
FindMembership(q) ==
    IF memberships[person[q]] = NoRow THEN Go(q, "count") /\ Keep
    ELSE IF call[q].op = "register" \/ want[q] = "active" THEN End(q, "ok")
    ELSE TryCode(q, person[q])

NewRow(q, role) == [role |-> role, status |-> want[q]]

\* The first active member of a tenant administers it.
Count(q) ==
    /\ Go(q, "insert")
    /\ known' = [known EXCEPT ![q] =
          NewRow(q, IF \E p \in People : IsActive(p) THEN "member" ELSE "administrator")]
    /\ UNCHANGED <<call, person, want>>

ResolveAny(q) ==                                              \* mutant
    /\ want' = [want EXCEPT ![q] = "active"]
    /\ known' = [known EXCEPT ![q] = memberships[person[q]]]
    /\ Go(q, "activate")
    /\ UNCHANGED <<call, person>>

\* commitOnboardingMembership: an active membership is made active, by a later
\* statement; where there is none one is sought, or made, again.
Resolve(q) ==
    /\ want' = [want EXCEPT ![q] = "active"]
    /\ IF IsActive(person[q])
       THEN known' = [known EXCEPT ![q] = memberships[person[q]]] /\ Go(q, "activate")
       ELSE Go(q, "identity") /\ UNCHANGED known
    /\ UNCHANGED <<call, person>>

CanAssignAny(from, to) == TRUE                                \* mutant

\* canAssignMembershipRole
CanAssign(from, to) == ~(from = "member" /\ to = "administrator")

Directory(q) ==
    LET c == call[q]
        row == memberships[c.person]
    IN IF row # NoRow /\ (c.op = "role" => CanAssign(row.role, c.role))
       THEN /\ Go(q, "update")
            /\ known' = [known EXCEPT ![q] = row]
            /\ UNCHANGED <<call, person, want>>
       ELSE End(q, "rejected")

Select(q) ==
    /\ UNCHANGED tables
    /\ \/ pc[q] = "session" /\ Session(q)
       \/ pc[q] = "identity" /\ FindIdentity(q)
       \/ pc[q] = "membership" /\ FindMembership(q)
       \/ pc[q] = "count" /\ Count(q)
       \/ pc[q] = "resolve" /\ Resolve(q)
       \/ pc[q] = "directory" /\ Directory(q)

\* No error of these SELECTs is looked at: what was not read is not there.
FailSelect(q) ==
    /\ "read" \in Faults
    /\ UNCHANGED tables
    /\ \/ /\ pc[q] = "session"
          /\ IF Administers(call[q]) THEN End(q, "rejected") ELSE Go(q, "identity") /\ Keep
       \/ pc[q] = "identity" /\ Go(q, "person") /\ Keep
       \/ pc[q] = "membership" /\ Go(q, "count") /\ Keep
       \/ /\ pc[q] = "count" /\ Go(q, "insert")
          /\ known' = [known EXCEPT ![q] = NewRow(q, "administrator")]
          /\ UNCHANGED <<call, person, want>>
       \/ /\ pc[q] = "resolve" /\ Go(q, "identity")
          /\ want' = [want EXCEPT ![q] = "active"]
          /\ UNCHANGED <<call, person, known>>
       \/ pc[q] = "directory" /\ End(q, "rejected")

-----------------------------------------------------------------------------
(* Writes.                                                                 *)

LinkIsFreeAnyway(q) == TRUE                                   \* mutant

\* An account has one identity.
LinkIsFree(q) == identities[call[q].user] = NoPerson

\* A role is given to an active membership only.
HasActiveMembership(q) == IsActive(call[q].person)

\* The constraints of the tables, and the filter of the update.
Accepts(q) ==
    CASE pc[q] = "link" -> LinkIsFree(q)
      [] pc[q] = "insert" -> Allowed(known[q].status) /\ memberships[person[q]] = NoRow
      [] pc[q] = "update" /\ call[q].op = "role" -> HasActiveMembership(q)
      [] pc[q] = "update" /\ call[q].op = "status" -> Allowed(call[q].status)
      [] OTHER -> TRUE

Set(p, row) == memberships' = [memberships EXCEPT ![p] = row]

\* The statement takes effect.  A membership is made active whatever became of
\* it since it was read.
Takes(q) ==
    LET c == call[q]
    IN \/ /\ pc[q] = "person" /\ persons' = persons \cup {q}
          /\ UNCHANGED <<identities, memberships>>
       \/ /\ pc[q] = "link" /\ identities' = [identities EXCEPT ![c.user] = person[q]]
          /\ UNCHANGED <<persons, memberships>>
       \/ /\ UNCHANGED <<persons, identities>>
          /\ \/ pc[q] = "insert" /\ Set(person[q], known[q])
             \/ pc[q] = "activate" /\ Set(person[q], [memberships[person[q]] EXCEPT !.status = "active"])
             \/ /\ pc[q] = "update" /\ c.op = "role"
                /\ Set(c.person, [memberships[c.person] EXCEPT !.role = c.role])
             \/ /\ pc[q] = "update" /\ c.op = "status"
                /\ Set(c.person, [memberships[c.person] EXCEPT !.status = c.status])

\* A failed statement: an error, a 404, or for the activation another search.
Fails(q) == IF pc[q] = "activate" THEN Go(q, "identity") /\ Keep
            ELSE End(q, IF pc[q] = "update" THEN "rejected" ELSE "error")

Commit(q) ==
    /\ pc[q] \in Writing /\ Accepts(q) /\ Takes(q)
    /\ IF pc[q] = "person"
       THEN /\ Go(q, "link") /\ person' = [person EXCEPT ![q] = q]
            /\ UNCHANGED <<call, known, want>>
       ELSE IF pc[q] = "link" THEN Go(q, "membership") /\ Keep
       ELSE End(q, "ok")

Refuse(q) == pc[q] \in Writing /\ ~Accepts(q) /\ UNCHANGED tables /\ Fails(q)

\* The statement, or its answer, is lost.
FailWrite(q) ==
    /\ "write" \in Faults /\ pc[q] \in Writing
    /\ \/ Accepts(q) /\ Takes(q)
       \/ UNCHANGED tables
    /\ Fails(q)

Crash == /\ "crash" \in Faults /\ InFlight # {}
         /\ pc' = [q \in Requests |-> IF q \in InFlight THEN "lost" ELSE pc[q]]
         /\ person' = [q \in Requests |-> NoPerson]
         /\ known' = [q \in Requests |-> NoRow]
         /\ want' = [q \in Requests |-> "none"]
         /\ UNCHANGED <<tables, call>>

Next == \/ Crash
        \/ \E q \in Requests :
              \/ \E c \in Calls : Start(q, c)
              \/ Select(q) \/ FailSelect(q)
              \/ Commit(q) \/ Refuse(q) \/ FailWrite(q)

Spec == Init /\ [][Next]_vars

-----------------------------------------------------------------------------
(* Properties.                                                             *)

\* The tables hold what their columns allow, although administrators and
\* registrations ask for statuses the table does not know.
TypeOK ==
    /\ persons \subseteq People
    /\ identities \in [Users -> persons \cup {NoPerson}]
    /\ memberships \in [People -> Row \cup {NoRow}]
    /\ \A p \in People : memberships[p] # NoRow => p \in persons
    /\ pc \in [Requests -> Reading \cup Writing
                            \cup {"idle", "ok", "rejected", "error", "lost"}]
    /\ person \in [Requests -> People \cup {NoPerson}]

\* Whoever administers the tenant did from the beginning or was promoted by an
\* administrator: not because every member was blocked when they registered, or
\* because the members could not be counted (ensureSupabaseMembership).
AdministratorsArePromoted ==
    \A p \in People : memberships[p] # NoRow /\ memberships[p].role = "administrator" =>
        \/ p \in Seeded /\ FirstMembership[p] # NoRow /\ FirstMembership[p].role = "administrator"
        \/ \E q \in Requests : /\ call[q] # NoCall /\ call[q].op = "role"
                               /\ call[q].person = p /\ call[q].role = "administrator"

Changed(p) == memberships[p] # NoRow /\ memberships'[p] # memberships[p]

\* "member -> administrator is never allowed" (admin-operations.ts): it happens
\* only when the member had another role in the directory that was read.
NobodyJumpsToAdministrator ==
    [][\A p \in People :
          Changed(p) /\ memberships[p].role = "member" /\ memberships'[p].role = "administrator" =>
             \E q \in InFlight : /\ call[q].op = "role" /\ call[q].person = p
                                 /\ known[q] # NoRow /\ known[q].role # "member"]_vars

\* A blocked member is let in again by an administrator, or by a code they used
\* while they were still a member; the code alone is not enough.
BlockedStayBlocked ==
    [][\A p \in People :
          Changed(p) /\ memberships[p].status # "active" /\ memberships'[p].status = "active" =>
             \E q \in InFlight :
                \/ call[q].op = "status" /\ call[q].person = p /\ call[q].status = "active"
                \/ /\ call[q].op = "join" /\ person[q] = p
                   /\ known[q] # NoRow /\ known[q].status = "active"]_vars
=============================================================================
