-------------------------- MODULE MembershipProofs --------------------------
(***************************************************************************)
(* Who may belong to a community, and as what, for any people, accounts,   *)
(* calls, faults and number of concurrent requests.                        *)
(*                                                                         *)
(* The argument turns on the row a registration inserts.  The table        *)
(* refuses the status "pending" it asks for, and "active" is only asked    *)
(* for once the account is known to have a membership, which the table     *)
(* does not accept twice: no insert ever takes effect, so that roles are   *)
(* given by administrators alone.                                          *)
(***************************************************************************)
EXTENDS Membership, TLAPS

USE PeopleAssumption, CallsAssumption

AnyRow == [role : Roles, status : Declared]

Answers == {"ok", "rejected", "error", "lost"}

TypedTables ==
    /\ persons \in SUBSET People
    /\ identities \in [Users -> People \cup {NoPerson}]
    /\ memberships \in [People -> Row \cup {NoRow}]

TypedRequests ==
    /\ pc \in [Requests -> Reading \cup Writing \cup Answers \cup {"idle"}]
    /\ call \in [Requests -> Calls \cup {NoCall}]
    /\ person \in [Requests -> People \cup {NoPerson}]
    /\ known \in [Requests -> AnyRow \cup {NoRow}]
    /\ want \in [Requests -> {"none", "pending", "active"}]

\* The types of all variables, the ones TypeOK leaves out included.
Typed == TypedTables /\ TypedRequests

\* What the tables and the requests refer to is stored.
Stored ==
    /\ \A u \in Users : identities[u] # NoPerson => identities[u] \in persons
    /\ \A p \in People : memberships[p] # NoRow => p \in persons
    /\ \A q \in Requests : person[q] # NoPerson => person[q] \in persons

Enrolled(u) == identities[u] # NoPerson /\ memberships[identities[u]] # NoRow

\* What a request knows at each of its steps.
Knows(q) ==
    LET c == call[q]
    IN /\ pc[q] = "idle" <=> c = NoCall
       /\ want[q] # "none" <=> pc[q] \in Reading \cup Writing
       /\ pc[q] = "link" => person[q] # NoPerson
       /\ pc[q] \in {"membership", "count", "insert", "resolve", "activate"} =>
             person[q] # NoPerson /\ person[q] = identities[c.user]
       /\ want[q] = "active" \/ pc[q] = "resolve" => Enrolled(c.user)
       /\ pc[q] = "insert" => known[q] # NoRow /\ known[q].status = want[q]
       /\ pc[q] \in {"resolve", "activate"} => c.op = "join"
       /\ pc[q] = "activate" =>
             known[q] # NoRow /\ known[q].status = "active" /\ memberships[person[q]] # NoRow
       /\ pc[q] \in {"directory", "update"} => Administers(c)
       /\ pc[q] = "update" =>
             /\ known[q] # NoRow /\ memberships[c.person] # NoRow
             /\ c.op = "role" => CanAssign(known[q].role, c.role)

Inv == Typed /\ Stored /\ \A q \in Requests : Knows(q)

\* No step forgets a person, an identity or a membership.
Grows == /\ persons \subseteq persons'
         /\ \A u \in Users : identities[u] # NoPerson => identities'[u] = identities[u]
         /\ \A p \in People : memberships[p] # NoRow => memberships'[p] # NoRow

TablesGrow ==
    /\ TypedTables' /\ Grows
    /\ \A u \in Users : identities'[u] # NoPerson => identities'[u] \in persons'
    /\ \A p \in People : memberships'[p] # NoRow => p \in persons'

SameRequest(q) == /\ pc'[q] = pc[q] /\ call'[q] = call[q] /\ person'[q] = person[q]
                  /\ known'[q] = known[q] /\ want'[q] = want[q]

-----------------------------------------------------------------------------

LEMMA InitInv == Init => Inv
<1> SUFFICES ASSUME Init PROVE Inv
  OBVIOUS
<1>1. Typed
  BY DEF Init, Typed, TypedTables, TypedRequests, People
<1>2. Stored
  BY DEF Init, Stored, People
<1>3. \A q \in Requests : Knows(q)
  BY DEF Init, Knows, Reading, Writing
<1> QED
  BY <1>1, <1>2, <1>3 DEF Inv

\* A started request carries a call of a known kind.
LEMMA StartedHaveCalls ==
    ASSUME Inv, NEW q \in Requests, pc[q] # "idle"
    PROVE  /\ call[q] \in Calls /\ call[q].user \in Users
           /\ call[q].op \in {"register", "join", "accept", "role", "status"}
           /\ Administers(call[q]) => call[q].person \in People
           /\ call[q].op = "role" => call[q].role \in Roles
<1>1. call[q] \in Calls
  BY DEF Inv, Typed, TypedRequests, Knows
<1> QED
  BY <1>1 DEF Administers

\* The step of one request leaves what the others know true.
LEMMA OthersKnow ==
    ASSUME Inv, Grows, NEW q \in Requests, SameRequest(q)
    PROVE  Knows(q)'
<1>1. CASE pc[q] = "idle"
  BY <1>1 DEF Inv, Typed, TypedRequests, Knows, SameRequest, Reading, Writing
<1>2. CASE pc[q] # "idle"
  <2>1. /\ call[q].user \in Users
        /\ Administers(call[q]) => call[q].person \in People
    BY <1>2, StartedHaveCalls
  <2>2. Knows(q)
    BY DEF Inv
  <2>3. identities[call[q].user] # NoPerson => identities[call[q].user] \in People
    BY <2>1 DEF Inv, Typed, TypedTables
  <2>4. Enrolled(call[q].user) => Enrolled(call[q].user)'
    BY <2>1, <2>3 DEF Grows, Enrolled, SameRequest
  <2>5. person[q] # NoPerson => person[q] \in People
    BY DEF Inv, Typed, TypedRequests
  <2> QED
    BY <2>1, <2>2, <2>4, <2>5 DEF Grows, Knows, SameRequest, Administers
<1> QED
  BY <1>1, <1>2

\* What one request does keeps the invariant.
LEMMA OneRequest ==
    ASSUME Inv, NEW q \in Requests, TablesGrow, TypedRequests',
           person'[q] # NoPerson => person'[q] \in persons',
           Knows(q)',
           \A r \in Requests \ {q} : SameRequest(r)
    PROVE  Inv'
<1> USE DEF TablesGrow
<1>1. \A r \in Requests : Knows(r)'
  BY OthersKnow
<1>2. Stored'
  BY DEF Inv, Stored, Grows, SameRequest
<1> QED
  BY <1>1, <1>2 DEF Inv, Typed

\* The answer forgets what the request knew.
LEMMA AnswerForgets ==
    ASSUME Inv, NEW q \in Requests, pc[q] # "idle", NEW a \in Answers, End(q, a)
    PROVE  /\ TypedRequests' /\ Knows(q)' /\ person'[q] = NoPerson
           /\ \A r \in Requests \ {q} : SameRequest(r)
<1>1. TypedRequests'
  BY DEF End, Go, Inv, Typed, TypedRequests
<1>2. pc'[q] = a /\ want'[q] = "none" /\ person'[q] = NoPerson /\ call'[q] = call[q]
  BY DEF End, Go, Inv, Typed, TypedRequests
<1>3. call[q] # NoCall
  BY DEF Inv, Knows
<1>4. Knows(q)'
  BY <1>2, <1>3 DEF Knows, Answers, Reading, Writing
<1> QED
  BY <1>1, <1>2, <1>4 DEF End, Go, SameRequest, Inv, Typed, TypedRequests

\* Requests that read or wait leave the tables alone.
LEMMA TablesStand ==
    ASSUME Inv, UNCHANGED tables
    PROVE  TablesGrow
  BY DEF tables, Inv, Typed, TypedTables, Stored, Grows, TablesGrow

LEMMA AnsweredKeepInv ==
    ASSUME Inv, NEW q \in Requests, pc[q] # "idle", NEW a \in Answers, End(q, a), UNCHANGED tables
    PROVE  Inv'
  BY AnswerForgets, TablesStand, OneRequest

LEMMA StartStep ==
    ASSUME Inv, NEW q \in Requests, NEW c \in Calls, Start(q, c)
    PROVE  Inv'
<1>1. TypedRequests'
  BY DEF Start, Go, Inv, Typed, TypedRequests, Reading
<1>2. /\ pc'[q] = IF c.op = "register" THEN "identity" ELSE "session"
      /\ call'[q] = c /\ want'[q] = "pending" /\ person'[q] = person[q]
  BY DEF Start, Go, Inv, Typed, TypedRequests
<1>3. Knows(q)'
  BY <1>2 DEF Knows, Reading, Writing
<1>4. person'[q] # NoPerson => person'[q] \in persons'
  BY <1>2 DEF Inv, Stored, Start, tables
<1>5. \A r \in Requests \ {q} : SameRequest(r)
  BY DEF Start, Go, SameRequest, Inv, Typed, TypedRequests
<1>6. UNCHANGED tables
  BY DEF Start
<1> QED
  BY <1>1, <1>3, <1>4, <1>5, <1>6, TablesStand, OneRequest

-----------------------------------------------------------------------------
(* SELECTs.                                                                *)

LEMMA ReadKnown ==
    ASSUME Inv, NEW q \in Requests, pc[q] \in Reading \cup Writing
    PROVE  /\ pc[q] # "idle" /\ want[q] \in {"pending", "active"}
           /\ call[q].user \in Users
           /\ identities[call[q].user] \in People \cup {NoPerson}
           /\ identities[call[q].user] # NoPerson => identities[call[q].user] \in persons
           /\ person[q] # NoPerson => person[q] \in People /\ person[q] \in persons
<1>1. pc[q] # "idle"
  BY DEF Reading, Writing
<1> QED
  BY <1>1, StartedHaveCalls DEF Inv, Typed, TypedTables, TypedRequests, Stored, Knows

\* A request that goes on without having read anything new about itself.
LEMMA GoingOn ==
    ASSUME Inv, NEW q \in Requests, pc[q] \in Reading \cup Writing, UNCHANGED tables,
           NEW step \in {"session", "identity", "person"}, Go(q, step), Keep
    PROVE  Inv'
<1>1. TypedRequests'
  BY DEF Go, Keep, Inv, Typed, TypedRequests, Reading, Writing
<1>2. pc'[q] = step
  BY DEF Go, Inv, Typed, TypedRequests
<1>3. Knows(q)
  BY DEF Inv
<1>4. Knows(q)'
  BY <1>2, <1>3, ReadKnown DEF Knows, Keep, Reading, Writing, Enrolled, tables
<1>5. person'[q] # NoPerson => person'[q] \in persons'
  BY DEF Keep, Inv, Stored, tables
<1>6. \A r \in Requests \ {q} : SameRequest(r)
  BY DEF Go, Keep, SameRequest, Inv, Typed, TypedRequests
<1> QED
  BY <1>1, <1>4, <1>5, <1>6, TablesStand, OneRequest

\* The last step of a request on the way to what it reads or writes next.
LEMMA Advance ==
    ASSUME Inv, NEW q \in Requests, pc[q] # "idle", UNCHANGED tables, TypedRequests', Knows(q)',
           person'[q] # NoPerson => person'[q] \in persons,
           \A r \in Requests \ {q} : SameRequest(r)
    PROVE  Inv'
<1>1. person'[q] # NoPerson => person'[q] \in persons'
  BY DEF tables
<1> QED
  BY <1>1, TablesStand, OneRequest

LEMMA TryCodeStep ==
    ASSUME Inv, NEW q \in Requests, pc[q] \in Reading, UNCHANGED tables,
           NEW p \in persons, p # NoPerson, p = identities[call[q].user],
           memberships[p] # NoRow, TryCode(q, p)
    PROVE  Inv'
<1> USE ReadKnown
<1>1. CASE call[q].op = "join" /\ CodesAreSeeded
  <2>1. TypedRequests'
    BY <1>1 DEF TryCode, Go, Inv, Typed, TypedTables, TypedRequests, Reading
  <2>2. /\ pc'[q] = "resolve" /\ person'[q] = p
        /\ call'[q] = call[q] /\ want'[q] = want[q]
    BY <1>1 DEF TryCode, Go, Inv, Typed, TypedRequests
  <2>3. Knows(q)'
    BY <1>1, <2>2 DEF Knows, Enrolled, Reading, Writing, Inv, tables
  <2>4. \A r \in Requests \ {q} : SameRequest(r)
    BY <1>1 DEF TryCode, Go, SameRequest, Inv, Typed, TypedRequests
  <2> QED
    BY <2>1, <2>2, <2>3, <2>4, Advance
<1>2. CASE ~(call[q].op = "join" /\ CodesAreSeeded)
  BY <1>2, AnsweredKeepInv DEF TryCode, Answers
<1> QED
  BY <1>1, <1>2

LEMMA SessionStep ==
    ASSUME Inv, NEW q \in Requests, pc[q] = "session", UNCHANGED tables, Session(q)
    PROVE  Inv'
<1> DEFINE p == identities[call[q].user]
<1>1. pc[q] \in Reading \cup Writing /\ pc[q] \in Reading /\ pc[q] # "idle"
  BY DEF Reading
<1>2. CASE End(q, "rejected")
  BY <1>1, <1>2, AnsweredKeepInv DEF Answers
<1>3. CASE Administers(call[q]) /\ Go(q, "directory") /\ Keep
  <2>1. TypedRequests'
    BY <1>3 DEF Go, Keep, Inv, Typed, TypedRequests, Reading
  <2>2. pc'[q] = "directory"
    BY <1>3 DEF Go, Inv, Typed, TypedRequests
  <2>3. Knows(q)'
    BY <1>1, <1>3, <2>2, ReadKnown DEF Knows, Keep, Reading, Writing, Enrolled, tables, Inv
  <2>4. \A r \in Requests \ {q} : SameRequest(r)
    BY <1>3 DEF Go, Keep, SameRequest, Inv, Typed, TypedRequests
  <2> QED
    BY <1>1, <1>3, <2>1, <2>3, <2>4, Advance, ReadKnown DEF Keep
<1>4. CASE IsActive(p) /\ TryCode(q, p)
  <2>1. p # NoPerson /\ p \in persons /\ memberships[p] # NoRow
    BY <1>1, <1>4, ReadKnown DEF IsActive
  <2> QED
    BY <1>1, <1>4, <2>1, TryCodeStep
<1>5. CASE Go(q, "identity") /\ Keep
  BY <1>1, <1>5, GoingOn
<1> QED
  BY <1>2, <1>3, <1>4, <1>5 DEF Session

LEMMA FindIdentityStep ==
    ASSUME Inv, NEW q \in Requests, pc[q] = "identity", UNCHANGED tables, FindIdentity(q)
    PROVE  Inv'
<1> DEFINE p == identities[call[q].user]
<1>1. pc[q] \in Reading \cup Writing
  BY DEF Reading
<1>2. p \in People \cup {NoPerson} /\ (p # NoPerson => p \in persons)
  BY <1>1, ReadKnown
<1>3. TypedRequests'
  BY <1>2 DEF FindIdentity, Go, Inv, Typed, TypedRequests, Reading, Writing
<1>4. /\ pc'[q] = IF p = NoPerson THEN "person" ELSE "membership"
      /\ person'[q] = p /\ call'[q] = call[q] /\ want'[q] = want[q]
  BY DEF FindIdentity, Go, Inv, Typed, TypedRequests
<1>5. Knows(q)'
  BY <1>1, <1>4 DEF Knows, Enrolled, Reading, Writing, Inv, tables
<1>6. \A r \in Requests \ {q} : SameRequest(r)
  BY DEF FindIdentity, Go, SameRequest, Inv, Typed, TypedRequests
<1> QED
  BY <1>1, <1>2, <1>3, <1>4, <1>5, <1>6, ReadKnown, Advance

\* To the count of members, and from there to the insert, the person in hand
\* stays the account's.
LEMMA ToCount ==
    ASSUME Inv, NEW q \in Requests, pc[q] = "membership", UNCHANGED tables, Go(q, "count"), Keep
    PROVE  Inv'
<1>1. pc[q] \in Reading \cup Writing
  BY DEF Reading
<1>2. TypedRequests'
  BY DEF Go, Keep, Inv, Typed, TypedRequests, Reading
<1>3. pc'[q] = "count"
  BY DEF Go, Inv, Typed, TypedRequests
<1>4. Knows(q)'
  BY <1>1, <1>3 DEF Knows, Keep, Reading, Writing, Enrolled, tables, Inv
<1>5. \A r \in Requests \ {q} : SameRequest(r)
  BY DEF Go, Keep, SameRequest, Inv, Typed, TypedRequests
<1> QED
  BY <1>1, <1>2, <1>4, <1>5, ReadKnown, Advance DEF Keep

LEMMA FindMembershipStep ==
    ASSUME Inv, NEW q \in Requests, pc[q] = "membership", UNCHANGED tables, FindMembership(q)
    PROVE  Inv'
<1>1. pc[q] \in Reading \cup Writing /\ pc[q] \in Reading /\ pc[q] # "idle"
  BY DEF Reading
<1>2. CASE Go(q, "count") /\ Keep
  BY <1>2, ToCount
<1>3. CASE End(q, "ok")
  BY <1>1, <1>3, AnsweredKeepInv DEF Answers
<1>4. CASE memberships[person[q]] # NoRow /\ TryCode(q, person[q])
  <2>1. person[q] # NoPerson /\ person[q] = identities[call[q].user]
    BY DEF Inv, Knows
  <2> QED
    BY <1>1, <1>4, <2>1, ReadKnown, TryCodeStep
<1> QED
  BY <1>2, <1>3, <1>4 DEF FindMembership

LEMMA ToInsert ==
    ASSUME Inv, NEW q \in Requests, pc[q] = "count", UNCHANGED tables, Go(q, "insert"),
           NEW role \in Roles, known' = [known EXCEPT ![q] = NewRow(q, role)],
           UNCHANGED <<call, person, want>>
    PROVE  Inv'
<1>1. pc[q] \in Reading \cup Writing
  BY DEF Reading
<1>2. want[q] \in Declared /\ NewRow(q, role) \in AnyRow
  BY <1>1, ReadKnown DEF NewRow, AnyRow, Declared
<1>3. TypedRequests'
  BY <1>2 DEF Go, Inv, Typed, TypedRequests, Writing
<1>4. /\ pc'[q] = "insert" /\ known'[q] = NewRow(q, role) /\ known'[q] # NoRow
      /\ known'[q].status = want[q]
  BY <1>2 DEF Go, Inv, Typed, TypedRequests, NewRow, AnyRow
<1>5. Knows(q)'
  BY <1>1, <1>4 DEF Knows, Reading, Writing, Enrolled, tables, Inv
<1>6. \A r \in Requests \ {q} : SameRequest(r)
  BY DEF Go, SameRequest, Inv, Typed, TypedRequests
<1> QED
  BY <1>1, <1>3, <1>5, <1>6, ReadKnown, Advance

LEMMA CountStep ==
    ASSUME Inv, NEW q \in Requests, pc[q] = "count", UNCHANGED tables, Count(q)
    PROVE  Inv'
<1>1. PICK role \in {"member", "administrator"} : known' = [known EXCEPT ![q] = NewRow(q, role)]
  BY DEF Count
<1> QED
  BY <1>1, ToInsert DEF Count, Roles

\* Once a code is accepted the account is known to have a membership.
LEMMA ResolveStep ==
    ASSUME Inv, NEW q \in Requests, pc[q] = "resolve", UNCHANGED tables,
           want' = [want EXCEPT ![q] = "active"], UNCHANGED <<call, person>>,
           \/ /\ IsActive(person[q]) /\ Go(q, "activate")
              /\ known' = [known EXCEPT ![q] = memberships[person[q]]]
           \/ Go(q, "identity") /\ UNCHANGED known
    PROVE  Inv'
<1> USE DEF Go
<1>1. pc[q] \in Reading \cup Writing
  BY DEF Reading
<1>2. Row \subseteq AnyRow
  BY DEF Row, AnyRow, Declared
<1>3. person[q] \in People /\ person[q] # NoPerson
  BY <1>1, ReadKnown DEF Inv, Knows
<1>4. memberships[person[q]] \in Row \cup {NoRow}
  BY <1>3 DEF Inv, Typed, TypedTables
<1>5. /\ want'[q] = "active" /\ call'[q] = call[q] /\ person'[q] = person[q]
      /\ \/ pc'[q] = "activate" /\ IsActive(person[q]) /\ known'[q] = memberships[person[q]]
         \/ pc'[q] = "identity"
  BY DEF Inv, Typed, TypedRequests
<1>6. TypedRequests'
  BY <1>2, <1>4, <1>5 DEF Inv, Typed, TypedRequests, Reading, Writing, IsActive
<1>7. Knows(q)'
  BY <1>1, <1>5 DEF Knows, Reading, Writing, Enrolled, tables, Inv, IsActive
<1>8. \A r \in Requests \ {q} : SameRequest(r)
  BY DEF SameRequest, Inv, Typed, TypedRequests
<1> QED
  BY <1>1, <1>5, <1>6, <1>7, <1>8, ReadKnown, Advance

LEMMA DirectoryStep ==
    ASSUME Inv, NEW q \in Requests, pc[q] = "directory", UNCHANGED tables, Directory(q)
    PROVE  Inv'
<1> DEFINE c == call[q]
           row == memberships[c.person]
<1>1. pc[q] \in Reading \cup Writing /\ pc[q] # "idle" /\ Administers(c)
  BY DEF Reading, Inv, Knows
<1>2. row \in Row \cup {NoRow} /\ Row \subseteq AnyRow
  BY <1>1, StartedHaveCalls DEF Inv, Typed, TypedTables, Row, AnyRow, Declared
<1>3. CASE End(q, "rejected")
  BY <1>1, <1>3, AnsweredKeepInv DEF Answers
<1>4. CASE /\ row # NoRow /\ (c.op = "role" => CanAssign(row.role, c.role))
           /\ Go(q, "update") /\ known' = [known EXCEPT ![q] = row]
           /\ UNCHANGED <<call, person, want>>
  <2>1. TypedRequests'
    BY <1>2, <1>4 DEF Go, Inv, Typed, TypedRequests, Writing
  <2>2. pc'[q] = "update" /\ known'[q] = row
    BY <1>4 DEF Go, Inv, Typed, TypedRequests
  <2>3. Knows(q)'
    BY <1>1, <1>4, <2>2 DEF Knows, Reading, Writing, Enrolled, tables, Inv, Administers
  <2>4. \A r \in Requests \ {q} : SameRequest(r)
    BY <1>4 DEF Go, SameRequest, Inv, Typed, TypedRequests
  <2> QED
    BY <1>1, <1>4, <2>1, <2>3, <2>4, ReadKnown, Advance
<1> QED
  BY <1>3, <1>4 DEF Directory

LEMMA SelectStep ==
    ASSUME Inv, NEW q \in Requests, Select(q)
    PROVE  Inv'
  BY SessionStep, FindIdentityStep, FindMembershipStep, CountStep, ResolveStep, DirectoryStep
     DEF Select, Resolve

LEMMA FailSelectStep ==
    ASSUME Inv, NEW q \in Requests, FailSelect(q)
    PROVE  Inv'
<1>1. UNCHANGED tables
  BY DEF FailSelect
<1>2. ASSUME pc[q] \in Reading, NEW step \in {"session", "identity", "person"}, Go(q, step), Keep
      PROVE  Inv'
  BY <1>1, <1>2, GoingOn
<1>3. ASSUME pc[q] \in Reading, End(q, "rejected")
      PROVE  Inv'
  <2>1. pc[q] # "idle"
    BY <1>3 DEF Reading
  <2> QED
    BY <1>1, <1>3, <2>1, AnsweredKeepInv DEF Answers
<1>4. CASE pc[q] = "session" \/ pc[q] = "identity" \/ pc[q] = "directory"
  BY <1>2, <1>3, <1>4 DEF FailSelect, Reading
<1>5. CASE pc[q] = "membership"
  BY <1>1, <1>5, ToCount DEF FailSelect
<1>6. CASE pc[q] = "count"
  BY <1>1, <1>6, ToInsert DEF FailSelect, Roles
<1>7. CASE pc[q] = "resolve"
  BY <1>1, <1>7, ResolveStep DEF FailSelect
<1> QED
  BY <1>4, <1>5, <1>6, <1>7 DEF FailSelect

-----------------------------------------------------------------------------
(* Writes.                                                                 *)

\* The insert of a membership is refused, whatever was counted and decided.
LEMMA NoInsertTakesEffect ==
    ASSUME Inv, NEW q \in Requests, pc[q] = "insert"
    PROVE  ~Accepts(q)
<1>1. /\ person[q] # NoPerson /\ person[q] = identities[call[q].user]
      /\ known[q].status = want[q]
      /\ want[q] = "active" => Enrolled(call[q].user)
  BY DEF Inv, Knows
<1>2. want[q] \in {"pending", "active"}
  BY ReadKnown DEF Writing
<1> QED
  BY <1>1, <1>2 DEF Accepts, Allowed, Enrolled

\* What a statement that takes effect does to the tables.
LEMMA StatementsGrow ==
    ASSUME Inv, NEW q \in Requests, pc[q] \in Writing, Accepts(q), Takes(q)
    PROVE  TablesGrow
<1> USE DEF TablesGrow
<1> DEFINE c == call[q]
<1>1. /\ pc[q] # "idle" /\ c.user \in Users
      /\ Administers(c) => c.person \in People
      /\ c.op = "role" => c.role \in Roles
  BY StartedHaveCalls DEF Writing
<1>2. Inv /\ TypedTables /\ Stored /\ Knows(q)
  BY DEF Inv, Typed
<1>3. person[q] # NoPerson => person[q] \in People /\ person[q] \in persons
  BY ReadKnown
<1>4. CASE pc[q] = "person"
  BY <1>2, <1>4 DEF Takes, TypedTables, Stored, Grows, People
<1>5. CASE pc[q] = "link"
  <2>1. person[q] \in People /\ person[q] \in persons /\ identities[c.user] = NoPerson
    BY <1>2, <1>3, <1>5 DEF Knows, Accepts, LinkIsFree
  <2>2. /\ identities' = [identities EXCEPT ![c.user] = person[q]]
        /\ UNCHANGED <<persons, memberships>>
    BY <1>5 DEF Takes
  <2> QED
    BY <1>1, <1>2, <2>1, <2>2 DEF TypedTables, Stored, Grows
<1>6. CASE pc[q] = "insert"
  BY <1>6, NoInsertTakesEffect
<1>7. ASSUME NEW p \in People, memberships[p] # NoRow, NEW row \in Row, Set(p, row),
             UNCHANGED <<persons, identities>>
      PROVE  TablesGrow
  <2>1. row # NoRow
    BY DEF Row, Declared
  <2> QED
    BY <1>2, <1>7, <2>1 DEF Set, TypedTables, Stored, Grows
<1>8. CASE pc[q] = "activate"
  <2>1. person[q] \in People /\ memberships[person[q]] # NoRow
    BY <1>2, <1>3, <1>8 DEF Knows
  <2>2. [memberships[person[q]] EXCEPT !.status = "active"] \in Row
    BY <1>2, <2>1 DEF TypedTables, Row
  <2> QED
    BY <1>7, <1>8, <2>1, <2>2 DEF Takes
<1>9. CASE pc[q] = "update"
  <2>1. c.person \in People /\ memberships[c.person] # NoRow /\ memberships[c.person] \in Row
    BY <1>1, <1>2, <1>9 DEF Knows, TypedTables
  <2>2. CASE c.op = "role"
    <3>1. [memberships[c.person] EXCEPT !.role = c.role] \in Row
      BY <1>1, <2>1, <2>2 DEF Row
    <3> QED
      BY <1>7, <1>9, <2>1, <2>2, <3>1 DEF Takes
  <2>3. CASE c.op = "status"
    <3>1. [memberships[c.person] EXCEPT !.status = c.status] \in Row
      BY <1>9, <2>1, <2>3 DEF Row, Accepts, Allowed
    <3> QED
      BY <1>7, <1>9, <2>1, <2>3, <3>1 DEF Takes
  <2> QED
    BY <1>2, <1>9, <2>2, <2>3 DEF Knows, Administers
<1> QED
  BY <1>4, <1>5, <1>6, <1>8, <1>9 DEF Writing

\* The request that wrote is answered, or goes back to look for a membership.
LEMMA AnswerAfterWrite ==
    ASSUME Inv, NEW q \in Requests, pc[q] \in Writing, TablesGrow, NEW a \in Answers, End(q, a)
    PROVE  Inv'
<1>1. pc[q] # "idle"
  BY DEF Writing
<1> QED
  BY <1>1, AnswerForgets, OneRequest

LEMMA FailsStep ==
    ASSUME Inv, NEW q \in Requests, pc[q] \in Writing, TablesGrow, Fails(q)
    PROVE  Inv'
<1>1. CASE pc[q] = "activate"
  <2>1. pc[q] \in Reading \cup Writing
    OBVIOUS
  <2>2. Go(q, "identity") /\ Keep
    BY <1>1 DEF Fails
  <2>3. TypedRequests'
    BY <2>2 DEF Go, Keep, Inv, Typed, TypedRequests, Reading
  <2>4. /\ pc'[q] = "identity" /\ call'[q] = call[q] /\ want'[q] = want[q]
        /\ person'[q] = person[q]
    BY <2>2 DEF Go, Keep, Inv, Typed, TypedRequests
  <2>5. Enrolled(call[q].user) => Enrolled(call[q].user)'
    BY <2>1, <2>4, ReadKnown DEF TablesGrow, Grows, Enrolled
  <2>6. Knows(q)'
    BY <1>1, <2>1, <2>4, <2>5, ReadKnown DEF Knows, Reading, Writing, Inv
  <2>7. \A r \in Requests \ {q} : SameRequest(r)
    BY <2>2 DEF Go, Keep, SameRequest, Inv, Typed, TypedRequests
  <2>8. person'[q] # NoPerson => person'[q] \in persons'
    BY <2>1, <2>4, ReadKnown DEF TablesGrow, Grows
  <2> QED
    BY <2>3, <2>6, <2>7, <2>8, OneRequest
<1>2. CASE pc[q] # "activate"
  BY <1>2, AnswerAfterWrite DEF Fails, Answers
<1> QED
  BY <1>1, <1>2

LEMMA CommitStep ==
    ASSUME Inv, NEW q \in Requests, Commit(q)
    PROVE  Inv'
<1>1. pc[q] \in Writing /\ pc[q] \in Reading \cup Writing /\ Accepts(q) /\ Takes(q)
  BY DEF Commit
<1>2. TablesGrow
  BY <1>1, StatementsGrow
<1>3. Knows(q)
  BY DEF Inv
<1>4. CASE pc[q] = "person"
  <2>1. /\ Go(q, "link") /\ person' = [person EXCEPT ![q] = q]
        /\ UNCHANGED <<call, known, want>> /\ persons' = persons \cup {q}
    BY <1>4 DEF Commit, Takes
  <2>2. TypedRequests'
    BY <2>1 DEF Go, Inv, Typed, TypedRequests, Writing, People
  <2>3. pc'[q] = "link" /\ person'[q] = q /\ q # NoPerson
    BY <2>1 DEF Go, Inv, Typed, TypedRequests, People
  <2>4. Enrolled(call[q].user) => Enrolled(call[q].user)'
    BY <1>1, <1>2, <2>1, ReadKnown DEF TablesGrow, Grows, Enrolled
  <2>5. Knows(q)'
    BY <1>1, <1>3, <1>4, <2>1, <2>3, <2>4 DEF Knows, Reading, Writing
  <2>6. \A r \in Requests \ {q} : SameRequest(r)
    BY <2>1 DEF Go, SameRequest, Inv, Typed, TypedRequests
  <2> QED
    BY <1>2, <2>1, <2>2, <2>3, <2>5, <2>6, OneRequest
<1>5. CASE pc[q] = "link"
  <2>1. /\ Go(q, "membership") /\ Keep
        /\ identities' = [identities EXCEPT ![call[q].user] = person[q]]
    BY <1>5 DEF Commit, Takes
  <2>2. TypedRequests'
    BY <2>1 DEF Go, Keep, Inv, Typed, TypedRequests, Reading
  <2>3. pc'[q] = "membership" /\ identities'[call[q].user] = person[q]
    BY <1>1, <2>1, ReadKnown DEF Go, Inv, Typed, TypedRequests, TypedTables
  <2>4. Enrolled(call[q].user) => Enrolled(call[q].user)'
    BY <1>1, <1>2, <2>1, ReadKnown DEF TablesGrow, Grows, Enrolled, Keep
  <2>5. Knows(q)'
    BY <1>1, <1>3, <1>5, <2>1, <2>3, <2>4 DEF Knows, Reading, Writing, Keep
  <2>6. \A r \in Requests \ {q} : SameRequest(r)
    BY <2>1 DEF Go, Keep, SameRequest, Inv, Typed, TypedRequests
  <2>7. person'[q] # NoPerson => person'[q] \in persons'
    BY <1>1, <1>2, <2>1, ReadKnown DEF TablesGrow, Grows, Keep
  <2> QED
    BY <1>2, <2>2, <2>5, <2>6, <2>7, OneRequest
<1>6. CASE pc[q] \notin {"person", "link"}
  BY <1>1, <1>2, <1>6, AnswerAfterWrite DEF Commit, Answers
<1> QED
  BY <1>4, <1>5, <1>6

LEMMA FailedWriteStep ==
    ASSUME Inv, NEW q \in Requests, Refuse(q) \/ FailWrite(q)
    PROVE  Inv'
<1>1. pc[q] \in Writing /\ Fails(q) /\ ((Accepts(q) /\ Takes(q)) \/ UNCHANGED tables)
  BY DEF Refuse, FailWrite
<1>2. TablesGrow
  BY <1>1, StatementsGrow, TablesStand
<1> QED
  BY <1>1, <1>2, FailsStep

LEMMA CrashStep ==
    ASSUME Inv, Crash
    PROVE  Inv'
<1>1. Typed'
  BY DEF Crash, tables, Inv, Typed, TypedTables, TypedRequests, Answers
<1>2. Stored'
  BY DEF Crash, tables, Inv, Stored
<1>3. ASSUME NEW q \in Requests
      PROVE  Knows(q)'
  <2>1. Knows(q)
    BY DEF Inv
  <2>2. /\ pc'[q] = IF pc[q] \in Reading \cup Writing THEN "lost" ELSE pc[q]
        /\ call'[q] = call[q] /\ want'[q] = "none"
    BY DEF Crash, InFlight
  <2> QED
    BY <2>1, <2>2 DEF Knows, Reading, Writing
<1> QED
  BY <1>1, <1>2, <1>3 DEF Inv

LEMMA StepInv == Inv /\ [Next]_vars => Inv'
<1> SUFFICES ASSUME Inv, [Next]_vars PROVE Inv'
  OBVIOUS
<1>1. CASE Next
  BY <1>1, StartStep, SelectStep, FailSelectStep, CommitStep, FailedWriteStep, CrashStep DEF Next
<1>2. CASE UNCHANGED vars
  BY <1>2 DEF vars, tables, Inv, Typed, TypedTables, TypedRequests, Stored, Knows, Enrolled
<1> QED
  BY <1>1, <1>2

THEOREM MembershipInvariant == Spec => []Inv
  BY InitInv, StepInv, PTL DEF Spec

\* The tables hold what their columns allow, for any calls and failures:
\* TypeOK, by ensureSupabaseMembership and the two updates of the directory.
THEOREM MembershipTypes == Spec => []TypeOK
<1>1. Inv => TypeOK
  BY DEF Inv, Typed, TypedTables, TypedRequests, Stored, TypeOK, Answers
<1> QED
  BY <1>1, MembershipInvariant, PTL

-----------------------------------------------------------------------------
(* Who changes a membership, and how.                                       *)

Activates(q, p) == /\ pc[q] = "activate" /\ p = person[q]
                   /\ memberships'[p] = [memberships[p] EXCEPT !.status = "active"]

GivesRole(q, p) == /\ pc[q] = "update" /\ call[q].op = "role" /\ p = call[q].person
                   /\ memberships'[p] = [memberships[p] EXCEPT !.role = call[q].role]

GivesStatus(q, p) == /\ pc[q] = "update" /\ call[q].op = "status" /\ p = call[q].person
                     /\ memberships'[p] = [memberships[p] EXCEPT !.status = call[q].status]

LEMMA MembershipChanges ==
    ASSUME Inv, [Next]_vars, NEW p \in People, memberships'[p] # memberships[p]
    PROVE  /\ memberships[p] \in Row /\ memberships[p] # NoRow
           /\ \E q \in InFlight : Activates(q, p) \/ GivesRole(q, p) \/ GivesStatus(q, p)
<1>1. PICK q \in Requests : pc[q] \in Writing /\ Accepts(q) /\ Takes(q)
  BY DEF Next, vars, tables, Crash, Start, Select, FailSelect, Commit, Refuse, FailWrite
<1>2. /\ pc[q] \in {"activate", "update"} /\ q \in InFlight
  BY <1>1, NoInsertTakesEffect DEF Takes, Writing, InFlight
<1>3. CASE pc[q] = "activate"
  <2>1. Set(person[q], [memberships[person[q]] EXCEPT !.status = "active"])
    BY <1>1, <1>3 DEF Takes
  <2>2. p = person[q] /\ memberships[p] # NoRow /\ Activates(q, p)
    BY <1>3, <2>1 DEF Set, Activates, Inv, Typed, TypedTables, Knows
  <2> QED
    BY <1>2, <2>2 DEF Inv, Typed, TypedTables
<1>4. CASE pc[q] = "update"
  <2>1. call[q].op \in {"role", "status"} /\ memberships[call[q].person] # NoRow
    BY <1>4 DEF Inv, Knows, Administers
  <2>2. p = call[q].person /\ (GivesRole(q, p) \/ GivesStatus(q, p))
    BY <1>1, <1>4, <2>1 DEF Takes, Set, GivesRole, GivesStatus, Inv, Typed, TypedTables
  <2> QED
    BY <1>2, <2>1, <2>2 DEF Inv, Typed, TypedTables
<1> QED
  BY <1>2, <1>3, <1>4

LEMMA CallsStay ==
    ASSUME Inv, [Next]_vars, NEW q \in Requests, call[q] # NoCall
    PROVE  call'[q] = call[q]
<1>1. pc[q] # "idle"
  BY DEF Inv, Knows
<1>2. ASSUME NEW r \in Requests, NEW c \in Calls, Start(r, c)
      PROVE  call'[q] = call[q]
  BY <1>1, <1>2 DEF Start, Inv, Typed, TypedRequests
<1>3. ASSUME NEW r \in Requests, Select(r) \/ FailSelect(r)
      PROVE  UNCHANGED call
  BY <1>3 DEF Select, FailSelect, Session, FindIdentity, FindMembership, Count, Resolve,
              Directory, TryCode, Keep, End
<1>4. ASSUME NEW r \in Requests, Commit(r) \/ Refuse(r) \/ FailWrite(r)
      PROVE  UNCHANGED call
  BY <1>4 DEF Commit, Refuse, FailWrite, Fails, Keep, End
<1>5. CASE Crash
  BY <1>5 DEF Crash
<1>6. CASE UNCHANGED vars
  BY <1>6 DEF vars
<1> QED
  BY <1>2, <1>3, <1>4, <1>5, <1>6 DEF Next

LEMMA InitPromoted == Init => AdministratorsArePromoted
  BY DEF Init, AdministratorsArePromoted, People

LEMMA StepPromoted ==
    ASSUME Inv, AdministratorsArePromoted, [Next]_vars
    PROVE  AdministratorsArePromoted'
<1> SUFFICES ASSUME NEW p \in People, memberships'[p] # NoRow,
                    memberships'[p].role = "administrator"
             PROVE  \/ /\ p \in Seeded /\ FirstMembership[p] # NoRow
                       /\ FirstMembership[p].role = "administrator"
                    \/ \E q \in Requests :
                          /\ call'[q] # NoCall /\ call'[q].op = "role"
                          /\ call'[q].person = p /\ call'[q].role = "administrator"
  BY DEF AdministratorsArePromoted
<1>1. CASE memberships[p] # NoRow /\ memberships[p].role = "administrator"
  BY <1>1, CallsStay DEF AdministratorsArePromoted
<1>2. CASE ~(memberships[p] # NoRow /\ memberships[p].role = "administrator")
  <2>1. memberships'[p] # memberships[p]
    BY <1>2
  <2>2. PICK q \in InFlight : Activates(q, p) \/ GivesRole(q, p) \/ GivesStatus(q, p)
    BY <2>1, MembershipChanges
  <2>3. memberships[p] \in Row /\ memberships[p].role # "administrator"
    BY <1>2, <2>1, MembershipChanges
  <2>4. ~Activates(q, p) /\ ~GivesStatus(q, p)
    BY <2>3 DEF Activates, GivesStatus, Row
  <2>5. GivesRole(q, p) /\ call[q].role = "administrator"
    BY <2>2, <2>3, <2>4 DEF GivesRole, Row
  <2>6. q \in Requests /\ call[q] # NoCall
    BY DEF InFlight, Inv, Knows, Reading, Writing
  <2> QED
    BY <2>5, <2>6, CallsStay DEF GivesRole
<1> QED
  BY <1>1, <1>2

\* Nobody administers a community but who did from the beginning or was
\* promoted, however many registrations run, fail or crash.
THEOREM MembershipPromotion == Spec => []AdministratorsArePromoted
<1>1. AdministratorsArePromoted /\ UNCHANGED vars => AdministratorsArePromoted'
  BY DEF AdministratorsArePromoted, vars, tables
<1> QED
  BY <1>1, InitPromoted, StepPromoted, MembershipInvariant, PTL DEF Spec

\* No member becomes an administrator but through a directory that showed
\* another role (canAssignMembershipRole).
THEOREM MembershipNoJump == Spec => NobodyJumpsToAdministrator
<1>1. ASSUME Inv, [Next]_vars, NEW p \in People, Changed(p),
             memberships[p].role = "member", memberships'[p].role = "administrator"
      PROVE  \E q \in InFlight : /\ call[q].op = "role" /\ call[q].person = p
                                 /\ known[q] # NoRow /\ known[q].role # "member"
  <2>1. PICK q \in InFlight : Activates(q, p) \/ GivesRole(q, p) \/ GivesStatus(q, p)
    BY <1>1, MembershipChanges DEF Changed
  <2>2. memberships[p] \in Row
    BY <1>1, MembershipChanges DEF Changed
  <2>3. GivesRole(q, p) /\ call[q].role = "administrator"
    BY <1>1, <2>1, <2>2 DEF Activates, GivesRole, GivesStatus, Row
  <2>4. known[q] # NoRow /\ CanAssign(known[q].role, call[q].role)
    BY <1>1, <2>3 DEF Inv, Knows, InFlight, GivesRole
  <2> QED
    BY <2>3, <2>4 DEF CanAssign, GivesRole
<1>2. Inv /\ [Next]_vars =>
        [\A p \in People :
          Changed(p) /\ memberships[p].role = "member" /\ memberships'[p].role = "administrator" =>
             \E q \in InFlight : /\ call[q].op = "role" /\ call[q].person = p
                                 /\ known[q] # NoRow /\ known[q].role # "member"]_vars
  BY <1>1
<1> QED
  BY <1>2, MembershipInvariant, PTL DEF Spec, NobodyJumpsToAdministrator

\* A blocked member comes back by an administrator's decision, or by a join
\* that had read the membership as active (commitOnboardingMembership).
THEOREM MembershipBlocks == Spec => BlockedStayBlocked
<1>1. ASSUME Inv, [Next]_vars, NEW p \in People, Changed(p),
             memberships[p].status # "active", memberships'[p].status = "active"
      PROVE  \E q \in InFlight :
                \/ call[q].op = "status" /\ call[q].person = p /\ call[q].status = "active"
                \/ /\ call[q].op = "join" /\ person[q] = p
                   /\ known[q] # NoRow /\ known[q].status = "active"
  <2>1. PICK q \in InFlight : Activates(q, p) \/ GivesRole(q, p) \/ GivesStatus(q, p)
    BY <1>1, MembershipChanges DEF Changed
  <2>2. memberships[p] \in Row
    BY <1>1, MembershipChanges DEF Changed
  <2>3. CASE Activates(q, p)
    BY <1>1, <2>3 DEF Activates, Inv, Knows, InFlight
  <2>4. CASE GivesStatus(q, p)
    BY <1>1, <2>2, <2>4 DEF GivesStatus, Row
  <2>5. ~GivesRole(q, p)
    BY <1>1, <2>2 DEF GivesRole, Row
  <2> QED
    BY <2>1, <2>3, <2>4, <2>5
<1>2. Inv /\ [Next]_vars =>
        [\A p \in People :
          Changed(p) /\ memberships[p].status # "active" /\ memberships'[p].status = "active" =>
             \E q \in InFlight :
                \/ call[q].op = "status" /\ call[q].person = p /\ call[q].status = "active"
                \/ /\ call[q].op = "join" /\ person[q] = p
                   /\ known[q] # NoRow /\ known[q].status = "active"]_vars
  BY <1>1
<1> QED
  BY <1>2, MembershipInvariant, PTL DEF Spec, BlockedStayBlocked
=============================================================================
