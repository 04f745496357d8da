--------------------------- MODULE Communication ----------------------------
(***************************************************************************)
(* Conversations, the people in them and their messages, as the server's   *)
(* repository keeps them: every operation loads the tenant's three tables, *)
(* decides, and writes the whole store back, table after table.            *)
(* Messages are plain text: attachments, replies and titles are left out.  *)
(***************************************************************************)
EXTENDS Naturals, Sequences, FiniteSets, Stores

CONSTANTS Requests, Calls, MaxInFlight, Faults, NoCall,
          People,
          Staff,           \* moderators and administrators of the tenant
          Contexts,        \* what a conversation may be about
          Seeded,          \* ids of rows stored before the first request
          FirstStores      \* the stores the first request may find

VARIABLES db, pc, call, round, seen, loaded, out, todo, failed

Ids == Requests \cup Seeded
Kinds == {"direct", "context"}
Roles == {"owner", "moderator", "participant"}

Conversation == [by : People, kind : Kinds, context : Contexts]
Participant == [conversation : Ids, person : People, role : Roles, by : People]
Message == [conversation : Ids, sender : People, status : {"sent", "edited", "deleted"}]

Tables == {"conversations", "participants", "messages"}

\* What the columns of the tables allow.
WellFormed(s) ==
    /\ DOMAIN s = Tables
    /\ DOMAIN s.conversations \subseteq Ids
    /\ s.conversations \in [DOMAIN s.conversations -> Conversation]
    /\ s.participants \in [DOMAIN s.participants -> Participant]
    /\ s.messages \in [DOMAIN s.messages -> Message]

ASSUME CallsAssumption ==
    \A c \in Calls :
        /\ c.op \in {"open", "send", "post", "edit", "delete", "add"}
        /\ c.who \in People
        /\ c.op \in {"open", "send"} =>
              c.context \in Contexts /\ c.kind \in Kinds /\ c.with \subseteq People
        /\ c.op = "add" => c.person \in People /\ c.role \in Roles

Rank == [conversations |-> 1, participants |-> 2, messages |-> 3]
Critical == {"conversations"}

Thread(row) == row.conversation

RowsOf(s, k) == {i \in DOMAIN s.participants : s.participants[i].conversation = k}
RoleIn(s, k, p) == {s.participants[i].role : i \in {j \in RowsOf(s, k) :
                                                     s.participants[j].person = p}}
TakesPart(s, k, p) == RoleIn(s, k, p) # {}
Manages(s, k, p) == RoleIn(s, k, p) \cap {"owner", "moderator"} # {}
ThreadsAbout(s, x) == {k \in DOMAIN s.conversations : s.conversations[k].context = x}

\* Whoever is in a private conversation was put there by one who runs it, or by
\* the tenant's staff.
Invited(s) ==
    \A i \in DOMAIN s.participants :
        LET row == s.participants[i]
        IN s.conversations[row.conversation].kind = "direct" =>
              row.by \in Staff \/ Manages(s, row.conversation, row.by)

\* The rows a request creates are its own, and so are the people it puts in.
ASSUME IdsAssumption == Seeded \cap (Requests \cup Requests \X People) = {}

ASSUME SeedAssumption ==
    \A s \in FirstStores :
        /\ WellFormed(s) /\ Invited(s)
        /\ \A t \in Tables : DOMAIN s[t] \subseteq Seeded
        /\ Refer(s.participants, Thread, s.conversations)
        /\ Refer(s.messages, Thread, s.conversations)

MayRead(s, k, p) == p \in Staff \/ TakesPart(s, k, p)
MayPost(s, k, p) == TakesPart(s, k, p)
MayManage(s, k, p) == p \in Staff \/ Manages(s, k, p)
MayEditAlways(m, p) == m.sender = p              \* mutant
MayEdit(m, p) == m.status # "deleted" /\ m.sender = p
MayDelete(s, m, p) == MayEdit(m, p) \/ MayManage(s, m.conversation, p)

Taking(s, q, k, p, role, by) ==
    [s EXCEPT !.participants =
        With(@, Row(<<q, p>>, [conversation |-> k, person |-> p, role |-> role, by |-> by]))]

\* findOrCreateConversationServer: an open thread is joined, a direct one not.
JoinAny(q, c, s, k) ==                           \* mutant
    IF TakesPart(s, k, c.who) THEN Skip
    ELSE Save(Taking(s, q, k, c.who, "participant", c.who))

Join(q, c, s, k) ==
    IF TakesPart(s, k, c.who) THEN Skip
    ELSE IF s.conversations[k].kind = "direct" THEN Deny
    ELSE Save(Taking(s, q, k, c.who, "participant", c.who))

Found(q, c, s) ==
    Save([s EXCEPT
      !.conversations =
          With(@, Row(q, [by |-> c.who, kind |-> c.kind, context |-> c.context])),
      !.participants = With(@, [i \in {<<q, p>> : p \in c.with \cup {c.who}} |->
          [conversation |-> q, person |-> i[2], by |-> c.who,
           role |-> IF i[2] = c.who THEN "owner" ELSE "participant"]])])

Open(q, c, s) ==
    IF ThreadsAbout(s, c.context) = {} THEN Found(q, c, s)
    ELSE Join(q, c, s, CHOOSE k \in ThreadsAbout(s, c.context) : TRUE)

\* postMessageServer; sendMessage finds the thread by its context.
Addressed(c, s) == IF c.op = "send" THEN ThreadsAbout(s, c.context)
                   ELSE {c.conversation} \cap DOMAIN s.conversations

Post(q, c, s) ==
    LET open == {k \in Addressed(c, s) : MayPost(s, k, c.who)}
    IN IF open = {} THEN Deny
       ELSE Save([s EXCEPT !.messages =
              With(@, Row(q, [conversation |-> CHOOSE k \in open : TRUE,
                              sender |-> c.who, status |-> "sent"]))])

MarkAnew(s, m, status) ==                        \* mutant
    Save([s EXCEPT !.messages[m] = [conversation |-> @.conversation, status |-> status]])

Mark(s, m, status) == Save([s EXCEPT !.messages[m].status = status])

Edit(c, s) ==
    IF /\ c.message \in DOMAIN s.messages
       /\ s.messages[c.message].conversation \in DOMAIN s.conversations
       /\ MayRead(s, s.messages[c.message].conversation, c.who)
       /\ MayEdit(s.messages[c.message], c.who)
    THEN Mark(s, c.message, "edited") ELSE Deny

Delete(c, s) ==
    IF /\ c.message \in DOMAIN s.messages
       /\ s.messages[c.message].conversation \in DOMAIN s.conversations
       /\ MayRead(s, s.messages[c.message].conversation, c.who)
       /\ MayDelete(s, s.messages[c.message], c.who)
    THEN Mark(s, c.message, "deleted") ELSE Deny

\* addParticipantServer: nobody is made owner of an existing thread.
Add(q, c, s) ==
    IF c.conversation \in DOMAIN s.conversations /\ MayManage(s, c.conversation, c.who)
    THEN IF TakesPart(s, c.conversation, c.person) THEN Skip
         ELSE Save(Taking(s, q, c.conversation, c.person,
                          IF c.role = "owner" THEN "participant" ELSE c.role, c.who))
    ELSE Deny

Rounds(c) == IF c.op = "send" THEN <<"open", "post">> ELSE <<c.op>>

Decide(q, c, step, s) ==
    CASE step = "open" -> Open(q, c, s)
      [] step = "post" -> Post(q, c, s)
      [] step = "edit" -> Edit(c, s)
      [] step = "delete" -> Delete(c, s)
      [] step = "add" -> Add(q, c, s)

\* The tables' constraints: one thread per context, one row per participant.
Accepts(c, stored, t, rows) ==
    LET table == With(stored[t], rows)
    IN CASE t = "conversations" -> Unique(table, LAMBDA row : row.context)
         [] t = "participants" ->
              /\ Unique(table, LAMBDA row : <<row.conversation, row.person>>)
              /\ Refer(rows, Thread, stored.conversations)
         [] t = "messages" -> Refer(rows, Thread, stored.conversations)

\* The service client reads every row of the tenant.
Visible(c, stored, t) == stored[t]

INSTANCE WriteBack

Init == Idle /\ db \in FirstStores

Spec == Init /\ [][Next]_vars

-----------------------------------------------------------------------------
(* Properties.                                                             *)

\* The tables hold what their columns allow: a message or a participant always
\* belongs to a stored conversation.
TypeOK ==
    /\ db.conversations \in [DOMAIN db.conversations -> Conversation]
    /\ db.participants \in [DOMAIN db.participants -> Participant]
    /\ db.messages \in [DOMAIN db.messages -> Message]
    /\ Refer(db.participants, Thread, db.conversations)
    /\ Refer(db.messages, Thread, db.conversations)
    /\ pc \in [Requests -> {"idle", "reading", "writing", "ok", "rejected", "error", "lost"}]
    /\ loaded \in [Requests -> SUBSET Tables] /\ todo \in [Requests -> SUBSET Tables]
    /\ failed \in [Requests -> BOOLEAN]

\* Whoever is in a private conversation was put there by someone who ran it, or
\* by the tenant's staff: finding it by its context is never enough.
PrivateThreadsAreInvited == Invited(db)

\* What a client was told is stored, whatever else failed or ran meanwhile: the
\* thread it opened has it inside, its message is there, the person it added in.
AnsweredCallsTookEffect ==
    \A q \in Requests : pc[q] = "ok" =>
        LET c == call[q]
        IN /\ c.op \in {"open", "send"} =>
                \E k \in ThreadsAbout(db, c.context) : TakesPart(db, k, c.who)
           /\ c.op \in {"post", "send"} =>
                q \in DOMAIN db.messages /\ db.messages[q].sender = c.who
           /\ c.op = "add" => TakesPart(db, c.conversation, c.person)

\* Only a request that read a message before it was deleted can bring it back,
\* by writing its old store over it; no request that saw it deleted can.
OnlyStaleStoresRevive ==
    [][\A m \in DOMAIN db.messages \cap DOMAIN db'.messages :
          db.messages[m].status = "deleted" /\ db'.messages[m].status # "deleted" =>
             \E q \in InFlight : /\ m \in DOMAIN seen[q].messages
                                 /\ seen[q].messages[m].status # "deleted"]_db
=============================================================================
