------------------------ MODULE CommunicationProofs -------------------------
(***************************************************************************)
(* Who is in a conversation, what becomes of its messages, and what was    *)
(* answered, for any number of requests that write whole stores back.      *)
(***************************************************************************)
EXTENDS Communication, TLAPS

USE CallsAssumption, IdsAssumption

\* What one decision may do to the store it was read from.  Threads and the
\* people in them stand; whoever is new was entitled to be put in.
KeepsThreads(q, c, step, s, new) ==
    \A i \in DOMAIN new.conversations :
        \/ i \in DOMAIN s.conversations /\ new.conversations[i] = s.conversations[i]
        \/ i = q /\ step = "open"

Entitled(s, new, row) ==
    \/ row.by \in Staff
    \/ Manages(new, row.conversation, row.by)
    \/ /\ row.conversation \in DOMAIN s.conversations
       /\ s.conversations[row.conversation].kind # "direct"

KeepsPeople(q, step, s, new) ==
    \A i \in DOMAIN new.participants :
        \/ i \in DOMAIN s.participants /\ new.participants[i] = s.participants[i]
        \/ /\ step \in {"open", "add"} /\ i \in {q} \X People
           /\ Entitled(s, new, new.participants[i])

KeepsMessages(q, c, step, s, new) ==
    \A i \in DOMAIN new.messages :
        \/ /\ i \in DOMAIN s.messages
           /\ new.messages[i].conversation = s.messages[i].conversation
           /\ new.messages[i].sender = s.messages[i].sender
           /\ s.messages[i].status = "deleted" => new.messages[i].status = "deleted"
        \/ i = q /\ step = "post" /\ new.messages[i].sender = c.who

\* What a call is for, when a store already shows it.
Inside(s, c) == \E k \in ThreadsAbout(s, c.context) : TakesPart(s, k, c.who)

Shows(q, c, step, s) ==
    /\ step = "open" => Inside(s, c)
    /\ step = "post" => q \in DOMAIN s.messages
    /\ step = "add" => TakesPart(s, c.conversation, c.person)

Decided(q, c, step, s, new) ==
    /\ WellFormed(new)
    /\ KeepsThreads(q, c, step, s, new)
    /\ KeepsPeople(q, step, s, new)
    /\ KeepsMessages(q, c, step, s, new)
    /\ Shows(q, c, step, new)

Steps(c) == IF c.op = "send" THEN {"open", "post"} ELSE {c.op}

InPlay(q) == pc[q] \in {"reading", "writing"}

StepOf(q) == Rounds(call[q])[round[q]]

Typed ==
    /\ WellFormed(db)
    /\ pc \in [Requests -> {"idle", "reading", "writing", "ok", "rejected", "error", "lost"}]
    /\ call \in [Requests -> Calls \cup {NoCall}]
    /\ round \in [Requests -> Nat]
    /\ DOMAIN seen = Requests /\ DOMAIN out = Requests
    /\ seen = [q \in Requests |-> seen[q]] /\ out = [q \in Requests |-> out[q]]
    /\ \A q \in Requests : WellFormed(seen[q]) /\ WellFormed(out[q])
    /\ loaded \in [Requests -> SUBSET Tables]
    /\ todo \in [Requests -> SUBSET Tables]
    /\ failed \in [Requests -> BOOLEAN]
    /\ \A q \in Requests : pc[q] # "idle" => call[q] \in Calls
    /\ \A q \in Requests : InPlay(q) => round[q] \in 1 .. Len(Rounds(call[q]))

\* Participants and messages belong to stored conversations.
Referring ==
    /\ \A i \in DOMAIN db.participants : db.participants[i].conversation \in DOMAIN db.conversations
    /\ \A i \in DOMAIN db.messages : db.messages[i].conversation \in DOMAIN db.conversations

\* The rows a request creates are not there before its step has written them.
Own(q) ==
    /\ q \in DOMAIN db.conversations =>
          pc[q] # "idle" /\ ~ (pc[q] = "reading" /\ StepOf(q) = "open")
    /\ \A i \in DOMAIN db.participants : i \in {q} \X People =>
          pc[q] # "idle" /\ ~ (pc[q] = "reading" /\ StepOf(q) \in {"open", "add"})
    /\ q \in DOMAIN db.messages =>
          /\ db.messages[q].sender = call[q].who
          /\ pc[q] \notin {"idle", "reading"}
          /\ pc[q] = "writing" => StepOf(q) = "post" /\ "messages" \notin todo[q]

\* The rows a store shares with the tables are the stored ones, but for the
\* status of messages.
Matches(s) ==
    /\ \A i \in DOMAIN s.conversations \cap DOMAIN db.conversations :
          s.conversations[i] = db.conversations[i]
    /\ \A i \in DOMAIN s.participants \cap DOMAIN db.participants :
          s.participants[i] = db.participants[i]
    /\ \A i \in DOMAIN s.messages \cap DOMAIN db.messages :
          /\ s.messages[i].conversation = db.messages[i].conversation
          /\ s.messages[i].sender = db.messages[i].sender

Stored(s) == \A t \in Tables : DOMAIN s[t] \subseteq DOMAIN db[t]

\* What a request has read is stored.
Agrees(q) == Matches(seen[q]) /\ Stored(seen[q])

\* What it writes was decided upon by its step, on what it has read; a table is
\* stored unless it still has to be written, or something failed.
Writes(q) ==
    pc[q] = "writing" =>
        /\ Decided(q, call[q], StepOf(q), seen[q], out[q])
        /\ Matches(out[q])
        /\ failed[q] \/ \A t \in Tables : DOMAIN out[q][t] \subseteq DOMAIN db[t] \/ t \in todo[q]

\* What its earlier rounds, and all of them, have stored.
Reached(q) ==
    /\ InPlay(q) /\ StepOf(q) = "post" /\ call[q].op = "send" => Inside(db, call[q])
    /\ pc[q] = "ok" =>
          /\ call[q].op \in {"open", "send"} => Inside(db, call[q])
          /\ call[q].op \in {"post", "send"} => q \in DOMAIN db.messages
          /\ call[q].op = "add" => TakesPart(db, call[q].conversation, call[q].person)

Knows(q) == Own(q) /\ Agrees(q) /\ Writes(q) /\ Reached(q)

Inv == Typed /\ Referring /\ Invited(db) /\ \A q \in Requests : Knows(q)

\* What every step does to the tables: threads and the people in them stand, and
\* a message stays where it was sent, by whom it was sent.
Grows ==
    /\ WellFormed(db')
    /\ \A t \in Tables : DOMAIN db[t] \subseteq DOMAIN db'[t]
    /\ \A k \in DOMAIN db.conversations : db'.conversations[k] = db.conversations[k]
    /\ \A i \in DOMAIN db.participants : db'.participants[i] = db.participants[i]
    /\ \A m \in DOMAIN db.messages :
          /\ db'.messages[m].conversation = db.messages[m].conversation
          /\ db'.messages[m].sender = db.messages[m].sender

Same(q) == /\ pc'[q] = pc[q] /\ call'[q] = call[q] /\ round'[q] = round[q]
           /\ seen'[q] = seen[q] /\ out'[q] = out[q]
           /\ todo'[q] = todo[q] /\ failed'[q] = failed[q]

-----------------------------------------------------------------------------

LEMMA NothingIsWellFormed == WellFormed(Nothing)
<1>1. \A t \in Tables : Nothing[t] = <<>>
  BY DEF Nothing
<1>2. \A S : <<>> \in [DOMAIN <<>> -> S]
  OBVIOUS
<1> QED
  BY <1>1, <1>2 DEF WellFormed, Tables, Nothing

\* Replacing one table by a well-formed one.
LEMMA Replaced ==
    ASSUME NEW s, WellFormed(s), NEW t \in Tables, NEW table,
           NEW S, table \in [DOMAIN table -> S],
           \/ t = "conversations" /\ S = Conversation /\ DOMAIN table \subseteq Ids
           \/ t = "participants" /\ S = Participant
           \/ t = "messages" /\ S = Message
    PROVE  /\ WellFormed([s EXCEPT ![t] = table])
           /\ [s EXCEPT ![t] = table][t] = table
           /\ \A u \in Tables \ {t} : [s EXCEPT ![t] = table][u] = s[u]
BY DEF WellFormed, Tables

\* Being in a conversation, and running it, is having a row that says so.
LEMMA TakingPart ==
    ASSUME NEW s, NEW k, NEW p
    PROVE  TakesPart(s, k, p) <=>
              \E i \in DOMAIN s.participants :
                 s.participants[i].conversation = k /\ s.participants[i].person = p
BY DEF TakesPart, RoleIn, RowsOf

LEMMA Managing ==
    ASSUME NEW s, NEW k, NEW p
    PROVE  Manages(s, k, p) <=>
              \E i \in DOMAIN s.participants :
                 /\ s.participants[i].conversation = k /\ s.participants[i].person = p
                 /\ s.participants[i].role \in {"owner", "moderator"}
BY DEF Manages, RoleIn, RowsOf

\* Whoever is inside, or runs a conversation, in one store does so in every
\* store that has its rows.
LEMMA Carried ==
    ASSUME NEW s, NEW d, NEW k, NEW p,
           \A i \in DOMAIN s.participants :
              i \in DOMAIN d.participants /\ d.participants[i] = s.participants[i]
    PROVE  /\ TakesPart(s, k, p) => TakesPart(d, k, p)
           /\ Manages(s, k, p) => Manages(d, k, p)
BY TakingPart, Managing

LEMMA CarriedInside ==
    ASSUME NEW s, NEW d, NEW c,
           \A i \in DOMAIN s.participants :
              i \in DOMAIN d.participants /\ d.participants[i] = s.participants[i],
           \A k \in DOMAIN s.conversations :
              k \in DOMAIN d.conversations /\ d.conversations[k] = s.conversations[k],
           Inside(s, c)
    PROVE  Inside(d, c)
<1>1. PICK k \in ThreadsAbout(s, c.context) : TakesPart(s, k, c.who)
  BY DEF Inside
<1>2. TakesPart(d, k, c.who)
  BY <1>1, Carried
<1>3. k \in ThreadsAbout(d, c.context)
  BY <1>1 DEF ThreadsAbout
<1> QED
  BY <1>2, <1>3 DEF Inside

\* Putting one more person in.
LEMMA TakingDecides ==
    ASSUME NEW q \in Requests, NEW c \in Calls, NEW step \in {"open", "add"},
           NEW s, WellFormed(s), NEW k \in DOMAIN s.conversations,
           NEW p \in People, NEW role \in Roles, NEW by \in People,
           \/ by \in Staff
           \/ Manages(s, k, by)
           \/ s.conversations[k].kind # "direct",
           \A i \in DOMAIN s.participants : i \notin {q} \X People,
           step = "open" => k \in ThreadsAbout(s, c.context) /\ p = c.who,
           step = "add" => k = c.conversation /\ p = c.person
    PROVE  Decided(q, c, step, s, Taking(s, q, k, p, role, by))
<1> DEFINE row == [conversation |-> k, person |-> p, role |-> role, by |-> by]
           rows == With(s.participants, Row(<<q, p>>, row))
           new == [s EXCEPT !["participants"] = rows]
<1>1. /\ row \in Participant
      /\ row.conversation = k /\ row.person = p /\ row.by = by
  BY DEF Participant, WellFormed
<1> HIDE DEF row
<1>2. /\ rows \in [DOMAIN rows -> Participant]
      /\ DOMAIN rows = DOMAIN s.participants \cup {<<q, p>>}
      /\ rows[<<q, p>>] = row
      /\ \A j \in DOMAIN s.participants : rows[j] = s.participants[j]
  <2>1. s.participants \in [DOMAIN s.participants -> Participant]
    BY DEF WellFormed
  <2>2. <<q, p>> \notin DOMAIN s.participants
    OBVIOUS
  <2> QED
    BY <1>1, <2>1, <2>2 DEF With, Row
<1> HIDE DEF rows
<1>3. /\ WellFormed(new) /\ new.participants = rows
      /\ \A t \in Tables \ {"participants"} : new[t] = s[t]
  BY <1>2, Replaced DEF Tables
<1>4. new.conversations = s.conversations /\ new.messages = s.messages
  BY <1>3 DEF Tables
<1> HIDE DEF new
<1>5. Entitled(s, new, row)
  <2>1. Manages(s, k, by) => Manages(new, k, by)
    BY <1>2, <1>3, Carried
  <2> QED
    BY <1>1, <2>1 DEF Entitled
<1>6. KeepsPeople(q, step, s, new)
  BY <1>2, <1>3, <1>5 DEF KeepsPeople
<1>7. KeepsThreads(q, c, step, s, new) /\ KeepsMessages(q, c, step, s, new)
  BY <1>4 DEF KeepsThreads, KeepsMessages
<1>8. Shows(q, c, step, new)
  <2>1. TakesPart(new, k, p)
    BY <1>1, <1>2, <1>3, TakingPart
  <2>2. step = "open" => Inside(new, c)
    BY <1>4, <2>1 DEF Inside, ThreadsAbout
  <2> QED
    BY <2>1, <2>2 DEF Shows
<1>9. Decided(q, c, step, s, new)
  BY <1>3, <1>6, <1>7, <1>8 DEF Decided
<1> QED
  BY <1>9 DEF Taking, new, rows, row

LEMMA FoundDecides ==
    ASSUME NEW q \in Requests, NEW c \in Calls, c.op \in {"open", "send"},
           NEW s, WellFormed(s), q \notin DOMAIN s.conversations,
           \A i \in DOMAIN s.participants : i \notin {q} \X People
    PROVE  /\ Found(q, c, s).verdict = "save"
           /\ Decided(q, c, "open", s, Found(q, c, s).store)
<1> DEFINE row == [by |-> c.who, kind |-> c.kind, context |-> c.context]
           threads == With(s.conversations, Row(q, row))
           base == [s EXCEPT !["conversations"] = threads]
           people == {<<q, p>> : p \in c.with \cup {c.who}}
           put == [i \in people |->
                     [conversation |-> q, person |-> i[2], by |-> c.who,
                      role |-> IF i[2] = c.who THEN "owner" ELSE "participant"]]
           rows == With(s.participants, put)
           new == [base EXCEPT !["participants"] = rows]
<1>1. /\ c.who \in People /\ c.with \subseteq People
      /\ row \in Conversation /\ row.context = c.context
  BY DEF Conversation
<1> HIDE DEF row
<1>2. /\ threads \in [DOMAIN threads -> Conversation]
      /\ DOMAIN threads = DOMAIN s.conversations \cup {q}
      /\ DOMAIN threads \subseteq Ids
      /\ threads[q] = row
      /\ \A j \in DOMAIN s.conversations : threads[j] = s.conversations[j]
  <2>1. s.conversations \in [DOMAIN s.conversations -> Conversation] /\ DOMAIN s.conversations \subseteq Ids
    BY DEF WellFormed
  <2> QED
    BY <1>1, <2>1 DEF With, Row, Ids
<1> HIDE DEF threads
<1>3. /\ WellFormed(base) /\ base.conversations = threads
      /\ \A t \in Tables \ {"conversations"} : base[t] = s[t]
  BY <1>2, Replaced DEF Tables
<1>4. base.participants = s.participants /\ base.messages = s.messages
  BY <1>3 DEF Tables
<1> HIDE DEF base
<1>5. /\ people \subseteq {q} \X People /\ <<q, c.who>> \in people
      /\ DOMAIN put = people
      /\ \A i \in people : /\ put[i] \in Participant
                           /\ put[i].conversation = q /\ put[i].by = c.who
      /\ put[<<q, c.who>>].person = c.who /\ put[<<q, c.who>>].role = "owner"
  BY <1>1 DEF Participant, Roles, Ids
<1> HIDE DEF put, people
<1>6. /\ rows \in [DOMAIN rows -> Participant]
      /\ DOMAIN rows = people \cup DOMAIN s.participants
      /\ \A i \in people : rows[i] = put[i]
      /\ \A i \in DOMAIN s.participants : rows[i] = s.participants[i]
  <2>1. s.participants \in [DOMAIN s.participants -> Participant]
    BY DEF WellFormed
  <2> QED
    BY <1>5, <2>1 DEF With
<1> HIDE DEF rows
<1>7. /\ WellFormed(new) /\ new.participants = rows
      /\ \A t \in Tables \ {"participants"} : new[t] = base[t]
  BY <1>3, <1>6, Replaced DEF Tables
<1>8. new.conversations = threads /\ new.messages = s.messages
  BY <1>3, <1>4, <1>7 DEF Tables
<1> HIDE DEF new
<1>9. Manages(new, q, c.who) /\ TakesPart(new, q, c.who)
  BY <1>5, <1>6, <1>7, Managing, TakingPart
<1>10. KeepsPeople(q, "open", s, new)
  BY <1>5, <1>6, <1>7, <1>9 DEF KeepsPeople, Entitled
<1>11. KeepsThreads(q, c, "open", s, new) /\ KeepsMessages(q, c, "open", s, new)
  BY <1>2, <1>8 DEF KeepsThreads, KeepsMessages
<1>12. Shows(q, c, "open", new)
  BY <1>1, <1>2, <1>8, <1>9 DEF Shows, Inside, ThreadsAbout
<1>13. Decided(q, c, "open", s, new)
  BY <1>7, <1>10, <1>11, <1>12 DEF Decided
<1> QED
  BY <1>13 DEF Found, Save, new, base, rows, put, people, threads, row

\* What a store has to leave free for a step's rows.
Free(q, step, s) ==
    /\ step = "open" => q \notin DOMAIN s.conversations
    /\ step \in {"open", "add"} => \A i \in DOMAIN s.participants : i \notin {q} \X People

\* What a verdict has to be.
Sound(q, c, step, s, does) ==
    /\ does.verdict \in {"deny", "skip", "save"}
    /\ does.verdict = "skip" => Shows(q, c, step, s)
    /\ does.verdict = "save" => Decided(q, c, step, s, does.store)

LEMMA JoinDecides ==
    ASSUME NEW q \in Requests, NEW c \in Calls, NEW s, WellFormed(s), Free(q, "open", s),
           NEW k \in ThreadsAbout(s, c.context)
    PROVE  Sound(q, c, "open", s, Join(q, c, s, k))
<1>1. k \in DOMAIN s.conversations /\ c.who \in People /\ "participant" \in Roles
  BY DEF ThreadsAbout, Roles
<1>2. CASE TakesPart(s, k, c.who)
  BY <1>2 DEF Sound, Join, Skip, Shows, Inside
<1>3. CASE ~TakesPart(s, k, c.who) /\ s.conversations[k].kind = "direct"
  BY <1>3 DEF Sound, Join, Deny
<1>4. CASE ~TakesPart(s, k, c.who) /\ s.conversations[k].kind # "direct"
  <2>1. Decided(q, c, "open", s, Taking(s, q, k, c.who, "participant", c.who))
    BY <1>1, <1>4, TakingDecides DEF Free
  <2> QED
    BY <1>4, <2>1 DEF Sound, Join, Save
<1> QED
  BY <1>2, <1>3, <1>4

LEMMA OpenDecides ==
    ASSUME NEW q \in Requests, NEW c \in Calls, c.op \in {"open", "send"},
           NEW s, WellFormed(s), Free(q, "open", s)
    PROVE  Sound(q, c, "open", s, Open(q, c, s))
<1>1. CASE ThreadsAbout(s, c.context) = {}
  BY <1>1, FoundDecides DEF Sound, Open, Free
<1>2. CASE ThreadsAbout(s, c.context) # {}
  <2> DEFINE k == CHOOSE k \in ThreadsAbout(s, c.context) : TRUE
  <2>1. k \in ThreadsAbout(s, c.context)
    BY <1>2
  <2>2. Open(q, c, s) = Join(q, c, s, k)
    BY <1>2 DEF Open
  <2> HIDE DEF k
  <2> QED
    BY <2>1, <2>2, JoinDecides
<1> QED
  BY <1>1, <1>2

LEMMA PostDecides ==
    ASSUME NEW q \in Requests, NEW c \in Calls, c.op \in {"post", "send"},
           NEW s, WellFormed(s)
    PROVE  Sound(q, c, "post", s, Post(q, c, s))
<1> DEFINE open == {k \in Addressed(c, s) : MayPost(s, k, c.who)}
           row == [conversation |-> CHOOSE k \in open : TRUE,
                   sender |-> c.who, status |-> "sent"]
           rows == With(s.messages, Row(q, row))
           new == [s EXCEPT !["messages"] = rows]
<1>1. CASE open = {}
  BY <1>1 DEF Sound, Post, Deny
<1>2. CASE open # {}
  <2>1. open \subseteq DOMAIN s.conversations
    BY DEF Addressed, ThreadsAbout
  <2>2. (CHOOSE k \in open : TRUE) \in open
    BY <1>2
  <2>3. row \in Message /\ row.sender = c.who
    BY <2>1, <2>2 DEF Message, WellFormed
  <2> HIDE DEF row
  <2>4. /\ rows \in [DOMAIN rows -> Message]
        /\ DOMAIN rows = DOMAIN s.messages \cup {q}
        /\ rows[q] = row
        /\ \A j \in DOMAIN s.messages : j # q => rows[j] = s.messages[j]
    <3>1. s.messages \in [DOMAIN s.messages -> Message]
      BY DEF WellFormed
    <3> QED
      BY <2>3, <3>1 DEF With, Row
  <2> HIDE DEF rows
  <2>5. /\ WellFormed(new) /\ new.messages = rows
        /\ new.conversations = s.conversations /\ new.participants = s.participants
    BY <2>4, Replaced DEF Tables
  <2> HIDE DEF new
  <2>6. KeepsMessages(q, c, "post", s, new)
    BY <2>3, <2>4, <2>5 DEF KeepsMessages
  <2>7. Decided(q, c, "post", s, new)
    BY <2>4, <2>5, <2>6 DEF Decided, KeepsThreads, KeepsPeople, Shows
  <2>8. Post(q, c, s) = Save(new)
    BY <1>2 DEF Post, new, rows, row
  <2> QED
    BY <2>7, <2>8 DEF Sound, Save
<1> QED
  BY <1>1, <1>2

\* A message is marked where it is; a deleted one only as deleted.
LEMMA MarkDecides ==
    ASSUME NEW q, NEW c \in Calls, NEW step, step \notin {"open", "post", "add"},
           NEW s, WellFormed(s), NEW m \in DOMAIN s.messages,
           NEW status \in {"edited", "deleted"},
           s.messages[m].status = "deleted" => status = "deleted"
    PROVE  Sound(q, c, step, s, Mark(s, m, status))
<1> DEFINE rows == [s.messages EXCEPT ![m].status = status]
           new == [s EXCEPT !["messages"] = rows]
<1>1. \A i \in DOMAIN s.messages : s.messages[i] \in Message
  BY DEF WellFormed
<1>2. /\ DOMAIN rows = DOMAIN s.messages
      /\ \A i \in DOMAIN rows : i # m => rows[i] = s.messages[i]
      /\ rows[m] = [s.messages[m] EXCEPT !.status = status]
  OBVIOUS
<1>3. /\ rows[m] \in Message /\ rows[m].status = status
      /\ rows[m].conversation = s.messages[m].conversation
      /\ rows[m].sender = s.messages[m].sender
  BY <1>1, <1>2 DEF Message
<1>4. rows \in [DOMAIN rows -> Message]
  BY <1>1, <1>2, <1>3
<1> HIDE DEF rows
<1>5. /\ WellFormed(new) /\ new.messages = rows
      /\ new.conversations = s.conversations /\ new.participants = s.participants
  BY <1>4, Replaced DEF Tables
<1> HIDE DEF new
<1>6. KeepsMessages(q, c, step, s, new)
  BY <1>2, <1>3, <1>5 DEF KeepsMessages
<1>7. Decided(q, c, step, s, new)
  BY <1>5, <1>6 DEF Decided, KeepsThreads, KeepsPeople, Shows
<1>8. Mark(s, m, status) = Save(new)
  BY DEF Mark, new, rows, WellFormed, Tables
<1> QED
  BY <1>7, <1>8 DEF Sound, Save

LEMMA AddDecides ==
    ASSUME NEW q \in Requests, NEW c \in Calls, c.op = "add",
           NEW s, WellFormed(s), Free(q, "add", s)
    PROVE  Sound(q, c, "add", s, Add(q, c, s))
<1> DEFINE k == c.conversation
           role == IF c.role = "owner" THEN "participant" ELSE c.role
           entitled == k \in DOMAIN s.conversations /\ MayManage(s, k, c.who)
<1>1. CASE ~entitled
  BY <1>1 DEF Sound, Add, Deny
<1>2. CASE entitled /\ TakesPart(s, k, c.person)
  BY <1>2 DEF Sound, Add, Skip, Shows
<1>3. CASE entitled /\ ~TakesPart(s, k, c.person)
  <2>1. role \in Roles /\ c.person \in People /\ c.who \in People
    BY DEF Roles
  <2>2. c.who \in Staff \/ Manages(s, k, c.who)
    BY <1>3 DEF MayManage
  <2>3. Add(q, c, s) = Save(Taking(s, q, k, c.person, role, c.who))
    BY <1>3 DEF Add
  <2> HIDE DEF role
  <2>4. Decided(q, c, "add", s, Taking(s, q, k, c.person, role, c.who))
    BY <1>3, <2>1, <2>2, TakingDecides DEF Free
  <2> QED
    BY <2>3, <2>4 DEF Sound, Save
<1> QED
  BY <1>1, <1>2, <1>3

\* Every step of every call decides within these limits.
LEMMA DecideDecides ==
    ASSUME NEW q \in Requests, NEW c \in Calls, NEW step \in Steps(c),
           NEW s, WellFormed(s), Free(q, step, s)
    PROVE  Sound(q, c, step, s, Decide(q, c, step, s))
<1>1. CASE step = "open"
  BY <1>1, OpenDecides DEF Decide, Steps
<1>2. CASE step = "post"
  BY <1>2, PostDecides DEF Decide, Steps
<1>3. CASE step = "add"
  BY <1>3, AddDecides DEF Decide, Steps
<1>4. CASE step = "edit"
  <2>1. CASE Edit(c, s) = Deny
    BY <1>4, <2>1 DEF Decide, Sound, Deny
  <2>2. CASE Edit(c, s) # Deny
    <3>1. /\ c.message \in DOMAIN s.messages /\ s.messages[c.message].status # "deleted"
          /\ Edit(c, s) = Mark(s, c.message, "edited")
      BY <2>2 DEF Edit, MayEdit
    <3>2. Sound(q, c, "edit", s, Mark(s, c.message, "edited"))
      BY <3>1, MarkDecides
    <3> QED
      BY <1>4, <3>1, <3>2 DEF Decide
  <2> QED
    BY <2>1, <2>2
<1>5. CASE step = "delete"
  <2>1. CASE Delete(c, s) = Deny
    BY <1>5, <2>1 DEF Decide, Sound, Deny
  <2>2. CASE Delete(c, s) # Deny
    <3>1. c.message \in DOMAIN s.messages /\ Delete(c, s) = Mark(s, c.message, "deleted")
      BY <2>2 DEF Delete
    <3>2. Sound(q, c, "delete", s, Mark(s, c.message, "deleted"))
      BY <3>1, MarkDecides
    <3> QED
      BY <1>5, <3>1, <3>2 DEF Decide
  <2> QED
    BY <2>1, <2>2
<1> QED
  BY <1>1, <1>2, <1>3, <1>4, <1>5 DEF Steps

-----------------------------------------------------------------------------

LEMMA RoundsAreSteps ==
    ASSUME NEW c \in Calls
    PROVE  /\ Len(Rounds(c)) \in {1, 2}
           /\ \A r \in 1 .. Len(Rounds(c)) : Rounds(c)[r] \in Steps(c)
           /\ c.op = "send" => /\ Len(Rounds(c)) = 2
                               /\ Rounds(c)[1] = "open" /\ Rounds(c)[2] = "post"
           /\ c.op # "send" => Len(Rounds(c)) = 1 /\ Rounds(c)[1] = c.op
BY DEF Rounds, Steps

LEMMA InitInv == Init => Inv
<1> SUFFICES ASSUME Init PROVE Inv
  OBVIOUS
<1>1. Typed
  BY NothingIsWellFormed, SeedAssumption DEF Init, Idle, Typed, InPlay
<1>2. Referring /\ Invited(db)
  BY SeedAssumption DEF Init, Referring, Refer, Thread
<1>3. ASSUME NEW q \in Requests PROVE Knows(q)
  <2>1. pc[q] = "idle" /\ seen[q] = Nothing
    BY DEF Init, Idle
  <2>2. \A t \in Tables : DOMAIN db[t] \subseteq Seeded
    BY SeedAssumption DEF Init
  <2>3. /\ q \notin DOMAIN db.conversations /\ q \notin DOMAIN db.messages
        /\ \A i \in DOMAIN db.participants : i \notin {q} \X People
    BY <2>2 DEF Tables
  <2>4. \A t \in Tables : DOMAIN seen[q][t] = {}
    BY <2>1 DEF Nothing
  <2> QED
    BY <2>1, <2>3, <2>4 DEF Knows, Own, Agrees, Matches, Stored, Writes, Reached, InPlay, Tables
<1> QED
  BY <1>1, <1>2, <1>3 DEF Inv

\* None of a request's rows has come into the tables.
NothingNew(q) ==
    /\ q \in DOMAIN db'.conversations => q \in DOMAIN db.conversations
    /\ \A i \in DOMAIN db'.participants : i \in {q} \X People => i \in DOMAIN db.participants
    /\ q \in DOMAIN db'.messages => q \in DOMAIN db.messages

\* What was inside, or ran a conversation, still does.
LEMMA StillInside ==
    ASSUME Grows
    PROVE  /\ \A k, p : TakesPart(db, k, p) => TakesPart(db', k, p)
           /\ \A k, p : Manages(db, k, p) => Manages(db', k, p)
           /\ \A c : Inside(db, c) => Inside(db', c)
<1>1. \A i \in DOMAIN db.participants :
         i \in DOMAIN db'.participants /\ db'.participants[i] = db.participants[i]
  BY DEF Grows, Tables
<1>2. \A k \in DOMAIN db.conversations :
         k \in DOMAIN db'.conversations /\ db'.conversations[k] = db.conversations[k]
  BY DEF Grows, Tables
<1>3. \A k, p : TakesPart(db, k, p) => TakesPart(db', k, p)
  BY <1>1, TakingPart
<1>4. \A k, p : Manages(db, k, p) => Manages(db', k, p)
  BY <1>1, Managing
<1>5. ASSUME NEW c, Inside(db, c) PROVE Inside(db', c)
  <2>1. PICK k \in DOMAIN db.conversations :
           db.conversations[k].context = c.context /\ TakesPart(db, k, c.who)
    BY <1>5 DEF Inside, ThreadsAbout
  <2>2. k \in DOMAIN db'.conversations /\ db'.conversations[k].context = c.context
    BY <1>2, <2>1
  <2>3. TakesPart(db', k, c.who)
    BY <1>3, <2>1
  <2> QED
    BY <2>2, <2>3 DEF Inside, ThreadsAbout
<1> QED
  BY <1>3, <1>4, <1>5

\* The step of one request leaves what the others know true.
LEMMA OthersKnow ==
    ASSUME Inv, Grows, NEW q \in Requests, Same(q), NothingNew(q)
    PROVE  Knows(q)'
<1>1. Knows(q)
  BY DEF Inv
<1>2. Own(q)'
  <2>1. q \in DOMAIN db'.messages => db'.messages[q].sender = db.messages[q].sender
    BY DEF Grows, NothingNew
  <2> QED
    BY <1>1, <2>1 DEF Knows, Own, Same, NothingNew, StepOf
<1>3. Agrees(q)'
  <2>1. Stored(seen[q]) /\ Matches(seen[q])
    BY <1>1 DEF Knows, Agrees
  <2>2. Stored(seen[q])'
    BY <2>1 DEF Stored, Grows, Same
  <2>3. Matches(seen[q])'
    BY <2>1 DEF Matches, Stored, Grows, Same, Tables
  <2> QED
    BY <2>2, <2>3 DEF Agrees
<1>4. Writes(q)'
  <2> SUFFICES ASSUME pc[q] = "writing"
               PROVE  /\ Decided(q, call'[q], StepOf(q)', seen'[q], out'[q])
                      /\ Matches(out[q])'
                      /\ failed'[q] \/ \A t \in Tables :
                            DOMAIN out'[q][t] \subseteq DOMAIN db'[t] \/ t \in todo'[q]
    BY DEF Writes, Same
  <2>1. /\ Decided(q, call[q], StepOf(q), seen[q], out[q]) /\ Matches(out[q])
        /\ failed[q] \/ \A t \in Tables : DOMAIN out[q][t] \subseteq DOMAIN db[t] \/ t \in todo[q]
    BY <1>1 DEF Knows, Writes
  <2>2. Stored(seen[q])
    BY <1>1 DEF Knows, Agrees
  <2>3. /\ \A i \in DOMAIN out[q].conversations \cap DOMAIN db'.conversations : i \in DOMAIN db.conversations
        /\ \A i \in DOMAIN out[q].participants \cap DOMAIN db'.participants : i \in DOMAIN db.participants
        /\ \A i \in DOMAIN out[q].messages \cap DOMAIN db'.messages : i \in DOMAIN db.messages
    BY <2>1, <2>2 DEF Decided, KeepsThreads, KeepsPeople, KeepsMessages, Stored, NothingNew, Tables
  <2>4. Matches(out[q])'
    BY <2>1, <2>3 DEF Matches, Grows, Same
  <2> QED
    BY <2>1, <2>4 DEF Grows, Same, StepOf
<1>5. Reached(q)'
  <2>1. q \in DOMAIN db.messages => q \in DOMAIN db'.messages
    BY DEF Grows, Tables
  <2> QED
    BY <1>1, <2>1, StillInside DEF Knows, Reached, Same, StepOf, InPlay
<1> QED
  BY <1>2, <1>3, <1>4, <1>5 DEF Knows

\* What one request does keeps the invariant.
LEMMA OneRequest ==
    ASSUME Inv, NEW q \in Requests, Typed', Referring', Invited(db'), Grows, Knows(q)',
           \A r \in Requests \ {q} : Same(r) /\ NothingNew(r)
    PROVE  Inv'
BY OthersKnow DEF Inv

LEMMA QuietRequest ==
    ASSUME Inv, NEW q \in Requests, UNCHANGED db, Typed', Knows(q)',
           \A r \in Requests \ {q} : Same(r)
    PROVE  Inv'
<1>1. Grows
  BY DEF Grows, Inv, Typed
<1>2. Referring' /\ Invited(db')
  BY DEF Inv, Referring
<1>3. \A r \in Requests : NothingNew(r)
  BY DEF NothingNew
<1> QED
  BY <1>1, <1>2, <1>3, OneRequest

LEMMA StartStep ==
    ASSUME Inv, NEW q \in Requests, NEW c \in Calls, Start(q, c)
    PROVE  Inv' /\ UNCHANGED db
<1> USE DEF Start
<1>1. /\ pc[q] = "idle" /\ pc'[q] = "reading" /\ call'[q] = c /\ round'[q] = 1
      /\ UNCHANGED <<db, seen>>
  BY DEF Inv, Typed
<1>2. Typed'
  <2>1. 1 \in 1 .. Len(Rounds(c))
    BY RoundsAreSteps
  <2>2. \A r \in Requests : InPlay(r)' => round'[r] \in 1 .. Len(Rounds(call'[r]))
    BY <2>1 DEF Inv, Typed, InPlay
  <2> QED
    BY <2>2 DEF Inv, Typed
<1>3. StepOf(q)' = Rounds(c)[1]
  BY <1>1 DEF StepOf
<1>4. /\ q \notin DOMAIN db.conversations /\ q \notin DOMAIN db.messages
      /\ \A i \in DOMAIN db.participants : i \notin {q} \X People
  BY <1>1 DEF Inv, Knows, Own
<1>5. Knows(q)
  BY DEF Inv
<1>6. Own(q)' /\ Agrees(q)' /\ Writes(q)'
  BY <1>1, <1>4, <1>5 DEF Knows, Own, Agrees, Matches, Stored, Writes
<1>7. Reached(q)'
  BY <1>1, <1>3, RoundsAreSteps DEF Reached, InPlay
<1>8. Knows(q)'
  BY <1>6, <1>7 DEF Knows
<1>9. \A r \in Requests \ {q} : Same(r)
  BY DEF Same, Inv, Typed
<1> QED
  BY <1>1, <1>2, <1>8, <1>9, QuietRequest

\* What an answer says is stored.
AnswerHolds(q) ==
    /\ call[q].op \in {"open", "send"} => Inside(db, call[q])
    /\ call[q].op \in {"post", "send"} => q \in DOMAIN db.messages
    /\ call[q].op = "add" => TakesPart(db, call[q].conversation, call[q].person)

\* The answer, or the end without one, forgets what was read.
LEMMA EndStep ==
    ASSUME Inv, NEW q \in Requests, InPlay(q),
           NEW a \in {"ok", "rejected", "error", "lost"}, End(q, a),
           a = "ok" => AnswerHolds(q)
    PROVE  Inv' /\ UNCHANGED db
<1> USE DEF End, Forget
<1>1. pc'[q] = a /\ seen'[q] = Nothing /\ UNCHANGED <<db, call>>
  BY DEF Inv, Typed
<1>2. Typed'
  BY NothingIsWellFormed DEF Inv, Typed, InPlay
<1>3. \A t \in Tables : DOMAIN seen'[q][t] = {}
  BY <1>1 DEF Nothing
<1>4. Knows(q)
  BY DEF Inv
<1>5. Agrees(q)'
  BY <1>3 DEF Agrees, Matches, Stored, Tables
<1>6. Own(q)' /\ Writes(q)'
  BY <1>1, <1>4 DEF Knows, Own, Writes
<1>7. Reached(q)'
  BY <1>1 DEF Reached, InPlay, AnswerHolds
<1>8. Knows(q)'
  BY <1>5, <1>6, <1>7 DEF Knows
<1>9. \A r \in Requests \ {q} : Same(r)
  BY DEF Same, Inv, Typed
<1> QED
  BY <1>1, <1>2, <1>8, <1>9, QuietRequest

LEMMA ReadStep ==
    ASSUME Inv, NEW q \in Requests, NEW t \in Tables, Read(q, t)
    PROVE  Inv' /\ UNCHANGED db
<1> USE DEF Read
<1>1. /\ pc[q] = "reading" /\ UNCHANGED <<db, pc, call, round, out, todo, failed>>
      /\ seen'[q] = [seen[q] EXCEPT ![t] = db[t]]
      /\ \A r \in Requests \ {q} : seen'[r] = seen[r]
  BY DEF Inv, Typed, Visible
<1>2. PICK S : /\ db[t] \in [DOMAIN db[t] -> S]
               /\ \/ t = "conversations" /\ S = Conversation /\ DOMAIN db[t] \subseteq Ids
                  \/ t = "participants" /\ S = Participant
                  \/ t = "messages" /\ S = Message
  BY DEF Inv, Typed, WellFormed, Tables
<1>3. WellFormed(seen[q])
  BY DEF Inv, Typed
<1>4. /\ WellFormed(seen'[q]) /\ seen'[q][t] = db[t]
      /\ \A u \in Tables \ {t} : seen'[q][u] = seen[q][u]
  BY <1>1, <1>2, <1>3, Replaced
<1>5. Typed'
  <2>1. /\ DOMAIN seen' = Requests /\ seen' = [r \in Requests |-> seen'[r]]
        /\ loaded' \in [Requests -> SUBSET Tables]
    BY DEF Inv, Typed
  <2> QED
    BY <1>1, <1>4, <2>1 DEF Inv, Typed, InPlay
<1>6. Knows(q)
  BY DEF Inv
<1>7. Agrees(q)'
  <2>1. Matches(seen[q]) /\ Stored(seen[q])
    BY <1>6 DEF Knows, Agrees
  <2>2. Stored(seen[q])'
    BY <1>1, <1>4, <2>1 DEF Stored
  <2>3. Matches(seen[q])'
    BY <1>1, <1>4, <2>1 DEF Matches, Tables
  <2> QED
    BY <2>2, <2>3 DEF Agrees
<1>8. Knows(q)'
  BY <1>1, <1>6, <1>7 DEF Knows, Own, Writes, Reached, StepOf, InPlay
<1>9. \A r \in Requests \ {q} : Same(r)
  BY <1>1 DEF Same
<1> QED
  BY <1>1, <1>5, <1>8, <1>9, QuietRequest

LEMMA FailReadStep ==
    ASSUME Inv, NEW q \in Requests, NEW t \in Tables, FailRead(q, t)
    PROVE  Inv' /\ UNCHANGED db
<1>1. CASE t \in Critical
  <2>1. InPlay(q) /\ End(q, "error")
    BY <1>1 DEF FailRead, InPlay
  <2> QED
    BY <2>1, EndStep
<1>2. CASE t \notin Critical
  <2>1. /\ UNCHANGED <<db, pc, call, round, seen, out, todo, failed>>
        /\ loaded' = [loaded EXCEPT ![q] = @ \cup {t}]
    BY <1>2 DEF FailRead
  <2>2. Typed'
    <3>1. loaded' \in [Requests -> SUBSET Tables]
      BY <2>1 DEF Inv, Typed
    <3> QED
      BY <2>1, <3>1 DEF Inv, Typed, InPlay
  <2>3. Knows(q)
    BY DEF Inv
  <2>4. Knows(q)'
    BY <2>1, <2>3 DEF Knows, Own, Agrees, Matches, Stored, Writes, Reached, StepOf, InPlay
  <2>5. \A r \in Requests \ {q} : Same(r)
    BY <2>1 DEF Same
  <2> QED
    BY <2>1, <2>2, <2>4, <2>5, QuietRequest
<1> QED
  BY <1>1, <1>2

\* A round that has brought about what it is for leads to the next one, or to
\* the answer.
LEMMA ProceedStep ==
    ASSUME Inv, NEW q \in Requests, InPlay(q), Shows(q, call[q], StepOf(q), db), Proceed(q)
    PROVE  Inv' /\ UNCHANGED db
<1>1. /\ call[q] \in Calls /\ Knows(q) /\ round[q] \in 1 .. Len(Rounds(call[q]))
  BY DEF Inv, Typed, InPlay
<1>2. CASE round[q] = Len(Rounds(call[q]))
  <2>1. End(q, "ok")
    BY <1>2 DEF Proceed
  <2>2. /\ call[q].op = "send" => StepOf(q) = "post"
        /\ call[q].op # "send" => StepOf(q) = call[q].op
    BY <1>1, <1>2, RoundsAreSteps DEF StepOf
  <2>3. AnswerHolds(q)
    BY <1>1, <2>2 DEF AnswerHolds, Knows, Reached, Shows
  <2> QED
    BY <2>1, <2>3, EndStep
<1>3. CASE round[q] # Len(Rounds(call[q]))
  <2>1. /\ call[q].op = "send" /\ round[q] = 1
        /\ Rounds(call[q])[1] = "open" /\ Rounds(call[q])[2] = "post"
        /\ Len(Rounds(call[q])) = 2
    BY <1>1, <1>3, RoundsAreSteps
  <2>2. /\ pc' = [pc EXCEPT ![q] = "reading"]
        /\ round' = [round EXCEPT ![q] = @ + 1]
        /\ Forget(q)
    BY <1>3 DEF Proceed
  <2>3. /\ pc'[q] = "reading" /\ round'[q] = 2 /\ seen'[q] = Nothing
        /\ UNCHANGED <<db, call>>
    BY <2>1, <2>2 DEF Forget, Inv, Typed
  <2>4. Typed'
    <3>1. 2 \in 1 .. Len(Rounds(call[q]))
      BY <2>1
    <3>2. \A r \in Requests : InPlay(r)' => round'[r] \in 1 .. Len(Rounds(call'[r]))
      BY <2>2, <2>3, <3>1 DEF Inv, Typed, InPlay
    <3>3. /\ pc' \in [Requests -> {"idle", "reading", "writing", "ok", "rejected", "error", "lost"}]
          /\ round' \in [Requests -> Nat]
          /\ loaded' \in [Requests -> SUBSET Tables] /\ todo' \in [Requests -> SUBSET Tables]
          /\ failed' \in [Requests -> BOOLEAN] /\ UNCHANGED <<db, call>>
      BY <1>1, <2>2 DEF Inv, Typed, Forget
    <3>4. /\ DOMAIN seen' = Requests /\ DOMAIN out' = Requests
          /\ seen' = [r \in Requests |-> seen'[r]] /\ out' = [r \in Requests |-> out'[r]]
          /\ \A r \in Requests : WellFormed(seen'[r]) /\ WellFormed(out'[r])
      BY <2>2, NothingIsWellFormed DEF Inv, Typed, Forget
    <3>5. \A r \in Requests : pc'[r] # "idle" => call'[r] \in Calls
      BY <1>1, <2>2, <3>3 DEF Inv, Typed
    <3> QED
      BY <3>2, <3>3, <3>4, <3>5 DEF Inv, Typed, InPlay
  <2>5. \A t \in Tables : DOMAIN seen'[q][t] = {}
    BY <2>3 DEF Nothing
  <2>6. StepOf(q)' = "post" /\ StepOf(q) = "open"
    BY <2>1, <2>3 DEF StepOf
  <2>7. Own(q)'
    BY <1>1, <2>3, <2>6 DEF Knows, Own, InPlay
  <2>8. Agrees(q)'
    BY <2>5 DEF Agrees, Matches, Stored, Tables
  <2>9. Writes(q)' /\ Reached(q)'
    BY <2>3, <2>6 DEF Writes, Reached, Shows
  <2>10. Knows(q)'
    BY <2>7, <2>8, <2>9 DEF Knows
  <2>11. \A r \in Requests \ {q} : Same(r)
    BY <2>2 DEF Same, Forget, Inv, Typed
  <2> QED
    BY <2>3, <2>4, <2>10, <2>11, QuietRequest
<1> QED
  BY <1>2, <1>3

\* What a store shows, the tables show once they have its rows.
LEMMA ShownWhenStored ==
    ASSUME NEW q, NEW c, NEW step, NEW s, WellFormed(s), Matches(s), Stored(s),
           Shows(q, c, step, s)
    PROVE  Shows(q, c, step, db)
<1>1. \A i \in DOMAIN s.participants :
         i \in DOMAIN db.participants /\ db.participants[i] = s.participants[i]
  BY DEF Matches, Stored, Tables
<1>2. \A k \in DOMAIN s.conversations :
         k \in DOMAIN db.conversations /\ db.conversations[k] = s.conversations[k]
  BY DEF Matches, Stored, Tables
<1>3. q \in DOMAIN s.messages => q \in DOMAIN db.messages
  BY DEF Stored, Tables
<1>4. Inside(s, c) => Inside(db, c)
  BY <1>1, <1>2, CarriedInside
<1>5. TakesPart(s, c.conversation, c.person) => TakesPart(db, c.conversation, c.person)
  BY <1>1, Carried
<1> QED
  BY <1>3, <1>4, <1>5 DEF Shows

LEMMA SettleStep ==
    ASSUME Inv, NEW q \in Requests, Settle(q)
    PROVE  Inv' /\ UNCHANGED db
<1> DEFINE does == Decide(q, call[q], StepOf(q), seen[q])
<1>1. pc[q] = "reading" /\ InPlay(q)
  BY DEF Settle, Act, InPlay
<1>2. /\ call[q] \in Calls /\ WellFormed(seen[q]) /\ Knows(q)
      /\ round[q] \in 1 .. Len(Rounds(call[q]))
  BY <1>1 DEF Inv, Typed
<1>3. Matches(seen[q]) /\ Stored(seen[q])
  BY <1>2 DEF Knows, Agrees
<1>4. StepOf(q) \in Steps(call[q])
  BY <1>2, RoundsAreSteps DEF StepOf
<1>5. Free(q, StepOf(q), seen[q])
  <2>1. Own(q)
    BY <1>2 DEF Knows
  <2> QED
    BY <1>1, <1>3, <2>1 DEF Free, Own, Stored, Tables
<1>6. Sound(q, call[q], StepOf(q), seen[q], does)
  BY <1>2, <1>4, <1>5, DecideDecides
<1>7. Act(q, does)
  BY DEF Settle, StepOf
<1> HIDE DEF does
<1>8. CASE does.verdict = "deny"
  <2>1. End(q, "rejected")
    BY <1>7, <1>8 DEF Act
  <2> QED
    BY <1>1, <2>1, EndStep
<1>9. CASE does.verdict = "skip"
  <2>1. Proceed(q)
    BY <1>7, <1>9 DEF Act
  <2>2. Shows(q, call[q], StepOf(q), seen[q])
    BY <1>6, <1>9 DEF Sound
  <2>3. Shows(q, call[q], StepOf(q), db)
    BY <1>2, <1>3, <2>2, ShownWhenStored
  <2> QED
    BY <1>1, <2>1, <2>3, ProceedStep
<1>10. CASE does.verdict = "save"
  <2>1. /\ out' = [out EXCEPT ![q] = does.store]
        /\ todo' = [todo EXCEPT ![q] = {t \in Tables : DOMAIN does.store[t] # {}}]
        /\ pc' = [pc EXCEPT ![q] = "writing"]
        /\ UNCHANGED <<db, call, round, seen, loaded, failed>>
    BY <1>7, <1>10 DEF Act
  <2>2. /\ out'[q] = does.store /\ pc'[q] = "writing"
        /\ todo'[q] = {t \in Tables : DOMAIN does.store[t] # {}}
    BY <2>1 DEF Inv, Typed
  <2>3. Decided(q, call[q], StepOf(q), seen[q], does.store)
    BY <1>6, <1>10 DEF Sound
  <2>4. WellFormed(out'[q])
    BY <2>2, <2>3 DEF Decided
  <2>5. Typed'
    BY <1>2, <2>1, <2>2, <2>4 DEF Inv, Typed, InPlay
  <2>6. Own(q)
    BY <1>2 DEF Knows
  <2>7. Own(q)'
    BY <1>1, <2>1, <2>2, <2>6 DEF Own
  <2>8. Matches(does.store)
    <3>1. \A i \in DOMAIN does.store.conversations \cap DOMAIN db.conversations :
             does.store.conversations[i] = db.conversations[i]
      BY <1>1, <1>3, <2>3, <2>6 DEF Decided, KeepsThreads, Matches, Stored, Own, Tables
    <3>2. \A i \in DOMAIN does.store.participants \cap DOMAIN db.participants :
             does.store.participants[i] = db.participants[i]
      BY <1>1, <1>3, <2>3, <2>6 DEF Decided, KeepsPeople, Matches, Stored, Own, Tables
    <3>3. \A i \in DOMAIN does.store.messages \cap DOMAIN db.messages :
             /\ does.store.messages[i].conversation = db.messages[i].conversation
             /\ does.store.messages[i].sender = db.messages[i].sender
      BY <1>1, <1>3, <2>3, <2>6 DEF Decided, KeepsMessages, Matches, Stored, Own, Tables
    <3> QED
      BY <3>1, <3>2, <3>3 DEF Matches
  <2>9. Writes(q)'
    <3>1. Decided(q, call'[q], StepOf(q)', seen'[q], out'[q])
      BY <2>1, <2>2, <2>3 DEF StepOf
    <3>2. Matches(out[q])'
      BY <2>1, <2>2, <2>8 DEF Matches
    <3>3. \A t \in Tables : DOMAIN out'[q][t] \subseteq DOMAIN db'[t] \/ t \in todo'[q]
      BY <2>2
    <3> QED
      BY <3>1, <3>2, <3>3 DEF Writes
  <2>10. Agrees(q)' /\ Reached(q)'
    BY <1>1, <1>2, <2>1, <2>2 DEF Knows, Agrees, Matches, Stored, Reached, StepOf, InPlay
  <2>11. Knows(q)'
    BY <2>7, <2>9, <2>10 DEF Knows
  <2>12. \A r \in Requests \ {q} : Same(r)
    BY <2>1 DEF Same, Inv, Typed
  <2> QED
    BY <2>1, <2>5, <2>11, <2>12, QuietRequest
<1> QED
  BY <1>6, <1>8, <1>9, <1>10 DEF Sound

LEMMA FailWriteStep ==
    ASSUME Inv, NEW q \in Requests, NEW t \in Tables, FailWrite(q, t)
    PROVE  Inv' /\ UNCHANGED db
<1>1. /\ pc[q] = "writing" /\ UNCHANGED <<db, pc, call, round, seen, loaded, out>>
      /\ todo' = [todo EXCEPT ![q] = {u \in @ \ {t} : Rank[u] = Rank[t]}]
      /\ failed' = [failed EXCEPT ![q] = TRUE]
  BY DEF FailWrite, Due
<1>2. todo \in [Requests -> SUBSET Tables] /\ failed \in [Requests -> BOOLEAN]
  BY DEF Inv, Typed
<1>3. /\ todo'[q] \subseteq todo[q] /\ failed'[q] = TRUE
      /\ \A r \in Requests \ {q} : todo'[r] = todo[r] /\ failed'[r] = failed[r]
      /\ todo' \in [Requests -> SUBSET Tables] /\ failed' \in [Requests -> BOOLEAN]
  BY <1>1, <1>2
<1>4. Typed'
  BY <1>1, <1>3 DEF Inv, Typed, InPlay
<1>5. Knows(q)
  BY DEF Inv
<1>6. Knows(q)'
  BY <1>1, <1>3, <1>5 DEF Knows, Own, Agrees, Matches, Stored, Writes, Reached, StepOf, InPlay
<1>7. \A r \in Requests \ {q} : Same(r)
  BY <1>1, <1>3 DEF Same
<1> QED
  BY <1>1, <1>4, <1>6, <1>7, QuietRequest

LEMMA FinishStep ==
    ASSUME Inv, NEW q \in Requests, Finish(q)
    PROVE  Inv' /\ UNCHANGED db
<1>1. /\ pc[q] = "writing" /\ todo[q] = {} /\ InPlay(q) /\ Knows(q) /\ WellFormed(out[q])
  BY DEF Finish, Inv, Typed, InPlay
<1>2. CASE failed[q]
  <2>1. End(q, "error")
    BY <1>2 DEF Finish
  <2> QED
    BY <1>1, <2>1, EndStep
<1>3. CASE ~failed[q]
  <2>1. /\ Matches(out[q]) /\ Stored(out[q])
        /\ Shows(q, call[q], StepOf(q), out[q])
    BY <1>1, <1>3 DEF Knows, Writes, Decided, Stored
  <2>2. Shows(q, call[q], StepOf(q), db)
    BY <1>1, <2>1, ShownWhenStored
  <2>3. Proceed(q)
    BY <1>3 DEF Finish
  <2> QED
    BY <1>1, <2>2, <2>3, ProceedStep
<1> QED
  BY <1>2, <1>3

\* The upsert of one table.
LEMMA CommitStep ==
    ASSUME Inv, NEW q \in Requests, NEW t \in Tables, Commit(q, t)
    PROVE  Inv' /\ Grows
<1> DEFINE rows == out[q][t]
           table == Upsert(db[t], rows)
<1>1. /\ pc[q] = "writing" /\ InPlay(q) /\ call[q] \in Calls /\ t \in todo[q]
      /\ Accepts(call[q], db, t, rows)
      /\ UNCHANGED <<pc, call, round, seen, loaded, out>>
  BY DEF Commit, Due, Inv, Typed, InPlay
<1>2. WellFormed(db) /\ WellFormed(out[q]) /\ Knows(q) /\ Referring /\ Invited(db)
  BY DEF Inv, Typed
<1>3. Decided(q, call[q], StepOf(q), seen[q], out[q]) /\ Matches(out[q])
  BY <1>1, <1>2 DEF Knows, Writes
<1>4. Matches(seen[q]) /\ Stored(seen[q])
  BY <1>2 DEF Knows, Agrees
<1>5. PICK S : /\ db[t] \in [DOMAIN db[t] -> S] /\ rows \in [DOMAIN rows -> S]
               /\ \/ /\ t = "conversations" /\ S = Conversation
                     /\ DOMAIN db[t] \cup DOMAIN rows \subseteq Ids
                  \/ t = "participants" /\ S = Participant
                  \/ t = "messages" /\ S = Message
  BY <1>2 DEF WellFormed, Tables
<1>6. /\ table \in [DOMAIN table -> S]
      /\ DOMAIN table = DOMAIN rows \cup DOMAIN db[t]
      /\ \A i \in DOMAIN rows : table[i] = rows[i]
      /\ \A i \in DOMAIN db[t] \ DOMAIN rows : table[i] = db[t][i]
  BY <1>5 DEF Upsert
<1>7. db' = [db EXCEPT ![t] = table]
  BY DEF Commit
<1> HIDE DEF table
<1>8. /\ WellFormed(db') /\ db'[t] = table
      /\ \A u \in Tables \ {t} : db'[u] = db[u]
  <2>1. table \in [DOMAIN table -> S]
    BY <1>6
  <2>2. \/ t = "conversations" /\ S = Conversation /\ DOMAIN table \subseteq Ids
        \/ t = "participants" /\ S = Participant
        \/ t = "messages" /\ S = Message
    BY <1>5, <1>6
  <2>3. WellFormed(db)
    BY <1>2
  <2> HIDE DEF rows
  <2> QED
    BY <1>7, <2>1, <2>2, <2>3 DEF WellFormed, Tables
<1>9. Grows
  <2>1. \A u \in Tables : DOMAIN db[u] \subseteq DOMAIN db'[u]
    BY <1>6, <1>8
  <2>2. \A k \in DOMAIN db.conversations : db'.conversations[k] = db.conversations[k]
    BY <1>3, <1>6, <1>8 DEF Matches, Tables
  <2>3. \A i \in DOMAIN db.participants : db'.participants[i] = db.participants[i]
    BY <1>3, <1>6, <1>8 DEF Matches, Tables
  <2>4. \A m \in DOMAIN db.messages :
           /\ db'.messages[m].conversation = db.messages[m].conversation
           /\ db'.messages[m].sender = db.messages[m].sender
    BY <1>3, <1>6, <1>8 DEF Matches, Tables
  <2> QED
    BY <1>8, <2>1, <2>2, <2>3, <2>4 DEF Grows
<1>10. /\ \A i \in DOMAIN db'.conversations :
             \/ i \in DOMAIN db.conversations
             \/ i = q /\ StepOf(q) = "open" /\ t = "conversations"
       /\ \A i \in DOMAIN db'.participants :
             \/ i \in DOMAIN db.participants
             \/ /\ StepOf(q) \in {"open", "add"} /\ i \in {q} \X People /\ t = "participants"
                /\ i \in DOMAIN rows /\ db'.participants[i] = rows[i]
                /\ Entitled(seen[q], out[q], rows[i])
       /\ \A i \in DOMAIN db'.messages :
             \/ i \in DOMAIN db.messages
             \/ /\ i = q /\ StepOf(q) = "post" /\ t = "messages"
                /\ db'.messages[i].sender = call[q].who
  <2>1. \A i \in DOMAIN db'.conversations :
           \/ i \in DOMAIN db.conversations
           \/ i = q /\ StepOf(q) = "open" /\ t = "conversations"
    BY <1>3, <1>4, <1>6, <1>8 DEF Decided, KeepsThreads, Stored, Tables
  <2>2. \A i \in DOMAIN db'.participants :
           \/ i \in DOMAIN db.participants
           \/ /\ StepOf(q) \in {"open", "add"} /\ i \in {q} \X People /\ t = "participants"
              /\ i \in DOMAIN rows /\ db'.participants[i] = rows[i]
              /\ Entitled(seen[q], out[q], rows[i])
    BY <1>3, <1>4, <1>6, <1>8 DEF Decided, KeepsPeople, Stored, Tables
  <2>3. \A i \in DOMAIN db'.messages :
           \/ i \in DOMAIN db.messages
           \/ /\ i = q /\ StepOf(q) = "post" /\ t = "messages"
              /\ db'.messages[i].sender = call[q].who
    BY <1>3, <1>4, <1>6, <1>8 DEF Decided, KeepsMessages, Stored, Tables
  <2> QED
    BY <2>1, <2>2, <2>3
<1>11. \A r \in Requests \ {q} : NothingNew(r)
  BY <1>10 DEF NothingNew
<1>12. Referring'
  <2>1. t \in {"participants", "messages"} => \A j \in DOMAIN rows : rows[j].conversation \in DOMAIN db.conversations
    BY <1>1 DEF Accepts, Refer, Thread
  <2>2. DOMAIN db.conversations \subseteq DOMAIN db'.conversations
    BY <1>9 DEF Grows, Tables
  <2>3. ASSUME NEW i \in DOMAIN db'.participants
        PROVE  db'.participants[i].conversation \in DOMAIN db'.conversations
    <3>1. CASE i \in DOMAIN db.participants
      BY <1>2, <1>9, <2>2, <3>1 DEF Referring, Grows
    <3>2. CASE i \notin DOMAIN db.participants
      BY <1>10, <2>1, <2>2, <3>2
    <3> QED
      BY <3>1, <3>2
  <2>4. ASSUME NEW i \in DOMAIN db'.messages
        PROVE  db'.messages[i].conversation \in DOMAIN db'.conversations
    <3>1. CASE i \in DOMAIN db.messages
      BY <1>2, <1>9, <2>2, <3>1 DEF Referring, Grows
    <3>2. CASE i \notin DOMAIN db.messages
      <4>1. t = "messages" /\ i \in DOMAIN rows /\ db'.messages[i] = rows[i]
        BY <1>6, <1>8, <3>2 DEF Tables
      <4> QED
        BY <2>1, <2>2, <4>1
    <3> QED
      BY <3>1, <3>2
  <2> QED
    BY <2>3, <2>4 DEF Referring
<1>13. Invited(db')
  <2> SUFFICES ASSUME NEW i \in DOMAIN db'.participants,
                      db'.conversations[db'.participants[i].conversation].kind = "direct"
               PROVE  \/ db'.participants[i].by \in Staff
                      \/ Manages(db', db'.participants[i].conversation, db'.participants[i].by)
    BY DEF Invited
  <2>1. CASE i \in DOMAIN db.participants
    <3>1. /\ db'.participants[i] = db.participants[i]
          /\ db.participants[i].conversation \in DOMAIN db.conversations
      BY <1>2, <1>9, <2>1 DEF Referring, Grows
    <3>2. db.conversations[db.participants[i].conversation].kind = "direct"
      BY <1>9, <3>1 DEF Grows
    <3>3. \/ db.participants[i].by \in Staff
          \/ Manages(db, db.participants[i].conversation, db.participants[i].by)
      BY <1>2, <2>1, <3>2 DEF Invited
    <3> QED
      BY <1>9, <3>1, <3>3, StillInside
  <2>2. CASE i \notin DOMAIN db.participants
    <3>1. /\ t = "participants" /\ db'.participants[i] = rows[i]
          /\ Entitled(seen[q], out[q], rows[i])
      BY <1>10, <2>2
    <3>2. \A j \in DOMAIN out[q].participants :
             j \in DOMAIN db'.participants /\ db'.participants[j] = out[q].participants[j]
      BY <1>6, <1>8, <3>1 DEF Tables
    <3>3. Manages(out[q], rows[i].conversation, rows[i].by)
             => Manages(db', rows[i].conversation, rows[i].by)
      BY <3>2, Managing
    <3>4. ~ (/\ rows[i].conversation \in DOMAIN seen[q].conversations
             /\ seen[q].conversations[rows[i].conversation].kind # "direct")
      <4> SUFFICES ASSUME rows[i].conversation \in DOMAIN seen[q].conversations
                   PROVE  seen[q].conversations[rows[i].conversation].kind = "direct"
        OBVIOUS
      <4>1. /\ rows[i].conversation \in DOMAIN db.conversations
            /\ seen[q].conversations[rows[i].conversation] = db.conversations[rows[i].conversation]
        BY <1>4 DEF Matches, Stored, Tables
      <4>2. db'.conversations[rows[i].conversation] = db.conversations[rows[i].conversation]
        BY <1>9, <4>1 DEF Grows
      <4> QED
        BY <3>1, <4>1, <4>2
    <3> QED
      BY <3>1, <3>3, <3>4 DEF Entitled
  <2> QED
    BY <2>1, <2>2
<1>14. /\ todo'[q] \subseteq todo[q] \ {t} /\ failed'[q] \in BOOLEAN
       /\ failed'[q] \/ (failed'[q] = failed[q] /\ todo'[q] = todo[q] \ {t})
       /\ \A r \in Requests \ {q} : todo'[r] = todo[r] /\ failed'[r] = failed[r]
       /\ todo' \in [Requests -> SUBSET Tables] /\ failed' \in [Requests -> BOOLEAN]
  <2>1. \/ /\ todo' = [todo EXCEPT ![q] = @ \ {t}]
           /\ failed' = failed
        \/ /\ todo' = [todo EXCEPT ![q] = {u \in @ \ {t} : Rank[u] = Rank[t]}]
           /\ failed' = [failed EXCEPT ![q] = TRUE]
    BY DEF Commit
  <2>2. todo \in [Requests -> SUBSET Tables] /\ failed \in [Requests -> BOOLEAN]
    BY DEF Inv, Typed
  <2>3. todo[q] \in SUBSET Tables
    BY <2>2
  <2>4. todo'[q] \subseteq todo[q] \ {t} /\ failed'[q] \in BOOLEAN
    BY <2>1, <2>2, <2>3
  <2>5. failed'[q] = TRUE \/ (failed'[q] = failed[q] /\ todo'[q] = todo[q] \ {t})
    BY <2>1, <2>2, <2>3
  <2>6. \A r \in Requests \ {q} : todo'[r] = todo[r] /\ failed'[r] = failed[r]
    BY <2>1, <2>2, <2>3
  <2>7. todo' \in [Requests -> SUBSET Tables] /\ failed' \in [Requests -> BOOLEAN]
    BY <2>1, <2>2, <2>3
  <2> QED
    BY <2>4, <2>5, <2>6, <2>7
<1>15. Typed'
  BY <1>1, <1>8, <1>14 DEF Inv, Typed, InPlay
<1>16. Own(q)'
  <2>1. Own(q) /\ StepOf(q)' = StepOf(q) /\ pc'[q] = "writing" /\ call'[q] = call[q]
    BY <1>1, <1>2 DEF Knows, StepOf
  <2>2. q \in DOMAIN db'.messages =>
          /\ db'.messages[q].sender = call[q].who
          /\ StepOf(q) = "post" /\ "messages" \notin todo'[q]
    <3>1. CASE q \in DOMAIN db.messages
      <4>1. db'.messages[q].sender = db.messages[q].sender
        BY <1>9, <3>1 DEF Grows
      <4> QED
        BY <1>1, <1>14, <2>1, <3>1, <4>1 DEF Own
    <3>2. CASE q \notin DOMAIN db.messages
      BY <1>10, <1>14, <3>2
    <3> QED
      BY <3>1, <3>2
  <2> QED
    BY <2>1, <2>2 DEF Own
<1>17. Agrees(q)'
  <2>1. Stored(seen[q])'
    BY <1>1, <1>4, <1>9 DEF Stored, Grows
  <2>2. Matches(seen[q])'
    BY <1>1, <1>4, <1>9 DEF Matches, Stored, Grows, Tables
  <2> QED
    BY <2>1, <2>2 DEF Agrees
<1>18. Writes(q)'
  <2>1. DOMAIN rows \subseteq DOMAIN db'[t]
    BY <1>6, <1>8
  <2>2. \A u \in Tables : DOMAIN db[u] \subseteq DOMAIN db'[u]
    BY <1>9 DEF Grows
  <2>3. failed'[q] \/ \A u \in Tables : DOMAIN out[q][u] \subseteq DOMAIN db'[u] \/ u \in todo'[q]
    BY <1>1, <1>2, <1>14, <2>1, <2>2 DEF Knows, Writes
  <2>4. Matches(out[q])'
    <3>1. \A i \in DOMAIN out[q].conversations \cap DOMAIN db'.conversations :
             out[q].conversations[i] = db'.conversations[i]
      BY <1>3, <1>6, <1>8 DEF Matches, Tables
    <3>2. \A i \in DOMAIN out[q].participants \cap DOMAIN db'.participants :
             out[q].participants[i] = db'.participants[i]
      BY <1>3, <1>6, <1>8 DEF Matches, Tables
    <3>3. \A i \in DOMAIN out[q].messages \cap DOMAIN db'.messages :
             /\ out[q].messages[i].conversation = db'.messages[i].conversation
             /\ out[q].messages[i].sender = db'.messages[i].sender
      BY <1>3, <1>6, <1>8 DEF Matches, Tables
    <3> QED
      BY <1>1, <3>1, <3>2, <3>3 DEF Matches
  <2> QED
    BY <1>1, <1>3, <2>3, <2>4 DEF Writes, StepOf
<1>19. Reached(q)'
  BY <1>1, <1>2, <1>9, StillInside DEF Knows, Reached, StepOf, InPlay
<1>20. Knows(q)'
  BY <1>16, <1>17, <1>18, <1>19 DEF Knows
<1>21. \A r \in Requests \ {q} : Same(r)
  BY <1>1, <1>14 DEF Same
<1> QED
  BY <1>9, <1>11, <1>12, <1>13, <1>15, <1>20, <1>21, OneRequest

LEMMA NextInv == Inv /\ [Next]_vars => Inv' /\ Grows
<1> SUFFICES ASSUME Inv, [Next]_vars PROVE Inv' /\ Grows
  OBVIOUS
<1>1. ASSUME UNCHANGED db PROVE Grows
  BY <1>1 DEF Grows, Inv, Typed
<1>2. CASE UNCHANGED vars
  <2>1. Typed' /\ Referring' /\ Invited(db')
    BY <1>2 DEF vars, Inv, Typed, Referring, InPlay
  <2>2. \A q \in Requests : Knows(q)'
    BY <1>2 DEF vars, Inv, Knows, Own, Agrees, Matches, Stored, Writes, Reached, StepOf, InPlay
  <2> QED
    BY <1>1, <1>2, <2>1, <2>2 DEF vars, Inv
<1>3. ASSUME NEW q \in Requests, NEW c \in Calls, Start(q, c) PROVE Inv' /\ Grows
  BY <1>1, <1>3, StartStep
<1>4. ASSUME NEW q \in Requests, NEW t \in Tables,
             Read(q, t) \/ FailRead(q, t) \/ Commit(q, t) \/ FailWrite(q, t)
      PROVE  Inv' /\ Grows
  BY <1>1, <1>4, ReadStep, FailReadStep, CommitStep, FailWriteStep
<1>5. ASSUME NEW q \in Requests, Settle(q) \/ Finish(q) PROVE Inv' /\ Grows
  BY <1>1, <1>5, SettleStep, FinishStep
<1>6. ASSUME NEW q \in Requests, Crash(q) PROVE Inv' /\ Grows
  <2>1. InPlay(q) /\ End(q, "lost")
    BY <1>6 DEF Crash, InFlight, InPlay
  <2> QED
    BY <1>1, <2>1, EndStep
<1> QED
  BY <1>2, <1>3, <1>4, <1>5, <1>6 DEF Next, Step

-----------------------------------------------------------------------------

\* The invariant holds of every run.
THEOREM CommunicationInvariant == Spec => []Inv
<1>1. Inv /\ [Next]_vars => Inv'
  BY NextInv
<1> QED
  BY <1>1, InitInv, PTL DEF Spec

\* The tables keep their types, and people and messages their conversation.
THEOREM CommunicationTypes == Spec => []TypeOK
<1>1. Inv => TypeOK
  BY DEF Inv, Typed, WellFormed, Referring, TypeOK, Refer, Thread
<1> QED
  BY <1>1, CommunicationInvariant, PTL

\* Nobody is in a private conversation whom no manager of it put there.
THEOREM PrivateThreadsStayPrivate == Spec => []PrivateThreadsAreInvited
<1>1. Inv => PrivateThreadsAreInvited
  BY DEF Inv, PrivateThreadsAreInvited
<1> QED
  BY <1>1, CommunicationInvariant, PTL

\* What was answered is stored.
THEOREM CommunicationAnswers == Spec => []AnsweredCallsTookEffect
<1>1. Inv => AnsweredCallsTookEffect
  BY DEF Inv, Knows, Own, Reached, Inside, AnsweredCallsTookEffect
<1> QED
  BY <1>1, CommunicationInvariant, PTL

\* Nobody is put out of a conversation or given another part in it, no
\* conversation changes its kind or its subject, and a message keeps its sender.
ThreadsStand ==
    [][/\ \A t \in Tables : DOMAIN db[t] \subseteq DOMAIN db'[t]
       /\ \A k \in DOMAIN db.conversations : db'.conversations[k] = db.conversations[k]
       /\ \A i \in DOMAIN db.participants : db'.participants[i] = db.participants[i]
       /\ \A m \in DOMAIN db.messages :
             /\ db'.messages[m].conversation = db.messages[m].conversation
             /\ db'.messages[m].sender = db.messages[m].sender]_db

\* No store written back takes anybody's place in a conversation away.
THEOREM CommunicationStands == Spec => ThreadsStand
<1>1. Grows =>
         [/\ \A t \in Tables : DOMAIN db[t] \subseteq DOMAIN db'[t]
          /\ \A k \in DOMAIN db.conversations : db'.conversations[k] = db.conversations[k]
          /\ \A i \in DOMAIN db.participants : db'.participants[i] = db.participants[i]
          /\ \A m \in DOMAIN db.messages :
                /\ db'.messages[m].conversation = db.messages[m].conversation
                /\ db'.messages[m].sender = db.messages[m].sender]_db
  BY DEF Grows
<1> QED
  BY <1>1, NextInv, CommunicationInvariant, PTL DEF Spec, ThreadsStand

\* Only one that read a message before it was deleted brings it back.
Revives(m, q) ==
    /\ q \in InFlight
    /\ m \in DOMAIN seen[q].messages /\ seen[q].messages[m].status # "deleted"

LEMMA CommitRevives ==
    ASSUME Inv, NEW q \in Requests, NEW t \in Tables, Commit(q, t),
           NEW m \in DOMAIN db.messages, db.messages[m].status = "deleted",
           db'.messages[m].status # "deleted"
    PROVE  Revives(m, q)
<1>1. /\ pc[q] = "writing" /\ t \in todo[q] /\ Knows(q) /\ WellFormed(db)
      /\ db' = [db EXCEPT ![t] = Upsert(@, out[q][t])]
  BY DEF Commit, Due, Inv, Typed
<1>2. t = "messages"
  BY <1>1 DEF WellFormed, Tables
<1>3. m \in DOMAIN out[q].messages /\ db'.messages[m] = out[q].messages[m]
  BY <1>1, <1>2 DEF Upsert, WellFormed, Tables
<1>4. m # q
  BY <1>1, <1>2 DEF Knows, Own
<1>5. m \in DOMAIN seen[q].messages /\ seen[q].messages[m].status # "deleted"
  BY <1>1, <1>3, <1>4 DEF Knows, Writes, Decided, KeepsMessages
<1> QED
  BY <1>1, <1>5 DEF Revives, InFlight

\* A deleted message comes back only out of a store read before its deletion.
THEOREM CommunicationRevival == Spec => OnlyStaleStoresRevive
<1> DEFINE Told == \A m \in DOMAIN db.messages \cap DOMAIN db'.messages :
                     db.messages[m].status = "deleted" /\ db'.messages[m].status # "deleted" =>
                        \E q \in InFlight : Revives(m, q)
<1>1. Inv /\ [Next]_vars => [Told]_db
  <2> SUFFICES ASSUME Inv, [Next]_vars, db' # db PROVE Told
    OBVIOUS
  <2>1. PICK q \in Requests, t \in Tables : Commit(q, t)
    <3>1. ASSUME NEW q \in Requests, NEW c \in Calls, Start(q, c) PROVE FALSE
      BY <3>1, StartStep
    <3>2. ASSUME NEW q \in Requests, NEW t \in Tables,
                 Read(q, t) \/ FailRead(q, t) \/ FailWrite(q, t)
          PROVE  FALSE
      BY <3>2, ReadStep, FailReadStep, FailWriteStep
    <3>3. ASSUME NEW q \in Requests, Settle(q) \/ Finish(q) PROVE FALSE
      BY <3>3, SettleStep, FinishStep
    <3>4. ASSUME NEW q \in Requests, Crash(q) PROVE FALSE
      BY <3>4 DEF Crash, End, Forget
    <3>5. ~UNCHANGED vars
      BY DEF vars
    <3> QED
      BY <3>1, <3>2, <3>3, <3>4, <3>5 DEF Next, Step
  <2>2. ASSUME NEW m \in DOMAIN db.messages, db.messages[m].status = "deleted",
               db'.messages[m].status # "deleted"
        PROVE  \E r \in InFlight : Revives(m, r)
    <3>1. Revives(m, q)
      BY <2>1, <2>2, CommitRevives
    <3> QED
      BY <3>1 DEF Revives
  <2> QED
    BY <2>2
<1>2. [Told]_db <=>
        [\A m \in DOMAIN db.messages \cap DOMAIN db'.messages :
            db.messages[m].status = "deleted" /\ db'.messages[m].status # "deleted" =>
               \E q \in InFlight : /\ m \in DOMAIN seen[q].messages
                                   /\ seen[q].messages[m].status # "deleted"]_db
  BY DEF Revives
<1> HIDE DEF Told
<1> QED
  BY <1>1, <1>2, CommunicationInvariant, PTL DEF Spec, OnlyStaleStoresRevive

=============================================================================
