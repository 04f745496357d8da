-------------------------- MODULE CommunityProofs ---------------------------
(***************************************************************************)
(* What becomes of posts, comments and notifications while any number of   *)
(* requests write whole stores back over each other.                       *)
(***************************************************************************)
EXTENDS Community, TLAPS

USE CallsAssumption, IdsAssumption

\* What one decision may do to the store it was read from: rows keep their
\* author, and at most one row is new, the request's own.
KeepsPosts(q, c, step, s, new) ==
    \A i \in DOMAIN new.posts :
        \/ /\ i \in DOMAIN s.posts
           /\ new.posts[i].by = s.posts[i].by
           /\ \/ new.posts[i].status = s.posts[i].status
              \/ step = "moderatePost" /\ c.who \in Staff
        \/ /\ i = q /\ step = "publish"
           /\ new.posts[i].by = c.who

KeepsNotifications(q, c, step, s, new) ==
    \A i \in DOMAIN new.notifications :
        \/ /\ i \in DOMAIN s.notifications
           /\ new.notifications[i].to = s.notifications[i].to
           /\ new.notifications[i].about = s.notifications[i].about
        \/ /\ i = q /\ step = "notify"
           /\ new.notifications[i].to = c.to
           /\ \/ c.op = "publish" /\ new.notifications[i].about = q
              \/ c.op = "notify" /\ new.notifications[i].about = c.about

\* The table that a step adds a row to.
Adds(step, t) == \/ step = "publish" /\ t = "posts"
                 \/ step = "notify" /\ t = "notifications"
                 \/ step = "comment" /\ t = "comments"

Decided(q, c, step, s, new) ==
    /\ WellFormed(new)
    /\ KeepsPosts(q, c, step, s, new)
    /\ KeepsNotifications(q, c, step, s, new)
    /\ \A t \in Tables : Adds(step, t) => q \in DOMAIN new[t]

Steps(c) == IF c.op = "publish" THEN {"publish", "notify"} ELSE {c.op}

InPlay(q) == pc[q] \in {"reading", "writing"}

StepOf(q) == Rounds(call[q])[round[q]]

Typed ==
    /\ WellFormed(db)
    /\ pc \in [Requests -> {"idle", "reading", "writing", "ok", "rejected", "error", "lost"}]
    /\ call \in [Requests -> Calls \cup {NoCall}]
    /\ round \in [Requests -> Nat]
    /\ DOMAIN seen = Requests /\ DOMAIN out = Requests
    /\ seen = [q \in Requests |-> seen[q]] /\ out = [q \in Requests |-> out[q]]
    /\ \A q \in Requests : WellFormed(seen[q]) /\ WellFormed(out[q])
    /\ loaded \in [Requests -> SUBSET Tables]
    /\ todo \in [Requests -> SUBSET Tables]
    /\ failed \in [Requests -> BOOLEAN]
    /\ \A q \in Requests : pc[q] # "idle" => call[q] \in Calls
    /\ \A q \in Requests : InPlay(q) => round[q] \in 1 .. Len(Rounds(call[q]))

\* Comments and notifications refer to posts that are stored.
Referring ==
    /\ \A i \in DOMAIN db.comments : db.comments[i].post \in DOMAIN db.posts
    /\ \A i \in DOMAIN db.notifications :
          db.notifications[i].about \in Requests => db.notifications[i].about \in DOMAIN db.posts

\* A row with the id of a request was stored by that request.
Own(q) ==
    /\ q \in DOMAIN db.posts => pc[q] # "idle" /\ db.posts[q].by = call[q].who
    /\ q \in DOMAIN db.notifications =>
          /\ pc[q] # "idle" /\ db.notifications[q].to = call[q].to
          /\ \/ call[q].op = "publish" /\ db.notifications[q].about = q
             \/ call[q].op = "notify" /\ db.notifications[q].about = call[q].about

\* What a request has read is what it may still find, but for their status.
Agrees(q) ==
    /\ \A i \in DOMAIN seen[q].posts :
          i \in DOMAIN db.posts /\ seen[q].posts[i].by = db.posts[i].by
    /\ \A i \in DOMAIN seen[q].notifications :
          /\ i \in DOMAIN db.notifications
          /\ seen[q].notifications[i].to = db.notifications[i].to
          /\ seen[q].notifications[i].about = db.notifications[i].about

\* What it writes was decided upon by its step, on what it has read.
Writes(q) ==
    pc[q] = "writing" =>
        /\ Decided(q, call[q], StepOf(q), seen[q], out[q])
        /\ failed[q] \/ \A t \in Tables : DOMAIN out[q][t] \subseteq DOMAIN db[t] \/ t \in todo[q]

\* What its earlier rounds, and all of them, have stored.
Reached(q) ==
    /\ InPlay(q) /\ StepOf(q) = "notify" /\ call[q].op = "publish" => q \in DOMAIN db.posts
    /\ pc[q] = "reading" /\ StepOf(q) = "publish" => q \notin DOMAIN db.posts
    /\ pc[q] = "writing" /\ StepOf(q) = "publish" /\ "posts" \in todo[q] => q \notin DOMAIN db.posts
    /\ pc[q] = "ok" =>
          /\ call[q].op = "publish" => q \in DOMAIN db.posts /\ q \in DOMAIN db.notifications
          /\ call[q].op = "comment" => q \in DOMAIN db.comments
          /\ call[q].op = "notify" => q \in DOMAIN db.notifications

Knows(q) == Own(q) /\ Agrees(q) /\ Writes(q) /\ Reached(q)

Inv == Typed /\ Referring /\ \A q \in Requests : Knows(q)

\* What every step does to the tables.
Grows ==
    /\ WellFormed(db')
    /\ \A t \in Tables : DOMAIN db[t] \subseteq DOMAIN db'[t]
    /\ \A p \in DOMAIN db.posts : db'.posts[p].by = db.posts[p].by
    /\ \A n \in DOMAIN db.notifications :
          /\ db'.notifications[n].to = db.notifications[n].to
          /\ db'.notifications[n].about = db.notifications[n].about

Same(q) == /\ pc'[q] = pc[q] /\ call'[q] = call[q] /\ round'[q] = round[q]
           /\ seen'[q] = seen[q] /\ out'[q] = out[q]
           /\ todo'[q] = todo[q] /\ failed'[q] = failed[q]

-----------------------------------------------------------------------------

LEMMA NothingIsWellFormed == WellFormed(Nothing)
<1>1. \A t \in Tables : Nothing[t] = <<>>
  BY DEF Nothing
<1>2. \A S : <<>> \in [DOMAIN <<>> -> S]
  OBVIOUS
<1> QED
  BY <1>1, <1>2 DEF WellFormed, Tables, Nothing

\* Replacing one table by a well-formed one.
LEMMA Replaced ==
    ASSUME NEW s, WellFormed(s), NEW t \in Tables, NEW table,
           NEW S, table \in [DOMAIN table -> S],
           \/ t = "posts" /\ S = Post
           \/ t = "comments" /\ S = Comment
           \/ t = "reactions" /\ S = Reaction
           \/ t = "notifications" /\ S = Notification
    PROVE  /\ WellFormed([s EXCEPT ![t] = table])
           /\ [s EXCEPT ![t] = table][t] = table
           /\ \A u \in Tables \ {t} : [s EXCEPT ![t] = table][u] = s[u]
BY DEF WellFormed, Tables

LEMMA PublishDecides ==
    ASSUME NEW q \in Requests, NEW c \in Calls, c.op = "publish", NEW s, WellFormed(s)
    PROVE  /\ Publish(q, c, s).verdict = "save"
           /\ Decided(q, c, "publish", s, Publish(q, c, s).store)
<1> DEFINE row == [by |-> c.who, status |-> "published"]
           posts == With(s.posts, Row(q, row))
           new == [s EXCEPT !["posts"] = posts]
<1>1. row \in Post /\ row.by = c.who
  BY DEF Post, Statuses
<1> HIDE DEF row
<1>2. /\ posts \in [DOMAIN posts -> Post]
      /\ DOMAIN posts = DOMAIN s.posts \cup {q}
      /\ posts[q] = row
      /\ \A j \in DOMAIN s.posts : j # q => posts[j] = s.posts[j]
  <2>1. s.posts \in [DOMAIN s.posts -> Post]
    BY DEF WellFormed
  <2> QED
    BY <1>1, <2>1 DEF With, Row
<1> HIDE DEF posts
<1>3. /\ WellFormed(new) /\ new.posts = posts
      /\ \A t \in Tables \ {"posts"} : new[t] = s[t]
  BY <1>2, Replaced DEF Tables
<1> HIDE DEF new
<1>4. KeepsPosts(q, c, "publish", s, new)
  BY <1>1, <1>2, <1>3 DEF KeepsPosts
<1>5. KeepsNotifications(q, c, "publish", s, new)
  BY <1>3 DEF KeepsNotifications, Tables
<1>6. Decided(q, c, "publish", s, new)
  BY <1>2, <1>3, <1>4, <1>5 DEF Decided, Adds
<1> QED
  BY <1>6 DEF Publish, Save, new, posts, row

LEMMA NotifyDecides ==
    ASSUME NEW q \in Requests, NEW c \in Calls, c.op \in {"publish", "notify"},
           NEW s, WellFormed(s)
    PROVE  /\ Notify(q, c, s).verdict = "save"
           /\ Decided(q, c, "notify", s, Notify(q, c, s).store)
<1> DEFINE row == [to |-> c.to, read |-> FALSE,
                   about |-> IF c.op = "publish" THEN q ELSE c.about]
           rows == With(s.notifications, Row(q, row))
           new == [s EXCEPT !["notifications"] = rows]
<1>1. /\ row \in Notification /\ row.to = c.to
      /\ c.op = "publish" => row.about = q
      /\ c.op = "notify" => row.about = c.about
  BY DEF Notification, Ids
<1> HIDE DEF row
<1>2. /\ rows \in [DOMAIN rows -> Notification]
      /\ DOMAIN rows = DOMAIN s.notifications \cup {q}
      /\ rows[q] = row
      /\ \A j \in DOMAIN s.notifications : j # q => rows[j] = s.notifications[j]
  <2>1. s.notifications \in [DOMAIN s.notifications -> Notification]
    BY DEF WellFormed
  <2> QED
    BY <1>1, <2>1 DEF With, Row
<1> HIDE DEF rows
<1>3. /\ WellFormed(new) /\ new.notifications = rows
      /\ \A t \in Tables \ {"notifications"} : new[t] = s[t]
  BY <1>2, Replaced DEF Tables
<1> HIDE DEF new
<1>4. KeepsPosts(q, c, "notify", s, new)
  BY <1>3 DEF KeepsPosts, Tables
<1>5. KeepsNotifications(q, c, "notify", s, new)
  BY <1>1, <1>2, <1>3 DEF KeepsNotifications
<1>6. Decided(q, c, "notify", s, new)
  BY <1>2, <1>3, <1>4, <1>5 DEF Decided, Adds
<1> QED
  BY <1>6 DEF Notify, Save, new, rows, row

LEMMA AddCommentDecides ==
    ASSUME NEW q \in Requests, NEW c \in Calls, c.op = "comment", NEW s, WellFormed(s)
    PROVE  /\ AddComment(q, c, s).verdict = "save"
           /\ Decided(q, c, "comment", s, AddComment(q, c, s).store)
<1> DEFINE row == [by |-> c.who, post |-> c.post, status |-> "published"]
           rows == With(s.comments, Row(q, row))
           new == [s EXCEPT !["comments"] = rows]
<1>1. row \in Comment
  BY DEF Comment, Statuses
<1> HIDE DEF row
<1>2. rows \in [DOMAIN rows -> Comment] /\ DOMAIN rows = DOMAIN s.comments \cup {q}
  <2>1. s.comments \in [DOMAIN s.comments -> Comment]
    BY DEF WellFormed
  <2> QED
    BY <1>1, <2>1 DEF With, Row
<1> HIDE DEF rows
<1>3. /\ WellFormed(new) /\ new.comments = rows
      /\ \A t \in Tables \ {"comments"} : new[t] = s[t]
  BY <1>2, Replaced DEF Tables
<1> HIDE DEF new
<1>4. Decided(q, c, "comment", s, new)
  BY <1>2, <1>3 DEF Decided, Adds, KeepsPosts, KeepsNotifications, Tables
<1> QED
  BY <1>4 DEF AddComment, Save, new, rows, row

LEMMA ModerateDecides ==
    ASSUME NEW q, NEW c \in Calls, NEW s, WellFormed(s), NEW t, NEW step,
           \/ t = "posts" /\ step = "moderatePost"
           \/ t = "comments" /\ step = "moderateComment",
           c.op = step
    PROVE  /\ Moderate(c, s, t).verdict \in {"save", "deny"}
           /\ Moderate(c, s, t).verdict = "save" =>
                 Decided(q, c, step, s, Moderate(c, s, t).store)
<1> SUFFICES ASSUME c.who \in Staff, c.row \in DOMAIN s[t]
             PROVE  Decided(q, c, step, s, [s EXCEPT ![t][c.row].status = c.status])
  BY DEF Moderate, Save, Deny
<1> DEFINE rows == [s[t] EXCEPT ![c.row].status = c.status]
           new == [s EXCEPT ![t] = rows]
<1>1. t \in Tables /\ c.status \in Statuses
  BY DEF Tables
<1>2. /\ DOMAIN rows = DOMAIN s[t]
      /\ \A i \in DOMAIN rows : i # c.row => rows[i] = s[t][i]
      /\ rows[c.row] = [s[t][c.row] EXCEPT !.status = c.status]
  OBVIOUS
<1>3. CASE t = "posts"
  <2>1. \A i \in DOMAIN rows : rows[i] \in Post /\ rows[i].by = s.posts[i].by
    BY <1>1, <1>2, <1>3 DEF WellFormed, Post
  <2>2. rows \in [DOMAIN rows -> Post]
    BY <2>1
  <2> HIDE DEF rows
  <2>3. /\ WellFormed(new) /\ new.posts = rows
        /\ \A u \in Tables \ {"posts"} : new[u] = s[u]
    BY <1>3, <2>2, Replaced DEF Tables
  <2> HIDE DEF new
  <2>4. KeepsPosts(q, c, step, s, new)
    BY <1>2, <1>3, <2>1, <2>3 DEF KeepsPosts
  <2>5. Decided(q, c, step, s, new)
    BY <1>3, <2>3, <2>4 DEF Decided, Adds, KeepsNotifications, Tables
  <2> QED
    BY <2>5, <1>1 DEF new, rows, WellFormed
<1>4. CASE t = "comments"
  <2>1. \A i \in DOMAIN rows : rows[i] \in Comment
    BY <1>1, <1>2, <1>4 DEF WellFormed, Comment
  <2>2. rows \in [DOMAIN rows -> Comment]
    BY <2>1
  <2> HIDE DEF rows
  <2>3. /\ WellFormed(new)
        /\ \A u \in Tables \ {"comments"} : new[u] = s[u]
    BY <1>4, <2>2, Replaced DEF Tables
  <2> HIDE DEF new
  <2>4. Decided(q, c, step, s, new)
    BY <1>4, <2>3 DEF Decided, Adds, KeepsPosts, KeepsNotifications, Tables
  <2> QED
    BY <2>4, <1>1 DEF new, rows, WellFormed
<1> QED
  BY <1>3, <1>4

LEMMA ReactDecides ==
    ASSUME NEW q \in Requests, NEW c \in Calls, c.op = "react", NEW s, WellFormed(s)
    PROVE  /\ React(q, c, s).verdict = "save"
           /\ Decided(q, c, "react", s, React(q, c, s).store)
<1> DEFINE row == [by |-> c.who, post |-> c.post]
           mine == {i \in DOMAIN s.reactions : s.reactions[i] = row}
           fewer == [i \in (DOMAIN s.reactions) \ mine |-> s.reactions[i]]
           rows == IF mine = {} THEN With(s.reactions, Row(q, row)) ELSE fewer
           new == [s EXCEPT !["reactions"] = rows]
<1>1. row \in Reaction
  BY DEF Reaction
<1>2. fewer \in [DOMAIN fewer -> Reaction]
  BY DEF WellFormed
<1> HIDE DEF row
<1>3. With(s.reactions, Row(q, row)) \in [DOMAIN With(s.reactions, Row(q, row)) -> Reaction]
  <2>1. s.reactions \in [DOMAIN s.reactions -> Reaction]
    BY DEF WellFormed
  <2> QED
    BY <1>1, <2>1 DEF With, Row
<1>4. rows \in [DOMAIN rows -> Reaction]
  BY <1>2, <1>3
<1> HIDE DEF rows
<1>5. /\ WellFormed(new)
      /\ \A t \in Tables \ {"reactions"} : new[t] = s[t]
  BY <1>4, Replaced DEF Tables
<1> HIDE DEF new
<1>6. Decided(q, c, "react", s, new)
  BY <1>5 DEF Decided, Adds, KeepsPosts, KeepsNotifications, Tables
<1>7. React(q, c, s) = Save(new)
  BY DEF React, new, rows, row
<1> QED
  BY <1>6, <1>7 DEF Save

LEMMA MarkReadDecides ==
    ASSUME NEW q, NEW c \in Calls, c.op = "read", NEW s, WellFormed(s)
    PROVE  /\ MarkRead(c, s).verdict \in {"save", "deny"}
           /\ MarkRead(c, s).verdict = "save" => Decided(q, c, "read", s, MarkRead(c, s).store)
<1> SUFFICES ASSUME c.row \in DOMAIN s.notifications
             PROVE  Decided(q, c, "read", s, [s EXCEPT !.notifications[c.row].read = TRUE])
  BY DEF MarkRead, Save, Deny
<1> DEFINE rows == [s.notifications EXCEPT ![c.row].read = TRUE]
           new == [s EXCEPT !["notifications"] = rows]
<1>2. /\ DOMAIN rows = DOMAIN s.notifications
      /\ \A i \in DOMAIN rows : i # c.row => rows[i] = s.notifications[i]
      /\ rows[c.row] = [s.notifications[c.row] EXCEPT !.read = TRUE]
  OBVIOUS
<1>3. \A i \in DOMAIN rows : /\ rows[i] \in Notification
                             /\ rows[i].to = s.notifications[i].to
                             /\ rows[i].about = s.notifications[i].about
  <2>1. \A i \in DOMAIN s.notifications : s.notifications[i] \in Notification
    BY DEF WellFormed
  <2> HIDE DEF rows
  <2>2. /\ rows[c.row] \in Notification
        /\ rows[c.row].to = s.notifications[c.row].to
        /\ rows[c.row].about = s.notifications[c.row].about
    BY <1>2, <2>1 DEF Notification
  <2> QED
    BY <1>2, <2>1, <2>2
<1>4. rows \in [DOMAIN rows -> Notification]
  BY <1>3
<1> HIDE DEF rows
<1>5. /\ WellFormed(new) /\ new.notifications = rows
      /\ \A u \in Tables \ {"notifications"} : new[u] = s[u]
  BY <1>4, Replaced DEF Tables
<1> HIDE DEF new
<1>6. KeepsNotifications(q, c, "read", s, new)
  BY <1>2, <1>3, <1>5 DEF KeepsNotifications
<1>7. Decided(q, c, "read", s, new)
  BY <1>5, <1>6 DEF Decided, Adds, KeepsPosts, Tables
<1> QED
  BY <1>7 DEF new, rows, WellFormed

\* Every step of every call decides within these limits.
LEMMA DecideDecides ==
    ASSUME NEW q \in Requests, NEW c \in Calls, NEW step \in Steps(c), NEW s, WellFormed(s)
    PROVE  /\ Decide(q, c, step, s).verdict \in {"save", "deny"}
           /\ Decide(q, c, step, s).verdict = "save" =>
                 Decided(q, c, step, s, Decide(q, c, step, s).store)
<1>1. CASE step = "publish"
  BY <1>1, PublishDecides DEF Decide, Steps
<1>2. CASE step = "notify"
  BY <1>2, NotifyDecides DEF Decide, Steps
<1>3. CASE step = "comment"
  BY <1>3, AddCommentDecides DEF Decide, Steps
<1>4. CASE step = "moderatePost"
  <2>1. c.op = "moderatePost"
    BY <1>4 DEF Steps
  <2> QED
    BY <1>4, <2>1, ModerateDecides DEF Decide
<1>5. CASE step = "moderateComment"
  <2>1. c.op = "moderateComment"
    BY <1>5 DEF Steps
  <2> QED
    BY <1>5, <2>1, ModerateDecides DEF Decide
<1>6. CASE step = "react"
  BY <1>6, ReactDecides DEF Decide, Steps
<1>7. CASE step = "read"
  BY <1>7, MarkReadDecides DEF Decide, Steps
<1>8. CASE step = "privacy"
  <2>1. Decided(q, c, "privacy", s, s)
    BY DEF Decided, Adds, KeepsPosts, KeepsNotifications
  <2> QED
    BY <1>8, <2>1 DEF Decide, Save
<1> QED
  BY <1>1, <1>2, <1>3, <1>4, <1>5, <1>6, <1>7, <1>8 DEF Steps

-----------------------------------------------------------------------------

LEMMA RoundsAreSteps ==
    ASSUME NEW c \in Calls
    PROVE  /\ Len(Rounds(c)) \in {1, 2}
           /\ \A r \in 1 .. Len(Rounds(c)) : Rounds(c)[r] \in Steps(c)
           /\ c.op = "publish" => /\ Len(Rounds(c)) = 2
                                  /\ Rounds(c)[1] = "publish" /\ Rounds(c)[2] = "notify"
           /\ c.op # "publish" => Len(Rounds(c)) = 1 /\ Rounds(c)[1] = c.op
BY DEF Rounds, Steps

LEMMA InitInv == Init => Inv
<1> SUFFICES ASSUME Init PROVE Inv
  OBVIOUS
<1>1. Typed
  BY NothingIsWellFormed, SeedAssumption DEF Init, Idle, Typed, InPlay
<1>2. Referring
  BY SeedAssumption DEF Init, Referring
<1>3. ASSUME NEW q \in Requests PROVE Knows(q)
  <2>1. pc[q] = "idle" /\ seen[q] = Nothing
    BY DEF Init, Idle
  <2>2. q \notin DOMAIN db.posts /\ q \notin DOMAIN db.notifications
    BY SeedAssumption DEF Init, Tables
  <2>3. DOMAIN seen[q].posts = {} /\ DOMAIN seen[q].notifications = {}
    BY <2>1 DEF Nothing, Tables
  <2> QED
    BY <2>1, <2>2, <2>3 DEF Knows, Own, Agrees, Writes, Reached, InPlay
<1> QED
  BY <1>1, <1>2, <1>3 DEF Inv

\* The step of one request leaves what the others know true; a row with the id
\* of another request is not new.
LEMMA OthersKnow ==
    ASSUME Inv, Grows, NEW q \in Requests, Same(q),
           q \in DOMAIN db'.posts => q \in DOMAIN db.posts,
           q \in DOMAIN db'.notifications => q \in DOMAIN db.notifications
    PROVE  Knows(q)'
<1>1. Knows(q)
  BY DEF Inv
<1>2. Own(q)'
  BY <1>1 DEF Knows, Own, Grows, Same
<1>3. Agrees(q)'
  BY <1>1 DEF Knows, Agrees, Grows, Same, Tables
<1>4. Writes(q)'
  BY <1>1 DEF Knows, Writes, Grows, Same, StepOf
<1>5. Reached(q)'
  BY <1>1 DEF Knows, Reached, Grows, Same, StepOf, InPlay, Tables
<1> QED
  BY <1>2, <1>3, <1>4, <1>5 DEF Knows

\* What one request does keeps the invariant.
LEMMA OneRequest ==
    ASSUME Inv, NEW q \in Requests, Typed', Referring', Grows, Knows(q)',
           \A r \in Requests \ {q} :
              /\ Same(r)
              /\ r \in DOMAIN db'.posts => r \in DOMAIN db.posts
              /\ r \in DOMAIN db'.notifications => r \in DOMAIN db.notifications
    PROVE  Inv'
BY OthersKnow DEF Inv

LEMMA QuietRequest ==
    ASSUME Inv, NEW q \in Requests, UNCHANGED db, Typed', Knows(q)',
           \A r \in Requests \ {q} : Same(r)
    PROVE  Inv'
<1>1. Grows
  BY DEF Grows, Inv, Typed
<1>2. Referring'
  BY DEF Inv, Referring
<1> QED
  BY <1>1, <1>2, OneRequest

LEMMA StartStep ==
    ASSUME Inv, NEW q \in Requests, NEW c \in Calls, Start(q, c)
    PROVE  Inv' /\ UNCHANGED db
<1> USE DEF Start
<1>1. /\ pc[q] = "idle" /\ pc'[q] = "reading" /\ call'[q] = c /\ round'[q] = 1
      /\ UNCHANGED <<db, seen>>
  BY DEF Inv, Typed
<1>2. Typed'
  <2>1. 1 \in 1 .. Len(Rounds(c))
    BY RoundsAreSteps
  <2>2. \A r \in Requests : InPlay(r)' => round'[r] \in 1 .. Len(Rounds(call'[r]))
    BY <2>1 DEF Inv, Typed, InPlay
  <2> QED
    BY <2>2 DEF Inv, Typed
<1>3. StepOf(q)' = Rounds(c)[1]
  BY <1>1 DEF StepOf
<1>4. q \notin DOMAIN db.posts /\ q \notin DOMAIN db.notifications
  BY <1>1 DEF Inv, Knows, Own
<1>5. Knows(q)'
  BY <1>1, <1>3, <1>4, RoundsAreSteps DEF Inv, Knows, Own, Agrees, Writes, Reached, InPlay
<1>6. \A r \in Requests \ {q} : Same(r)
  BY DEF Same, Inv, Typed
<1> QED
  BY <1>1, <1>2, <1>5, <1>6, QuietRequest

\* The answer, or the end without one, forgets what was read.
LEMMA EndStep ==
    ASSUME Inv, NEW q \in Requests, InPlay(q),
           NEW a \in {"ok", "rejected", "error", "lost"}, End(q, a),
           a = "ok" =>
              /\ call[q].op = "publish" => q \in DOMAIN db.posts /\ q \in DOMAIN db.notifications
              /\ call[q].op = "comment" => q \in DOMAIN db.comments
              /\ call[q].op = "notify" => q \in DOMAIN db.notifications
    PROVE  Inv' /\ UNCHANGED db
<1> USE DEF End, Forget
<1>1. pc'[q] = a /\ seen'[q] = Nothing /\ UNCHANGED <<db, call>>
  BY DEF Inv, Typed
<1>2. Typed'
  BY NothingIsWellFormed DEF Inv, Typed, InPlay
<1>3. DOMAIN seen'[q].posts = {} /\ DOMAIN seen'[q].notifications = {}
  BY <1>1 DEF Nothing, Tables
<1>4. Knows(q)
  BY DEF Inv
<1>5. Knows(q)'
  BY <1>1, <1>3, <1>4 DEF Knows, Own, Agrees, Writes, Reached, InPlay
<1>6. \A r \in Requests \ {q} : Same(r)
  BY DEF Same, Inv, Typed
<1> QED
  BY <1>1, <1>2, <1>5, <1>6, QuietRequest

LEMMA ReadStep ==
    ASSUME Inv, NEW q \in Requests, NEW t \in Tables, Read(q, t)
    PROVE  Inv' /\ UNCHANGED db
<1> DEFINE rows == Visible(call[q], db, t)
<1> USE DEF Read
<1>1. /\ pc[q] = "reading" /\ UNCHANGED <<db, pc, call, round, out, todo, failed>>
      /\ seen'[q] = [seen[q] EXCEPT ![t] = rows]
      /\ \A r \in Requests \ {q} : seen'[r] = seen[r]
  BY DEF Inv, Typed
<1>2. PICK S : /\ db[t] \in [DOMAIN db[t] -> S]
               /\ \/ t = "posts" /\ S = Post
                  \/ t = "comments" /\ S = Comment
                  \/ t = "reactions" /\ S = Reaction
                  \/ t = "notifications" /\ S = Notification
  BY DEF Inv, Typed, WellFormed, Tables
<1>3. /\ rows \in [DOMAIN rows -> S] /\ DOMAIN rows \subseteq DOMAIN db[t]
      /\ \A i \in DOMAIN rows : rows[i] = db[t][i]
  BY <1>2 DEF Visible
<1> HIDE DEF rows
<1>4. WellFormed(seen[q])
  BY DEF Inv, Typed
<1>5. /\ WellFormed(seen'[q]) /\ seen'[q][t] = rows
      /\ \A u \in Tables \ {t} : seen'[q][u] = seen[q][u]
  BY <1>1, <1>2, <1>3, <1>4, Replaced
<1>6. Typed'
  <2>1. /\ DOMAIN seen' = Requests /\ seen' = [r \in Requests |-> seen'[r]]
        /\ loaded' \in [Requests -> SUBSET Tables]
    BY DEF Inv, Typed
  <2> QED
    BY <1>1, <1>5, <2>1 DEF Inv, Typed, InPlay
<1>7. Knows(q)
  BY DEF Inv
<1>8. Agrees(q)'
  BY <1>1, <1>3, <1>5, <1>7 DEF Knows, Agrees, Tables
<1>9. Knows(q)'
  BY <1>1, <1>7, <1>8 DEF Knows, Own, Writes, Reached, StepOf, InPlay
<1>10. \A r \in Requests \ {q} : Same(r)
  BY <1>1 DEF Same
<1> QED
  BY <1>1, <1>6, <1>9, <1>10, QuietRequest

LEMMA FailReadStep ==
    ASSUME Inv, NEW q \in Requests, NEW t \in Tables, FailRead(q, t)
    PROVE  Inv' /\ UNCHANGED db
<1>1. CASE t \in Critical
  <2>1. InPlay(q) /\ End(q, "error")
    BY <1>1 DEF FailRead, InPlay
  <2> QED
    BY <2>1, EndStep
<1>2. CASE t \notin Critical
  <2>1. /\ UNCHANGED <<db, pc, call, round, seen, out, todo, failed>>
        /\ loaded' = [loaded EXCEPT ![q] = @ \cup {t}]
    BY <1>2 DEF FailRead
  <2>2. Typed'
    <3>1. loaded' \in [Requests -> SUBSET Tables]
      BY <2>1 DEF Inv, Typed
    <3> QED
      BY <2>1, <3>1 DEF Inv, Typed, InPlay
  <2>3. Knows(q)'
    BY <2>1 DEF Inv, Knows, Own, Agrees, Writes, Reached, StepOf, InPlay
  <2>4. \A r \in Requests \ {q} : Same(r)
    BY <2>1 DEF Same
  <2> QED
    BY <2>1, <2>2, <2>3, <2>4, QuietRequest
<1> QED
  BY <1>1, <1>2

LEMMA SettleStep ==
    ASSUME Inv, NEW q \in Requests, Settle(q)
    PROVE  Inv' /\ UNCHANGED db
<1> DEFINE does == Decide(q, call[q], StepOf(q), seen[q])
<1>1. pc[q] = "reading" /\ InPlay(q)
  BY DEF Settle, Act, InPlay
<1>2. /\ call[q] \in Calls /\ WellFormed(seen[q]) /\ Knows(q)
      /\ round[q] \in 1 .. Len(Rounds(call[q]))
  BY <1>1 DEF Inv, Typed
<1>3. StepOf(q) \in Steps(call[q])
  BY <1>2, RoundsAreSteps DEF StepOf
<1>4. /\ does.verdict \in {"save", "deny"}
      /\ does.verdict = "save" => Decided(q, call[q], StepOf(q), seen[q], does.store)
  BY <1>2, <1>3, DecideDecides
<1>5. CASE does.verdict = "deny"
  <2>1. End(q, "rejected")
    BY <1>5 DEF Settle, Act, StepOf
  <2> QED
    BY <1>1, <2>1, EndStep
<1>6. CASE does.verdict = "save"
  <2>1. /\ out' = [out EXCEPT ![q] = does.store]
        /\ todo' = [todo EXCEPT ![q] = {t \in Tables : DOMAIN does.store[t] # {}}]
        /\ pc' = [pc EXCEPT ![q] = "writing"]
        /\ UNCHANGED <<db, call, round, seen, loaded, failed>>
    BY <1>6 DEF Settle, Act, StepOf
  <2> HIDE DEF does
  <2>2. /\ out'[q] = does.store /\ pc'[q] = "writing"
        /\ todo'[q] = {t \in Tables : DOMAIN does.store[t] # {}}
    BY <2>1 DEF Inv, Typed
  <2>3. WellFormed(out'[q])
    BY <1>4, <1>6, <2>2 DEF Decided
  <2>4. Typed'
    BY <1>2, <2>1, <2>2, <2>3 DEF Inv, Typed, InPlay
  <2>5. Writes(q)'
    BY <1>4, <1>6, <2>1, <2>2 DEF Writes, StepOf
  <2>6. Knows(q)'
    BY <1>1, <1>2, <2>1, <2>2, <2>5 DEF Knows, Own, Agrees, Reached, StepOf, InPlay
  <2>7. \A r \in Requests \ {q} : Same(r)
    BY <2>1 DEF Same, Inv, Typed
  <2> QED
    BY <2>1, <2>4, <2>6, <2>7, QuietRequest
<1> QED
  BY <1>4, <1>5, <1>6

\* The upsert of one table.
LEMMA CommitStep ==
    ASSUME Inv, NEW q \in Requests, NEW t \in Tables, Commit(q, t)
    PROVE  Inv' /\ Grows
<1> DEFINE rows == out[q][t]
           table == Upsert(db[t], rows)
<1>1. /\ pc[q] = "writing" /\ InPlay(q) /\ call[q] \in Calls /\ t \in todo[q]
      /\ Accepts(call[q], db, t, rows)
      /\ UNCHANGED <<pc, call, round, seen, loaded, out>>
  BY DEF Commit, Due, Inv, Typed, InPlay
<1>2. WellFormed(db) /\ WellFormed(out[q]) /\ Knows(q) /\ Referring
  BY DEF Inv, Typed
<1>3. Decided(q, call[q], StepOf(q), seen[q], out[q])
  BY <1>1, <1>2 DEF Knows, Writes
<1>4. StepOf(q) \in Steps(call[q])
  BY <1>1, RoundsAreSteps DEF StepOf, Inv, Typed
<1>5. PICK S : /\ db[t] \in [DOMAIN db[t] -> S] /\ rows \in [DOMAIN rows -> S]
               /\ \/ t = "posts" /\ S = Post
                  \/ t = "comments" /\ S = Comment
                  \/ t = "reactions" /\ S = Reaction
                  \/ t = "notifications" /\ S = Notification
  BY <1>2 DEF WellFormed, Tables
<1>6. /\ table \in [DOMAIN table -> S]
      /\ DOMAIN table = DOMAIN rows \cup DOMAIN db[t]
      /\ \A i \in DOMAIN rows : table[i] = rows[i]
      /\ \A i \in DOMAIN db[t] \ DOMAIN rows : table[i] = db[t][i]
  BY <1>5 DEF Upsert
<1>7. db' = [db EXCEPT ![t] = table]
  BY DEF Commit
<1> HIDE DEF table
<1>8. /\ WellFormed(db') /\ db'[t] = table
      /\ \A u \in Tables \ {t} : db'[u] = db[u]
  <2>1. table \in [DOMAIN table -> S]
    BY <1>6
  <2>2. \/ t = "posts" /\ S = Post
        \/ t = "comments" /\ S = Comment
        \/ t = "reactions" /\ S = Reaction
        \/ t = "notifications" /\ S = Notification
    BY <1>5
  <2>3. WellFormed(db)
    BY <1>2
  <2> HIDE DEF rows
  <2> QED
    BY <1>7, <2>1, <2>2, <2>3 DEF WellFormed, Tables
<1>9. \A i \in DOMAIN out[q].posts :
         \/ i \in DOMAIN db.posts /\ out[q].posts[i].by = db.posts[i].by
         \/ i = q /\ StepOf(q) = "publish" /\ out[q].posts[i].by = call[q].who
  BY <1>2, <1>3 DEF Knows, Agrees, Decided, KeepsPosts
<1>10. \A i \in DOMAIN out[q].notifications :
         \/ /\ i \in DOMAIN db.notifications
            /\ out[q].notifications[i].to = db.notifications[i].to
            /\ out[q].notifications[i].about = db.notifications[i].about
         \/ /\ i = q /\ StepOf(q) = "notify"
            /\ out[q].notifications[i].to = call[q].to
            /\ \/ call[q].op = "publish" /\ out[q].notifications[i].about = q
               \/ call[q].op = "notify" /\ out[q].notifications[i].about = call[q].about
  BY <1>2, <1>3 DEF Knows, Agrees, Decided, KeepsNotifications
<1>11. \A p \in DOMAIN db.posts : db'.posts[p].by = db.posts[p].by
  <2>1. \A i \in DOMAIN out[q].posts \cap DOMAIN db.posts : out[q].posts[i].by = db.posts[i].by
    BY <1>2, <1>9 DEF Knows, Own
  <2> QED
    BY <1>6, <1>8, <2>1 DEF Tables
<1>12. ASSUME NEW n \in DOMAIN db.notifications
       PROVE  /\ db'.notifications[n].to = db.notifications[n].to
              /\ db'.notifications[n].about = db.notifications[n].about
  <2>1. n \in DOMAIN out[q].notifications =>
           /\ out[q].notifications[n].to = db.notifications[n].to
           /\ out[q].notifications[n].about = db.notifications[n].about
    BY <1>2, <1>10 DEF Knows, Own
  <2> QED
    BY <1>6, <1>8, <2>1 DEF Tables
<1>13. Grows
  BY <1>6, <1>8, <1>11, <1>12 DEF Grows, Tables
<1>14. ASSUME NEW r \in Requests \ {q}
       PROVE  /\ r \in DOMAIN db'.posts => r \in DOMAIN db.posts
              /\ r \in DOMAIN db'.notifications => r \in DOMAIN db.notifications
  BY <1>6, <1>8, <1>9, <1>10 DEF Tables
<1>15. Referring'
  <2>1. ASSUME NEW i \in DOMAIN db'.comments
        PROVE  db'.comments[i].post \in DOMAIN db'.posts
    <3>1. CASE t = "comments"
      <4>1. \A j \in DOMAIN rows : rows[j].post \in DOMAIN db.posts
        BY <1>1, <3>1 DEF Accepts, Refer
      <4> QED
        BY <1>2, <1>6, <1>8, <3>1, <4>1 DEF Referring, Tables
    <3>2. CASE t # "comments"
      BY <1>2, <1>13, <1>8, <3>2 DEF Referring, Grows, Tables
    <3> QED
      BY <3>1, <3>2
  <2>2. ASSUME NEW i \in DOMAIN db'.notifications, db'.notifications[i].about \in Requests
        PROVE  db'.notifications[i].about \in DOMAIN db'.posts
    <3>1. DOMAIN db.posts \subseteq DOMAIN db'.posts
      BY <1>13 DEF Grows, Tables
    <3>2. CASE i \in DOMAIN db.notifications
      BY <1>2, <1>12, <3>1, <3>2, <2>2 DEF Referring
    <3>3. CASE i \notin DOMAIN db.notifications
      <4>1. t = "notifications" /\ i \in DOMAIN rows /\ db'.notifications[i] = rows[i]
        BY <1>6, <1>8, <3>3 DEF Tables
      <4>2. /\ StepOf(q) = "notify"
            /\ \/ call[q].op = "publish" /\ rows[i].about = q
               \/ call[q].op = "notify" /\ rows[i].about = call[q].about
        BY <1>10, <3>3, <4>1
      <4>3. call[q].op = "publish" /\ rows[i].about = q
        BY <1>1, <2>2, <4>1, <4>2
      <4>4. q \in DOMAIN db.posts
        BY <1>1, <1>2, <4>2, <4>3 DEF Knows, Reached
      <4> QED
        BY <3>1, <4>1, <4>3, <4>4
    <3> QED
      BY <3>2, <3>3
  <2> QED
    BY <2>1, <2>2 DEF Referring
<1>16. /\ todo'[q] \subseteq todo[q] \ {t} /\ failed'[q] \in BOOLEAN
       /\ failed'[q] \/ (failed'[q] = failed[q] /\ todo'[q] = todo[q] \ {t})
       /\ \A r \in Requests \ {q} : todo'[r] = todo[r] /\ failed'[r] = failed[r]
       /\ todo' \in [Requests -> SUBSET Tables] /\ failed' \in [Requests -> BOOLEAN]
  <2>1. \/ /\ todo' = [todo EXCEPT ![q] = @ \ {t}]
           /\ failed' = failed
        \/ /\ todo' = [todo EXCEPT ![q] = {u \in @ \ {t} : Rank[u] = Rank[t]}]
           /\ failed' = [failed EXCEPT ![q] = TRUE]
    BY DEF Commit
  <2>2. todo \in [Requests -> SUBSET Tables] /\ failed \in [Requests -> BOOLEAN]
    BY DEF Inv, Typed
  <2>3. todo[q] \in SUBSET Tables
    BY <2>2
  <2>4. todo'[q] \subseteq todo[q] \ {t} /\ failed'[q] \in BOOLEAN
    BY <2>1, <2>2, <2>3
  <2>5. failed'[q] = TRUE \/ (failed'[q] = failed[q] /\ todo'[q] = todo[q] \ {t})
    BY <2>1, <2>2, <2>3
  <2>6. \A r \in Requests \ {q} : todo'[r] = todo[r] /\ failed'[r] = failed[r]
    BY <2>1, <2>2, <2>3
  <2>7. todo' \in [Requests -> SUBSET Tables] /\ failed' \in [Requests -> BOOLEAN]
    BY <2>1, <2>2, <2>3
  <2> QED
    BY <2>4, <2>5, <2>6, <2>7
<1>17. Typed'
  BY <1>1, <1>8, <1>16 DEF Inv, Typed, InPlay
<1>18. Own(q)'
  <2>1. q \in DOMAIN db'.posts => db'.posts[q].by = call[q].who
    <3>1. CASE q \in DOMAIN db.posts
      BY <1>2, <1>11, <3>1 DEF Knows, Own
    <3>2. CASE q \notin DOMAIN db.posts
      BY <1>6, <1>8, <1>9, <3>2 DEF Tables
    <3> QED
      BY <3>1, <3>2
  <2>2. q \in DOMAIN db'.notifications =>
          /\ db'.notifications[q].to = call[q].to
          /\ \/ call[q].op = "publish" /\ db'.notifications[q].about = q
             \/ call[q].op = "notify" /\ db'.notifications[q].about = call[q].about
    <3>1. CASE q \in DOMAIN db.notifications
      BY <1>2, <1>12, <3>1 DEF Knows, Own
    <3>2. CASE q \notin DOMAIN db.notifications
      BY <1>6, <1>8, <1>10, <3>2 DEF Tables
    <3> QED
      BY <3>1, <3>2
  <2> QED
    BY <1>1, <2>1, <2>2 DEF Own
<1>19. Agrees(q)'
  BY <1>1, <1>2, <1>13 DEF Knows, Agrees, Grows, Tables
<1>20. Writes(q)'
  <2>1. DOMAIN rows \subseteq DOMAIN db'[t]
    BY <1>6, <1>8
  <2>2. \A u \in Tables : DOMAIN db[u] \subseteq DOMAIN db'[u]
    BY <1>13 DEF Grows
  <2>3. failed'[q] \/ \A u \in Tables : DOMAIN out[q][u] \subseteq DOMAIN db'[u] \/ u \in todo'[q]
    BY <1>1, <1>2, <1>16, <2>1, <2>2 DEF Knows, Writes
  <2> QED
    BY <1>1, <1>3, <2>3 DEF Writes, StepOf
<1>21. Reached(q)'
  BY <1>1, <1>2, <1>8, <1>13, <1>16 DEF Knows, Reached, Grows, StepOf, InPlay, Tables
<1>22. Knows(q)'
  BY <1>18, <1>19, <1>20, <1>21 DEF Knows
<1>23. \A r \in Requests \ {q} : Same(r)
  BY <1>1, <1>16 DEF Same
<1> QED
  BY <1>13, <1>14, <1>15, <1>17, <1>22, <1>23, OneRequest

LEMMA FailWriteStep ==
    ASSUME Inv, NEW q \in Requests, NEW t \in Tables, FailWrite(q, t)
    PROVE  Inv' /\ UNCHANGED db
<1>1. /\ pc[q] = "writing" /\ UNCHANGED <<db, pc, call, round, seen, loaded, out>>
      /\ todo' = [todo EXCEPT ![q] = {u \in @ \ {t} : Rank[u] = Rank[t]}]
      /\ failed' = [failed EXCEPT ![q] = TRUE]
  BY DEF FailWrite, Due
<1>2. todo \in [Requests -> SUBSET Tables] /\ failed \in [Requests -> BOOLEAN]
  BY DEF Inv, Typed
<1>3. /\ todo'[q] \subseteq todo[q] /\ failed'[q] = TRUE
      /\ \A r \in Requests \ {q} : todo'[r] = todo[r] /\ failed'[r] = failed[r]
      /\ todo' \in [Requests -> SUBSET Tables] /\ failed' \in [Requests -> BOOLEAN]
  BY <1>1, <1>2
<1>4. Typed'
  BY <1>1, <1>3 DEF Inv, Typed, InPlay
<1>5. Knows(q)
  BY DEF Inv
<1>6. Knows(q)'
  BY <1>1, <1>3, <1>5 DEF Knows, Own, Agrees, Writes, Reached, StepOf, InPlay
<1>7. \A r \in Requests \ {q} : Same(r)
  BY <1>1, <1>3 DEF Same
<1> QED
  BY <1>1, <1>4, <1>6, <1>7, QuietRequest

LEMMA FinishStep ==
    ASSUME Inv, NEW q \in Requests, Finish(q)
    PROVE  Inv' /\ UNCHANGED db
<1>1. /\ pc[q] = "writing" /\ todo[q] = {} /\ InPlay(q) /\ call[q] \in Calls
      /\ Knows(q) /\ round[q] \in 1 .. Len(Rounds(call[q]))
  BY DEF Finish, Inv, Typed, InPlay
<1>2. CASE failed[q]
  <2>1. End(q, "error")
    BY <1>2 DEF Finish
  <2> QED
    BY <1>1, <2>1, EndStep
<1>3. CASE ~failed[q]
  <2>1. \A t \in Tables : Adds(StepOf(q), t) => q \in DOMAIN db[t]
    BY <1>1, <1>3 DEF Knows, Writes, Decided
  <2>2. CASE round[q] = Len(Rounds(call[q]))
    <3>1. End(q, "ok")
      BY <1>3, <2>2 DEF Finish, Proceed
    <3>2. call[q].op = "publish" => StepOf(q) = "notify"
      BY <1>1, <2>2, RoundsAreSteps DEF StepOf
    <3>3. call[q].op # "publish" => StepOf(q) = call[q].op
      BY <1>1, <2>2, RoundsAreSteps DEF StepOf
    <3>4. /\ call[q].op = "publish" => q \in DOMAIN db.posts /\ q \in DOMAIN db.notifications
          /\ call[q].op = "comment" => q \in DOMAIN db.comments
          /\ call[q].op = "notify" => q \in DOMAIN db.notifications
      BY <1>1, <2>1, <3>2, <3>3 DEF Knows, Reached, Adds, Tables
    <3> QED
      BY <1>1, <3>1, <3>4, EndStep
  <2>3. CASE round[q] # Len(Rounds(call[q]))
    <3>1. /\ call[q].op = "publish" /\ round[q] = 1
          /\ Rounds(call[q])[1] = "publish" /\ Rounds(call[q])[2] = "notify"
          /\ Len(Rounds(call[q])) = 2
      BY <1>1, <2>3, RoundsAreSteps
    <3>2. /\ pc' = [pc EXCEPT ![q] = "reading"]
          /\ round' = [round EXCEPT ![q] = @ + 1]
          /\ Forget(q)
      BY <1>3, <2>3 DEF Finish, Proceed
    <3>3. /\ pc'[q] = "reading" /\ round'[q] = 2 /\ seen'[q] = Nothing
          /\ UNCHANGED <<db, call>>
      BY <3>1, <3>2 DEF Forget, Inv, Typed
    <3>4. Typed'
      <4>1. 2 \in 1 .. Len(Rounds(call[q]))
        BY <3>1
      <4>2. \A r \in Requests : InPlay(r)' => round'[r] \in 1 .. Len(Rounds(call'[r]))
        BY <3>2, <3>3, <4>1 DEF Inv, Typed, InPlay
      <4>3. /\ pc' \in [Requests -> {"idle", "reading", "writing", "ok", "rejected", "error", "lost"}]
            /\ round' \in [Requests -> Nat]
            /\ loaded' \in [Requests -> SUBSET Tables] /\ todo' \in [Requests -> SUBSET Tables]
            /\ failed' \in [Requests -> BOOLEAN] /\ UNCHANGED <<db, call>>
        BY <1>1, <3>2 DEF Inv, Typed, Forget
      <4>4. /\ DOMAIN seen' = Requests /\ DOMAIN out' = Requests
            /\ seen' = [r \in Requests |-> seen'[r]] /\ out' = [r \in Requests |-> out'[r]]
            /\ \A r \in Requests : WellFormed(seen'[r]) /\ WellFormed(out'[r])
        BY <3>2, NothingIsWellFormed DEF Inv, Typed, Forget
      <4>5. \A r \in Requests : pc'[r] # "idle" => call'[r] \in Calls
        BY <1>1, <3>2, <4>3 DEF Inv, Typed
      <4> QED
        BY <4>2, <4>3, <4>4, <4>5 DEF Inv, Typed, InPlay
    <3>5. DOMAIN seen'[q].posts = {} /\ DOMAIN seen'[q].notifications = {}
      BY <3>3 DEF Nothing, Tables
    <3>6. StepOf(q)' = "notify" /\ StepOf(q) = "publish"
      BY <3>1, <3>3 DEF StepOf
    <3>7. q \in DOMAIN db.posts
      BY <2>1, <3>6 DEF Adds, Tables
    <3>8. Knows(q)'
      BY <1>1, <3>3, <3>5, <3>6, <3>7 DEF Knows, Own, Agrees, Writes, Reached
    <3>9. \A r \in Requests \ {q} : Same(r)
      BY <3>2 DEF Same, Forget, Inv, Typed
    <3> QED
      BY <3>3, <3>4, <3>8, <3>9, QuietRequest
  <2> QED
    BY <2>2, <2>3
<1> QED
  BY <1>2, <1>3

LEMMA NextInv == Inv /\ [Next]_vars => Inv' /\ Grows
<1> SUFFICES ASSUME Inv, [Next]_vars PROVE Inv' /\ Grows
  OBVIOUS
<1>1. ASSUME UNCHANGED db PROVE Grows
  BY <1>1 DEF Grows, Inv, Typed
<1>2. CASE UNCHANGED vars
  BY <1>1, <1>2 DEF vars, Inv, Typed, Referring, Knows, Own, Agrees, Writes, Reached, StepOf, InPlay
<1>3. ASSUME NEW q \in Requests, NEW c \in Calls, Start(q, c) PROVE Inv' /\ Grows
  BY <1>1, <1>3, StartStep
<1>4. ASSUME NEW q \in Requests, NEW t \in Tables,
             Read(q, t) \/ FailRead(q, t) \/ Commit(q, t) \/ FailWrite(q, t)
      PROVE  Inv' /\ Grows
  BY <1>1, <1>4, ReadStep, FailReadStep, CommitStep, FailWriteStep
<1>5. ASSUME NEW q \in Requests, Settle(q) \/ Finish(q) PROVE Inv' /\ Grows
  BY <1>1, <1>5, SettleStep, FinishStep
<1>6. ASSUME NEW q \in Requests, Crash(q) PROVE Inv' /\ Grows
  <2>1. InPlay(q) /\ End(q, "lost")
    BY <1>6 DEF Crash, InFlight, InPlay
  <2> QED
    BY <1>1, <2>1, EndStep
<1> QED
  BY <1>2, <1>3, <1>4, <1>5, <1>6 DEF Next, Step

-----------------------------------------------------------------------------

\* The invariant holds of every run.
THEOREM CommunityInvariant == Spec => []Inv
<1>1. Inv /\ [Next]_vars => Inv'
  BY NextInv
<1> QED
  BY <1>1, InitInv, PTL DEF Spec

\* The tables keep their types, and comments the posts they are on.
THEOREM CommunityTypes == Spec => []TypeOK
<1>1. Inv => TypeOK
  BY DEF Inv, Typed, Referring, TypeOK
<1> QED
  BY <1>1, CommunityInvariant, PTL

\* Nobody is ever told of a post that is not there.
THEOREM CommunityAnnouncements == Spec => []AnnouncedPostsExist
<1>1. Inv => AnnouncedPostsExist
  BY DEF Inv, Referring, AnnouncedPostsExist
<1> QED
  BY <1>1, CommunityInvariant, PTL

\* What was answered is stored.
THEOREM CommunityAnswers == Spec => []AnsweredCallsTookEffect
<1>1. Inv => AnsweredCallsTookEffect
  BY DEF Inv, Knows, Reached, AnsweredCallsTookEffect
<1> QED
  BY <1>1, CommunityInvariant, PTL

\* No snapshot takes a row away, or gives a post or a notification to another.
THEOREM CommunityGrows == Spec => NothingIsTakenAway
<1>1. Grows =>
         [/\ \A t \in Tables : DOMAIN db[t] \subseteq DOMAIN db'[t]
          /\ \A p \in DOMAIN db.posts : db'.posts[p].by = db.posts[p].by
          /\ \A n \in DOMAIN db.notifications :
                db'.notifications[n].to = db.notifications[n].to]_db
  BY DEF Grows
<1> QED
  BY <1>1, NextInv, CommunityInvariant, PTL DEF Spec, NothingIsTakenAway

\* Only a moderator, or one who had read it earlier, publishes a hidden post.
Republishes(p, q) ==
    /\ WritesPosts(q)
    /\ \/ call[q].op = "moderatePost" /\ call[q].who \in Staff
       \/ p \in DOMAIN seen[q].posts /\ seen[q].posts[p].status = "published"

LEMMA CommitRepublishes ==
    ASSUME Inv, NEW q \in Requests, NEW t \in Tables, Commit(q, t),
           NEW p \in DOMAIN db.posts, db.posts[p].status = "hidden",
           db'.posts[p].status = "published"
    PROVE  Republishes(p, q)
<1>1. /\ pc[q] = "writing" /\ t \in todo[q] /\ Knows(q) /\ WellFormed(db)
      /\ call[q] \in Calls /\ round[q] \in 1 .. Len(Rounds(call[q]))
      /\ db' = [db EXCEPT ![t] = Upsert(@, out[q][t])]
  BY DEF Commit, Due, Inv, Typed, InPlay
<1>2. t = "posts"
  BY <1>1 DEF WellFormed, Tables
<1>3. p \in DOMAIN out[q].posts /\ db'.posts[p] = out[q].posts[p]
  BY <1>1, <1>2 DEF Upsert, WellFormed, Tables
<1>4. StepOf(q) = "publish" => p # q
  BY <1>1, <1>2 DEF Knows, Reached
<1>5. /\ p \in DOMAIN seen[q].posts
      /\ \/ out[q].posts[p].status = seen[q].posts[p].status
         \/ StepOf(q) = "moderatePost" /\ call[q].who \in Staff
  BY <1>1, <1>3, <1>4 DEF Knows, Writes, Decided, KeepsPosts
<1>6. StepOf(q) = "moderatePost" => call[q].op = "moderatePost"
  BY <1>1, RoundsAreSteps DEF StepOf, Steps
<1>7. "posts" \notin todo'[q]
  <2>1. \/ todo' = [todo EXCEPT ![q] = @ \ {t}]
        \/ todo' = [todo EXCEPT ![q] = {u \in @ \ {t} : Rank[u] = Rank[t]}]
    BY DEF Commit
  <2>2. todo \in [Requests -> SUBSET Tables]
    BY DEF Inv, Typed
  <2> QED
    BY <1>2, <2>1, <2>2
<1> QED
  BY <1>1, <1>2, <1>3, <1>5, <1>6, <1>7 DEF Republishes, WritesPosts

\* A hidden post comes back by a moderator, or out of a store read before.
THEOREM CommunityRepublishing == Spec => OnlyStaleStoresRepublish
<1> DEFINE Told == \A p \in DOMAIN db.posts \cap DOMAIN db'.posts :
                     db.posts[p].status = "hidden" /\ db'.posts[p].status = "published" =>
                        \E q \in Requests : Republishes(p, q)
<1>1. Inv /\ [Next]_vars => [Told]_db
  <2> SUFFICES ASSUME Inv, [Next]_vars, db' # db PROVE Told
    OBVIOUS
  <2>1. PICK q \in Requests, t \in Tables : Commit(q, t)
    <3>1. ASSUME NEW q \in Requests, NEW c \in Calls, Start(q, c) PROVE FALSE
      BY <3>1, StartStep
    <3>2. ASSUME NEW q \in Requests, NEW t \in Tables,
                 Read(q, t) \/ FailRead(q, t) \/ FailWrite(q, t)
          PROVE  FALSE
      BY <3>2, ReadStep, FailReadStep, FailWriteStep
    <3>3. ASSUME NEW q \in Requests, Settle(q) \/ Finish(q) PROVE FALSE
      BY <3>3, SettleStep, FinishStep
    <3>4. ASSUME NEW q \in Requests, Crash(q) PROVE FALSE
      BY <3>4 DEF Crash, End, Forget
    <3>5. ~UNCHANGED vars
      BY DEF vars
    <3> QED
      BY <3>1, <3>2, <3>3, <3>4, <3>5 DEF Next, Step
  <2> QED
    BY <2>1, CommitRepublishes
<1>2. [Told]_db <=>
        [\A p \in DOMAIN db.posts \cap DOMAIN db'.posts :
            db.posts[p].status = "hidden" /\ db'.posts[p].status = "published" =>
               \E q \in Requests :
                  /\ WritesPosts(q)
                  /\ \/ call[q].op = "moderatePost" /\ call[q].who \in Staff
                     \/ p \in DOMAIN seen[q].posts /\ seen[q].posts[p].status = "published"]_db
  BY DEF Republishes
<1> HIDE DEF Told
<1> QED
  BY <1>1, <1>2, CommunityInvariant, PTL DEF Spec, OnlyStaleStoresRepublish
=============================================================================
