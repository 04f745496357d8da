----------------------------- MODULE Community ------------------------------
(***************************************************************************)
(* Posts, comments, reactions and notifications, as the community's server *)
(* repository keeps them: load every table, decide, upsert every table at  *)
(* once.  Requests with an access token run under row-level security.      *)
(* Groups, events and saves take the same road and are left out, as are    *)
(* titles and bodies; reactions are of one kind and to posts.              *)
(***************************************************************************)
EXTENDS Naturals, Sequences, FiniteSets, Stores

CONSTANTS Requests, Calls, MaxInFlight, Faults, NoCall,
          People,
          Staff,           \* moderators and administrators of the tenant
          SignedIn,        \* whose requests carry an access token
          Threads,         \* conversations and experiences members are told of
          Seeded,          \* ids of rows stored before the first request
          FirstStores      \* the stores the first request may find

VARIABLES db, pc, call, round, seen, loaded, out, todo, failed

Ids == Requests \cup Seeded
Statuses == {"published", "hidden", "archived"}

Post == [by : People, status : Statuses]
Comment == [by : People, post : Ids, status : Statuses]
Reaction == [by : People, post : Ids]
Notification == [to : People, about : Ids \cup Threads, read : BOOLEAN]

Tables == {"posts", "comments", "reactions", "notifications"}

\* What the columns of the tables allow.
WellFormed(s) ==
    /\ DOMAIN s = Tables
    /\ s.posts \in [DOMAIN s.posts -> Post]
    /\ s.comments \in [DOMAIN s.comments -> Comment]
    /\ s.reactions \in [DOMAIN s.reactions -> Reaction]
    /\ s.notifications \in [DOMAIN s.notifications -> Notification]

ASSUME CallsAssumption ==
    \A c \in Calls :
        /\ c.op \in {"publish", "notify", "comment", "moderatePost", "moderateComment",
                     "react", "read", "privacy"}
        /\ c.who \in People
        /\ c.op \in {"publish", "notify"} => c.to \in People
        /\ c.op = "notify" => c.about \in Threads
        /\ c.op \in {"comment", "react"} => c.post \in Ids
        /\ c.op \in {"moderatePost", "moderateComment"} => c.status \in Statuses

ASSUME IdsAssumption == Requests \cap (Seeded \cup Threads) = {}
ASSUME SeedAssumption ==
    \A s \in FirstStores :
        /\ WellFormed(s)
        /\ \A t \in Tables : DOMAIN s[t] \subseteq Seeded
        /\ \A i \in DOMAIN s.comments : s.comments[i].post \in DOMAIN s.posts
        /\ \A i \in DOMAIN s.notifications : s.notifications[i].about \notin Requests

Rank == [t \in Tables |-> 1]
Critical == {"posts"}

Publish(q, c, s) ==
    Save([s EXCEPT !.posts = With(@, Row(q, [by |-> c.who, status |-> "published"]))])

\* The second round of publishing, or of any call that tells a member of it.
Notify(q, c, s) ==
    Save([s EXCEPT !.notifications =
            With(@, Row(q, [to |-> c.to, read |-> FALSE,
                            about |-> IF c.op = "publish" THEN q ELSE c.about]))])

\* The post a client names is not looked up.
AddComment(q, c, s) ==
    Save([s EXCEPT !.comments =
            With(@, Row(q, [by |-> c.who, post |-> c.post, status |-> "published"]))])

ModerateByAll(c, s, t) ==                        \* mutant
    IF c.row \in DOMAIN s[t]
    THEN Save([s EXCEPT ![t][c.row].status = c.status]) ELSE Deny

Moderate(c, s, t) ==
    IF c.who \in Staff /\ c.row \in DOMAIN s[t]
    THEN Save([s EXCEPT ![t][c.row].status = c.status]) ELSE Deny

\* setCommunityReaction: the second reaction takes the first one out of the
\* store it writes, which deletes nothing.
React(q, c, s) ==
    LET mine == {i \in DOMAIN s.reactions : s.reactions[i] = [by |-> c.who, post |-> c.post]}
    IN Save([s EXCEPT !.reactions =
               IF mine = {} THEN With(@, Row(q, [by |-> c.who, post |-> c.post]))
               ELSE [i \in (DOMAIN @) \ mine |-> @[i]]])

MarkRead(c, s) ==
    IF c.row \in DOMAIN s.notifications /\ s.notifications[c.row].to = c.who
    THEN Save([s EXCEPT !.notifications[c.row].read = TRUE]) ELSE Deny

RoundsNotifyFirst(c) ==                          \* mutant
    IF c.op = "publish" THEN <<"notify", "publish">> ELSE <<c.op>>

Rounds(c) == IF c.op = "publish" THEN <<"publish", "notify">> ELSE <<c.op>>

\* Participation privacy has no table: setting it rewrites all the others.
Decide(q, c, step, s) ==
    CASE step = "publish" -> Publish(q, c, s)
      [] step = "notify" -> Notify(q, c, s)
      [] step = "comment" -> AddComment(q, c, s)
      [] step = "moderatePost" -> Moderate(c, s, "posts")
      [] step = "moderateComment" -> Moderate(c, s, "comments")
      [] step = "react" -> React(q, c, s)
      [] step = "read" -> MarkRead(c, s)
      [] step = "privacy" -> Save(s)

(* The client of a request with an access token reads and writes by policy. *)

Free(c) == c.who \notin SignedIn

Shown(c, t, row) ==
    CASE t \in {"posts", "comments"} ->
            row.status = "published" \/ row.by = c.who \/ c.who \in Staff
      [] t = "reactions" -> TRUE
      [] t = "notifications" -> row.to = c.who \/ c.who \in Staff

Visible(c, stored, t) ==
    IF Free(c) THEN stored[t]
    ELSE [i \in {j \in DOMAIN stored[t] : Shown(c, t, stored[t][j])} |-> stored[t][i]]

\* Every row proposed must pass the insert policy, also one that is stored
\* already; a stored one must pass the update policy, and reactions have none.
Permitted(c, stored, t, rows) ==
    CASE t \in {"posts", "comments"} -> \A i \in DOMAIN rows : rows[i].by = c.who
      [] t = "reactions" -> /\ \A i \in DOMAIN rows : rows[i].by = c.who
                            /\ DOMAIN rows \cap DOMAIN stored.reactions = {}
      [] t = "notifications" -> \A i \in DOMAIN rows \cap DOMAIN stored.notifications :
                                   Shown(c, t, stored.notifications[i])

AcceptsOrphans(c, stored, t, rows) ==            \* mutant
    /\ t = "reactions" => Unique(With(stored.reactions, rows), LAMBDA row : row)
    /\ Free(c) \/ Permitted(c, stored, t, rows)

Accepts(c, stored, t, rows) ==
    /\ t = "comments" => Refer(rows, LAMBDA row : row.post, stored.posts)
    /\ t = "reactions" => Unique(With(stored.reactions, rows), LAMBDA row : row)
    /\ Free(c) \/ Permitted(c, stored, t, rows)

INSTANCE WriteBack

Init == Idle /\ db \in FirstStores

Spec == Init /\ [][Next]_vars

-----------------------------------------------------------------------------
(* Properties.                                                             *)

\* The tables hold what their columns allow; a comment on a post nobody stored
\* is not among them, though the call that adds it never looks the post up.
TypeOK ==
    /\ WellFormed(db)
    /\ \A i \in DOMAIN db.comments : db.comments[i].post \in DOMAIN db.posts
    /\ pc \in [Requests -> {"idle", "reading", "writing", "ok", "rejected", "error", "lost"}]
    /\ loaded \in [Requests -> SUBSET Tables] /\ todo \in [Requests -> SUBSET Tables]
    /\ failed \in [Requests -> BOOLEAN]

\* Nobody is told of a post that is not there: the notification of a new post
\* is a second load and write, and either write may fail or be the last.
AnnouncedPostsExist ==
    \A n \in DOMAIN db.notifications :
        db.notifications[n].about \in Requests => db.notifications[n].about \in DOMAIN db.posts

\* What a client was told is stored, whichever of the parallel upserts failed
\* and whatever stale store was written since: posts with their notification,
\* and comments.
AnsweredCallsTookEffect ==
    \A q \in Requests : pc[q] = "ok" =>
        /\ call[q].op = "publish" => /\ q \in DOMAIN db.posts
                                     /\ q \in DOMAIN db.notifications
        /\ call[q].op = "comment" => q \in DOMAIN db.comments
        /\ call[q].op = "notify" => q \in DOMAIN db.notifications

\* Rows outlive every snapshot: one read too early, or not at all, or through
\* the policies of one member, takes no row away and changes no author.
NothingIsTakenAway ==
    [][/\ \A t \in Tables : DOMAIN db[t] \subseteq DOMAIN db'[t]
       /\ \A p \in DOMAIN db.posts : db'.posts[p].by = db.posts[p].by
       /\ \A n \in DOMAIN db.notifications : db'.notifications[n].to = db.notifications[n].to]_db

WritesPosts(q) == "posts" \in todo[q] /\ "posts" \notin todo'[q]

\* A hidden post is public again only by a moderator's decision, or because a
\* request that read it before it was hidden wrote its old store back.
OnlyStaleStoresRepublish ==
    [][\A p \in DOMAIN db.posts \cap DOMAIN db'.posts :
          db.posts[p].status = "hidden" /\ db'.posts[p].status = "published" =>
             \E q \in Requests :
                /\ WritesPosts(q)
                /\ \/ call[q].op = "moderatePost" /\ call[q].who \in Staff
                   \/ p \in DOMAIN seen[q].posts /\ seen[q].posts[p].status = "published"]_db
=============================================================================
