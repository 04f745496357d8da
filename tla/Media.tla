------------------------------- MODULE Media --------------------------------
(***************************************************************************)
(* Files people upload and what they are shown with.  The bytes are in the *)
(* object store, a row of media_assets stands for each file and rows of    *)
(* media_references link it to businesses, homes, profiles and the like.   *)
(* Every call loads both tables, moves bytes, and writes both tables back. *)
(*                                                                         *)
(* Requests with an access token read and write the rows under row-level   *)
(* security; the object store is always used with the service's own key.   *)
(* Names, types and sizes, checked before anything is read, are left out.  *)
(***************************************************************************)
EXTENDS Naturals, Sequences, FiniteSets, Stores

CONSTANTS Requests, Calls, MaxInFlight,
          Faults,          \* those of WriteBack, and "bytes": the object store's
          NoCall, NoLink, BadLink,
          People,
          Staff,           \* moderators and administrators of the tenant
          SignedIn,        \* whose requests carry an access token
          Entities,        \* what a file may be shown with
          Seeded,          \* ids of rows stored before the first request
          FirstStores      \* the stores the first request may find, all with bytes

VARIABLES db, pc, call, round, seen, loaded, out, todo, failed,
          blobs            \* the assets whose bytes the object store holds

Ids == Requests \cup Seeded
Purposes == {"cover", "attachment"}

MediaAsset == [by : People, status : {"ready", "failed", "deleted"}]
MediaReference == [media : Ids, entity : Entities, purpose : Purposes, by : People]

Tables == {"assets", "references"}
Rank == [assets |-> 1, references |-> 2]

Place == [entity : Entities, purpose : Purposes]

WellFormed(s) ==
    /\ s = [assets |-> s.assets, references |-> s.references]
    /\ s.assets \in [DOMAIN s.assets -> MediaAsset]
    /\ s.references \in [DOMAIN s.references -> MediaReference]

\* A link is unique, and its file is there.
LinksAreSound(s) ==
    /\ Refer(s.references, LAMBDA row : row.media, s.assets)
    /\ Unique(s.references, LAMBDA row : <<row.media, row.entity, row.purpose>>)

ASSUME MediaCalls ==
    \A c \in Calls :
        /\ c.op \in {"upload", "delete", "link"} /\ c.who \in People
        /\ c.op = "upload" => c.link \in Place \cup {NoLink, BadLink}
        /\ c.op = "link" => c.link \in Place

ASSUME MediaSeeds ==
    /\ Requests \cap Seeded = {}
    /\ \A s \in FirstStores : /\ WellFormed(s) /\ LinksAreSound(s)
                              /\ DOMAIN s.assets \cup DOMAIN s.references \subseteq Seeded

Link(media, c) ==
    [media |-> media, entity |-> c.link.entity, purpose |-> c.link.purpose, by |-> c.who]

\* A link exists whoever made it.
Linked(s, r) ==
    \E i \in DOMAIN s.references : [s.references[i] EXCEPT !.by = r.by] = r

ReadyWhateverHappened(q, c, outcome, s) ==        \* mutant
    IF c.link = BadLink THEN Deny
    ELSE Save([
        assets |-> With(s.assets, Row(q, [by |-> c.who, status |-> "ready"])),
        references |-> IF c.link = NoLink THEN s.references
                       ELSE With(s.references, Row(q, Link(q, c)))])

\* A file whose bytes did not arrive is kept as failed and linked to nothing;
\* a link that makes no sense is noticed once they have.
Upload(q, c, outcome, s) ==
    IF outcome = "ready" /\ c.link = BadLink THEN Deny
    ELSE Save([
        assets |-> With(s.assets, Row(q, [by |-> c.who, status |-> outcome])),
        references |-> IF outcome = "failed" \/ c.link = NoLink THEN s.references
                       ELSE With(s.references, Row(q, Link(q, c)))])

\* actorCanDeleteMedia, and actorCanLinkMedia of a file that did arrive
Governs(c, s) == /\ c.row \in DOMAIN s.assets /\ s.assets[c.row].status # "deleted"
                 /\ c.who \in Staff \/ s.assets[c.row].by = c.who

Delete(c, s) == IF Governs(c, s) THEN Save([s EXCEPT !.assets[c.row].status = "deleted"]) ELSE Deny

LinkReference(q, c, s) ==
    IF ~Governs(c, s) \/ s.assets[c.row].status = "failed" THEN Deny
    ELSE IF Linked(s, Link(c.row, c)) THEN Skip
    ELSE Save([s EXCEPT !.references = With(@, Row(q, Link(c.row, c)))])

Decide(q, c, outcome, s) ==
    CASE c.op = "upload" -> Upload(q, c, outcome, s)
      [] c.op = "delete" -> Delete(c, s)
      [] c.op = "link" -> LinkReference(q, c, s)

(* The policies of the two tables. *)

Free(c) == c.who \notin SignedIn

Owns(c, i, assets) == i \in DOMAIN assets /\ assets[i].by = c.who

Public(i, stored) ==
    \E r \in DOMAIN stored.references :
        stored.references[r].media = i /\ stored.references[r].purpose = "cover"

Shown(c, stored, t, row, i) ==
    CASE t = "assets" ->
            /\ row.status # "deleted"
            /\ \/ row.by = c.who \/ c.who \in Staff
               \/ row.status = "ready" /\ Public(i, stored)
      [] t = "references" ->
            \/ row.by = c.who \/ c.who \in Staff
            \/ row.purpose = "cover" \/ Owns(c, row.media, stored.assets)

Visible(c, stored, t) ==
    IF Free(c) THEN stored[t]
    ELSE [i \in {j \in DOMAIN stored[t] : Shown(c, stored, t, stored[t][j], j)} |-> stored[t][i]]

PermittedUnseen(c, stored, t, rows) ==            \* mutant
    \A i \in DOMAIN rows :
        /\ rows[i].by = c.who
        /\ t = "references" => i \notin DOMAIN stored.references

\* An upsert needs the right to insert each row and to see it, as it is stored
\* and as it will be; a stored reference may not be updated at all.
Permitted(c, stored, t, rows) ==
    CASE t = "assets" -> \A i \in DOMAIN rows :
            /\ rows[i].by = c.who /\ rows[i].status # "deleted"
            /\ i \in DOMAIN stored.assets => stored.assets[i].status # "deleted"
      [] t = "references" -> \A i \in DOMAIN rows :
            /\ i \notin DOMAIN stored.references /\ rows[i].by = c.who
            /\ rows[i].media \in DOMAIN stored.assets
            /\ stored.assets[rows[i].media].status # "deleted"
            /\ c.who \in Staff \/ stored.assets[rows[i].media].by = c.who

AcceptsTwice(c, stored, t, rows) ==               \* mutant
    /\ t = "references" => Refer(rows, LAMBDA row : row.media, stored.assets)
    /\ Free(c) \/ Permitted(c, stored, t, rows)

\* A link is unique, and to an asset that is stored.
Accepts(c, stored, t, rows) ==
    /\ t = "references" =>
          /\ Refer(rows, LAMBDA row : row.media, stored.assets)
          /\ Unique(With(stored.references, rows),
                    LAMBDA row : <<row.media, row.entity, row.purpose>>)
    /\ Free(c) \/ Permitted(c, stored, t, rows)

-----------------------------------------------------------------------------
Rounds(c) == <<c.op>>
Critical == Tables

WB == INSTANCE WriteBack

vars == <<WB!vars, blobs>>

Init == WB!Idle /\ db \in FirstStores /\ blobs = DOMAIN db.assets

\* The bytes go to the object store, or from it, between the SELECTs and the
\* upserts.  It may fail with the transfer done, or not; a deletion goes on.
Moves(q, outcome) ==
    LET c == call[q]
        Fails == "bytes" \in Faults
    IN CASE c.op = "upload" -> \/ outcome = "ready" /\ blobs' = blobs \cup {q}
                               \/ Fails /\ outcome = "failed" /\ blobs' \in {blobs, blobs \cup {q}}
         [] c.op = "delete" /\ Governs(c, seen[q]) ->
                /\ outcome = "ready"
                /\ blobs' = blobs \ {c.row} \/ (Fails /\ UNCHANGED blobs)
         [] OTHER -> outcome = "ready" /\ UNCHANGED blobs

Settle(q) == /\ pc[q] = "reading" /\ loaded[q] = Tables
             /\ \E outcome \in {"ready", "failed"} :
                   Moves(q, outcome) /\ WB!Act(q, Decide(q, call[q], outcome, seen[q]))

UploadFailed(q) == call[q].op = "upload" /\ out[q].assets[q].status = "failed"

\* A failed upload is refused once its row is stored.
Finish(q) ==
    /\ UNCHANGED blobs
    /\ IF pc[q] = "writing" /\ todo[q] = {} /\ ~failed[q] /\ UploadFailed(q)
       THEN WB!End(q, "rejected")
       ELSE WB!Finish(q)

Step(q) == \/ /\ UNCHANGED blobs
              /\ \E t \in Tables : \/ WB!Read(q, t) \/ WB!FailRead(q, t)
                                   \/ WB!Commit(q, t) \/ WB!FailWrite(q, t)
           \/ Settle(q) \/ Finish(q)

Next == \E q \in Requests :
           \/ Step(q)
           \/ /\ UNCHANGED blobs
              /\ WB!Crash(q) \/ \E c \in Calls : WB!Start(q, c)

Spec == Init /\ [][Next]_vars

-----------------------------------------------------------------------------
(* Properties.                                                             *)

\* The tables hold what their columns allow: a link is unique and its file is
\* there, though two calls may make the same link at once.
TypeOK ==
    /\ WellFormed(db) /\ LinksAreSound(db)
    /\ DOMAIN db.assets \subseteq Ids /\ blobs \subseteq Ids
    /\ pc \in [Requests -> {"idle", "reading", "writing", "ok", "rejected", "error", "lost"}]

\* A file that is offered has its bytes, whichever store failed or whatever
\* snapshot was written last, unless its owner or the staff have asked to
\* delete it: the bytes go first then, and the row may keep saying ready.
ReadyAssetsHaveBytes ==
    \A i \in DOMAIN db.assets : db.assets[i].status = "ready" =>
        \/ i \in blobs
        \/ \E q \in Requests :
              /\ pc[q] \notin {"idle", "reading", "rejected"}
              /\ call[q].op = "delete" /\ call[q].row = i
              /\ call[q].who \in Staff \cup {db.assets[i].by}

\* What a client was told is stored: an upload with its link, and a link, also
\* when two calls made it at once or one of the two tables could not be written.
AnsweredCallsTookEffect ==
    \A q \in Requests : pc[q] = "ok" =>
        /\ call[q].op = "upload" => q \in DOMAIN db.assets
        /\ call[q].op = "upload" /\ call[q].link \notin {NoLink, BadLink} =>
              Linked(db, Link(q, call[q]))
        /\ call[q].op = "link" => Linked(db, Link(call[q].row, call[q]))

\* A deleted file is offered again only because a request that read it before
\* the deletion wrote its old store back, and never by a client with a token.
OnlyStaleStoresRestore ==
    [][\A i \in DOMAIN db.assets \cap DOMAIN db'.assets :
          db.assets[i].status = "deleted" /\ db'.assets[i].status # "deleted" =>
             \E q \in Requests :
                /\ "assets" \in todo[q] /\ "assets" \notin todo'[q]
                /\ call[q].who \notin SignedIn
                /\ i \in DOMAIN seen[q].assets
                /\ seen[q].assets[i].status = db'.assets[i].status]_db
=============================================================================
