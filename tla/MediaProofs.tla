---------------------------- MODULE MediaProofs -----------------------------
(***************************************************************************)
(* Files and their bytes for any people, requests, stores and failures.    *)
(*                                                                         *)
(* The rows of a file never change hands and links are never changed, so   *)
(* what a request has read of them stays true however old its snapshot is. *)
(* Bytes go away only for a deletion that the owner or the staff asked     *)
(* for, and once one is under way it is never taken back: a snapshot that  *)
(* still offers the file is explained by it.                               *)
(***************************************************************************)
EXTENDS Media, TLAPS

USE MediaCalls, MediaSeeds

PCs == {"idle", "reading", "writing", "ok", "rejected", "error", "lost"}

InPlay(q) == pc[q] \in {"reading", "writing"}

Typed ==
    /\ WellFormed(db) /\ LinksAreSound(db)
    /\ DOMAIN db.assets \subseteq Ids /\ blobs \subseteq Ids
    /\ pc \in [Requests -> PCs]
    /\ call \in [Requests -> Calls \cup {NoCall}]
    /\ round \in [Requests -> Nat]
    /\ DOMAIN seen = Requests /\ DOMAIN out = Requests
    /\ seen = [q \in Requests |-> seen[q]] /\ out = [q \in Requests |-> out[q]]
    /\ \A q \in Requests : WellFormed(seen[q]) /\ WellFormed(out[q])
    /\ loaded \in [Requests -> SUBSET Tables]
    /\ todo \in [Requests -> SUBSET Tables]
    /\ failed \in [Requests -> BOOLEAN]
    /\ \A q \in Requests : pc[q] # "idle" => call[q] \in Calls
    /\ \A q \in Requests : InPlay(q) => round[q] = 1

\* A deletion of file i, asked for by its owner p or by the staff, has got as
\* far as its bytes.
Erased(i, p) ==
    \E r \in Requests : /\ pc[r] \notin {"idle", "reading", "rejected"}
                        /\ call[r].op = "delete" /\ call[r].row = i
                        /\ call[r].who \in Staff \cup {p}

\* Whatever a store offers has its bytes, or has lost them to such a deletion.
Backed(s) == \A i \in DOMAIN s.assets :
                s.assets[i].status = "ready" => i \in blobs \/ Erased(i, s.assets[i].by)

\* The link a call makes.
LinkOf(q) == IF call[q].op = "upload" THEN Link(q, call[q]) ELSE Link(call[q].row, call[q])

\* A row with the id of a request was stored by that request.
Own(q) ==
    /\ q \in DOMAIN db.assets =>
          /\ pc[q] \notin {"idle", "reading"}
          /\ call[q].op = "upload" /\ db.assets[q].by = call[q].who
    /\ q \in DOMAIN db.references =>
          pc[q] \notin {"idle", "reading"} /\ db.references[q] = LinkOf(q)

\* What a request has read is there, whoever governs it.
Agrees(q) ==
    /\ \A i \in DOMAIN seen[q].assets :
          i \in DOMAIN db.assets /\ seen[q].assets[i].by = db.assets[i].by
    /\ \A i \in DOMAIN seen[q].references :
          i \in DOMAIN db.references /\ seen[q].references[i] = db.references[i]

\* What one decision makes of the store it was taken on.
Decided(q, c, s, new) ==
    /\ WellFormed(new)
    /\ \A i \in DOMAIN new.assets :
          \/ /\ i \in DOMAIN s.assets /\ new.assets[i].by = s.assets[i].by
             /\ new.assets[i].status \in {"deleted", s.assets[i].status}
          \/ i = q /\ c.op = "upload" /\ new.assets[i].by = c.who
    /\ \A i \in DOMAIN new.references :
          \/ i \in DOMAIN s.references /\ new.references[i] = s.references[i]
          \/ /\ i = q
             /\ new.references[i] = IF c.op = "upload" THEN Link(q, c) ELSE Link(c.row, c)
    /\ c.op = "upload" =>
          /\ q \in DOMAIN new.assets
          /\ new.assets[q].status # "failed" /\ c.link # NoLink =>
                c.link # BadLink /\ q \in DOMAIN new.references
    /\ c.op = "link" => q \in DOMAIN new.references

Writes(q) ==
    pc[q] = "writing" =>
        /\ Decided(q, call[q], seen[q], out[q])
        /\ failed[q] \/ \A t \in Tables : DOMAIN out[q][t] \subseteq DOMAIN db[t] \/ t \in todo[q]
        /\ "assets" \in todo[q] => q \notin DOMAIN db.assets

Reached(q) ==
    pc[q] = "ok" =>
        /\ call[q].op = "upload" => q \in DOMAIN db.assets
        /\ call[q].op = "upload" /\ call[q].link \notin {NoLink, BadLink} =>
              Linked(db, Link(q, call[q]))
        /\ call[q].op = "link" => Linked(db, Link(call[q].row, call[q]))

Covered(q) == Backed(seen[q]) /\ (pc[q] = "writing" => Backed(out[q]))

Knows(q) == Own(q) /\ Agrees(q) /\ Writes(q) /\ Reached(q) /\ Covered(q)

Inv == Typed /\ Backed(db) /\ \A q \in Requests : Knows(q)

\* What every step does to the tables.
Grows ==
    /\ WellFormed(db') /\ LinksAreSound(db') /\ DOMAIN db'.assets \subseteq Ids
    /\ DOMAIN db.assets \subseteq DOMAIN db'.assets
    /\ DOMAIN db.references \subseteq DOMAIN db'.references
    /\ \A i \in DOMAIN db.assets : db'.assets[i].by = db.assets[i].by
    /\ \A i \in DOMAIN db.references : db'.references[i] = db.references[i]

Same(q) == /\ pc'[q] = pc[q] /\ call'[q] = call[q] /\ round'[q] = round[q]
           /\ seen'[q] = seen[q] /\ out'[q] = out[q]
           /\ todo'[q] = todo[q] /\ failed'[q] = failed[q]

-----------------------------------------------------------------------------
(* Stores and decisions.                                                   *)

LEMMA NothingIsWellFormed ==
    /\ WellFormed(WB!Nothing)
    /\ DOMAIN WB!Nothing.assets = {} /\ DOMAIN WB!Nothing.references = {}
<1>1. WB!Nothing = [assets |-> <<>>, references |-> <<>>]
  BY DEF WB!Nothing, Tables
<1>2. /\ DOMAIN <<>> = {}
      /\ \A S : <<>> \in [DOMAIN <<>> -> S]
  OBVIOUS
<1> QED
  BY <1>1, <1>2 DEF WellFormed

LEMMA UploadDecides ==
    ASSUME NEW q \in Requests, NEW c \in Calls, c.op = "upload",
           NEW s, WellFormed(s), NEW outcome \in {"ready", "failed"}
    PROVE  /\ Upload(q, c, outcome, s).verdict \in {"save", "deny"}
           /\ Upload(q, c, outcome, s).verdict = "save" =>
                 /\ Decided(q, c, s, Upload(q, c, outcome, s).store)
                 /\ Upload(q, c, outcome, s).store.assets[q].status = outcome
<1> DEFINE asset == [by |-> c.who, status |-> outcome]
           assets == With(s.assets, Row(q, asset))
           refs == IF outcome = "failed" \/ c.link = NoLink THEN s.references
                   ELSE With(s.references, Row(q, Link(q, c)))
           new == [assets |-> assets, references |-> refs]
<1>1. CASE outcome = "ready" /\ c.link = BadLink
  BY <1>1 DEF Upload, Deny
<1>2. CASE ~ (outcome = "ready" /\ c.link = BadLink)
  <2>1. Upload(q, c, outcome, s) = Save(new)
    BY <1>2 DEF Upload
  <2>2. asset \in MediaAsset /\ s.assets \in [DOMAIN s.assets -> MediaAsset]
    BY DEF MediaAsset, WellFormed
  <2>a. asset.by = c.who /\ asset.status = outcome
    OBVIOUS
  <2> HIDE DEF asset
  <2>3. /\ assets \in [DOMAIN assets -> MediaAsset]
        /\ DOMAIN assets = DOMAIN s.assets \cup {q} /\ assets[q] = asset
        /\ \A j \in DOMAIN s.assets : j # q => assets[j] = s.assets[j]
    BY <2>2 DEF With, Row
  <2>4. /\ refs \in [DOMAIN refs -> MediaReference]
        /\ \A i \in DOMAIN refs :
              \/ i \in DOMAIN s.references /\ refs[i] = s.references[i]
              \/ i = q /\ refs[i] = Link(q, c)
        /\ outcome # "failed" /\ c.link # NoLink => q \in DOMAIN refs
    <3>1. s.references \in [DOMAIN s.references -> MediaReference]
      BY DEF WellFormed
    <3>2. CASE outcome = "failed" \/ c.link = NoLink
      BY <3>1, <3>2
    <3>3. CASE outcome # "failed" /\ c.link # NoLink
      <4>1. c.link \in Place
        BY <1>2, <3>3
      <4>2. Link(q, c) \in MediaReference
        BY <4>1 DEF Link, MediaReference, Place, Ids
      <4>3. refs = With(s.references, Row(q, Link(q, c)))
        BY <3>3
      <4> HIDE DEF refs
      <4> QED  BY <3>1, <3>3, <4>2, <4>3 DEF With, Row
    <3> QED  BY <3>2, <3>3
  <2> HIDE DEF assets, refs
  <2>6. WellFormed(new)
    BY <2>3, <2>4 DEF WellFormed
  <2>7. Decided(q, c, s, new)
    BY <1>2, <2>3, <2>4, <2>6, <2>a DEF Decided
  <2>8. new.assets[q].status = outcome
    BY <2>3, <2>a
  <2> HIDE DEF new
  <2> QED  BY <2>1, <2>7, <2>8 DEF Save
<1> QED  BY <1>1, <1>2

LEMMA DeleteDecides ==
    ASSUME NEW q \in Requests, NEW c \in Calls, c.op = "delete", NEW s, WellFormed(s)
    PROVE  /\ Delete(c, s).verdict \in {"save", "deny"}
           /\ Delete(c, s).verdict = "save" =>
                 /\ Governs(c, s) /\ Decided(q, c, s, Delete(c, s).store)
                 /\ Delete(c, s).store.assets = [s.assets EXCEPT ![c.row].status = "deleted"]
<1>1. CASE ~ Governs(c, s)
  BY <1>1 DEF Delete, Deny
<1>2. CASE Governs(c, s)
  <2> DEFINE assets == [s.assets EXCEPT ![c.row].status = "deleted"]
             new == [s EXCEPT !.assets = assets]
  <2>1. Delete(c, s) = Save(new)
    BY <1>2 DEF Delete
  <2>2. s.assets \in [DOMAIN s.assets -> MediaAsset]
    BY DEF WellFormed
  <2>3. /\ DOMAIN assets = DOMAIN s.assets
        /\ \A i \in DOMAIN assets : /\ assets[i] \in MediaAsset
                                    /\ assets[i].by = s.assets[i].by
                                    /\ assets[i].status \in {"deleted", s.assets[i].status}
    <3>1. \A i \in DOMAIN s.assets : s.assets[i] \in MediaAsset
      BY <2>2
    <3> QED  BY <3>1 DEF MediaAsset
  <2>4. assets \in [DOMAIN assets -> MediaAsset]
    BY <2>2, <2>3
  <2> HIDE DEF assets
  <2>5. new = [assets |-> assets, references |-> s.references]
    BY DEF WellFormed
  <2>6. WellFormed(new)
    BY <2>4, <2>5 DEF WellFormed
  <2>7. Decided(q, c, s, new)
    BY <2>3, <2>5, <2>6 DEF Decided
  <2> QED  BY <1>2, <2>1, <2>5, <2>7 DEF Save, assets
<1> QED  BY <1>1, <1>2

LEMMA LinkDecides ==
    ASSUME NEW q \in Requests, NEW c \in Calls, c.op = "link", NEW s, WellFormed(s),
           DOMAIN s.assets \subseteq Ids
    PROVE  /\ LinkReference(q, c, s).verdict \in {"save", "deny", "skip"}
           /\ LinkReference(q, c, s).verdict = "skip" => Linked(s, Link(c.row, c))
           /\ LinkReference(q, c, s).verdict = "save" =>
                 /\ Decided(q, c, s, LinkReference(q, c, s).store)
                 /\ LinkReference(q, c, s).store.assets = s.assets
<1>1. CASE ~ Governs(c, s) \/ s.assets[c.row].status = "failed"
  BY <1>1 DEF LinkReference, Deny
<1>2. CASE /\ ~ (~ Governs(c, s) \/ s.assets[c.row].status = "failed")
           /\ Linked(s, Link(c.row, c))
  BY <1>2 DEF LinkReference, Skip
<1>3. CASE /\ ~ (~ Governs(c, s) \/ s.assets[c.row].status = "failed")
           /\ ~ Linked(s, Link(c.row, c))
  <2> DEFINE refs == With(s.references, Row(q, Link(c.row, c)))
             new == [s EXCEPT !.references = refs]
  <2>1. LinkReference(q, c, s) = Save(new)
    BY <1>3 DEF LinkReference
  <2>2. Link(c.row, c) \in MediaReference
    BY <1>3 DEF Governs, Link, MediaReference, Place
  <2>3. s.references \in [DOMAIN s.references -> MediaReference]
    BY DEF WellFormed
  <2>4. /\ refs \in [DOMAIN refs -> MediaReference]
        /\ DOMAIN refs = DOMAIN s.references \cup {q} /\ refs[q] = Link(c.row, c)
        /\ \A j \in DOMAIN s.references : j # q => refs[j] = s.references[j]
    BY <2>2, <2>3 DEF With, Row
  <2> HIDE DEF refs
  <2>5. new = [assets |-> s.assets, references |-> refs]
    BY DEF WellFormed
  <2>6. WellFormed(new)
    BY <2>4, <2>5 DEF WellFormed
  <2>7. Decided(q, c, s, new)
    BY <2>4, <2>5, <2>6 DEF Decided
  <2> QED  BY <2>1, <2>5, <2>7 DEF Save
<1> QED  BY <1>1, <1>2, <1>3

\* Every call decides within these limits, and offers a file of its own only if
\* its bytes have arrived.
LEMMA DecideDecides ==
    ASSUME NEW q \in Requests, NEW c \in Calls, NEW outcome \in {"ready", "failed"},
           NEW s, WellFormed(s), DOMAIN s.assets \subseteq Ids
    PROVE  LET does == Decide(q, c, outcome, s)
           IN /\ does.verdict \in {"save", "deny", "skip"}
              /\ does.verdict = "skip" => c.op = "link" /\ Linked(s, Link(c.row, c))
              /\ does.verdict = "save" =>
                    /\ Decided(q, c, s, does.store)
                    /\ c.op = "upload" => does.store.assets[q].status = outcome
                    /\ c.op = "delete" => does.store.assets[c.row].status = "deleted"
              /\ c.op = "delete" => (does.verdict = "save" <=> Governs(c, s))
<1> DEFINE does == Decide(q, c, outcome, s)
<1>1. CASE c.op = "upload"
  <2>1. does = Upload(q, c, outcome, s)
    BY <1>1 DEF Decide
  <2> QED  BY <1>1, <2>1, UploadDecides
<1>2. CASE c.op = "delete"
  <2>1. does = Delete(c, s)
    BY <1>2 DEF Decide
  <2>2. Governs(c, s) => [s.assets EXCEPT ![c.row].status = "deleted"][c.row].status = "deleted"
    <3> SUFFICES ASSUME Governs(c, s)
                 PROVE  [s.assets EXCEPT ![c.row].status = "deleted"][c.row].status = "deleted"
      OBVIOUS
    <3>1. c.row \in DOMAIN s.assets /\ s.assets[c.row] \in MediaAsset
      BY DEF Governs, WellFormed
    <3> QED  BY <3>1 DEF MediaAsset
  <2>3. Governs(c, s) => Delete(c, s).verdict = "save"
    BY DEF Delete, Save
  <2> QED  BY <1>2, <2>1, <2>2, <2>3, DeleteDecides
<1>3. CASE c.op = "link"
  <2>1. does = LinkReference(q, c, s)
    BY <1>3 DEF Decide
  <2> QED  BY <1>3, <2>1, LinkDecides
<1> QED  BY <1>1, <1>2, <1>3

-----------------------------------------------------------------------------
(* What one request does, and what the others know.                        *)

Held(i, p) == i \in blobs \/ Erased(i, p)

\* What a governed file has, or the deletion that explains what it lacks, stays.
Keeps == \A i, p : /\ i \in DOMAIN db.assets => p = db.assets[i].by
                   /\ Held(i, p)
                   => Held(i, p)'

LEMMA InitInv == Init => Inv
<1> SUFFICES ASSUME Init PROVE Inv
  OBVIOUS
<1>1. Typed
  BY NothingIsWellFormed DEF Init, WB!Idle, Typed, InPlay, PCs, Ids
<1>2. Backed(db)
  BY DEF Init, Backed
<1>3. ASSUME NEW q \in Requests PROVE Knows(q)
  <2>1. pc[q] = "idle" /\ seen[q] = WB!Nothing
    BY DEF Init, WB!Idle
  <2>2. q \notin DOMAIN db.assets /\ q \notin DOMAIN db.references
    BY DEF Init
  <2> QED
    BY <2>1, <2>2, NothingIsWellFormed DEF Knows, Own, Agrees, Writes, Reached, Covered, Backed
<1> QED  BY <1>1, <1>2, <1>3 DEF Inv

LEMMA LinkedStays ==
    ASSUME Grows, NEW r, Linked(db, r)
    PROVE  Linked(db', r)
BY DEF Linked, Grows

\* A request's own rows and what it read are governed by whom the tables say.
LEMMA CoveredStays ==
    ASSUME Inv, Keeps, NEW q \in Requests, Same(q)
    PROVE  Covered(q)'
<1>1. Knows(q)
  BY DEF Inv
<1>2. ASSUME NEW i \in DOMAIN seen[q].assets, seen[q].assets[i].status = "ready",
             NEW p, p = seen[q].assets[i].by
      PROVE  Held(i, p)'
  <2>1. Held(i, p) /\ p = db.assets[i].by
    BY <1>1, <1>2 DEF Knows, Covered, Backed, Held, Agrees
  <2> QED  BY <2>1 DEF Keeps
<1>3. ASSUME pc[q] = "writing", NEW i \in DOMAIN out[q].assets,
             out[q].assets[i].status = "ready", NEW p, p = out[q].assets[i].by
      PROVE  Held(i, p)'
  <2>1. Held(i, p)
    BY <1>1, <1>3 DEF Knows, Covered, Backed, Held
  <2>2. \/ i \in DOMAIN seen[q].assets /\ p = seen[q].assets[i].by
        \/ i = q /\ p = call[q].who
    BY <1>1, <1>3 DEF Knows, Writes, Decided
  <2>3. i \in DOMAIN db.assets => p = db.assets[i].by
    BY <1>1, <2>2 DEF Knows, Agrees, Own
  <2> QED  BY <2>1, <2>3 DEF Keeps
<1>4. Backed(seen[q])'
  BY <1>2 DEF Same, Backed, Held
<1>5. pc'[q] = "writing" => Backed(out[q])'
  BY <1>3 DEF Same, Backed, Held
<1> QED  BY <1>4, <1>5 DEF Covered

\* The step of one request leaves what the others know true.
LEMMA OthersKnow ==
    ASSUME Inv, Grows, Keeps, NEW q \in Requests, Same(q),
           q \in DOMAIN db'.assets => q \in DOMAIN db.assets,
           q \in DOMAIN db'.references => q \in DOMAIN db.references
    PROVE  Knows(q)'
<1>1. Knows(q)
  BY DEF Inv
<1>2. Own(q)'
  BY <1>1 DEF Knows, Own, Grows, Same, LinkOf
<1>3. Agrees(q)'
  BY <1>1 DEF Knows, Agrees, Grows, Same
<1>4. Writes(q)'
  <2>1. \A t \in Tables : DOMAIN db[t] \subseteq DOMAIN db'[t]
    BY DEF Grows, Tables
  <2> QED  BY <1>1, <2>1 DEF Knows, Writes, Same
<1>5. Reached(q)'
  BY <1>1, LinkedStays DEF Knows, Reached, Grows, Same
<1> QED  BY <1>2, <1>3, <1>4, <1>5, CoveredStays DEF Knows

LEMMA QuietRequest ==
    ASSUME Inv, NEW q \in Requests, UNCHANGED db, Typed', Knows(q)', Keeps,
           \A r \in Requests \ {q} : Same(r)
    PROVE  Inv'
<1>1. Grows
  BY DEF Grows, Inv, Typed
<1>2. Backed(db)'
  BY DEF Inv, Backed, Keeps, Held
<1> QED  BY <1>1, <1>2, OthersKnow DEF Inv

\* Deletions are never taken back: a step that loses no bytes keeps them all.
LEMMA NothingLost ==
    ASSUME Inv, NEW q \in Requests, \A r \in Requests \ {q} : Same(r),
           blobs \subseteq blobs',
           pc[q] \in {"writing", "ok", "error", "lost"} /\ call[q].op = "delete" =>
              call'[q] = call[q] /\ pc'[q] \notin {"idle", "reading", "rejected"}
    PROVE  Keeps
<1>1. ASSUME NEW i, NEW p, Erased(i, p) PROVE Erased(i, p)'
  <2>1. PICK r \in Requests : /\ pc[r] \notin {"idle", "reading", "rejected"}
                              /\ call[r].op = "delete" /\ call[r].row = i
                              /\ call[r].who \in Staff \cup {p}
    BY <1>1 DEF Erased
  <2>2. pc[r] \in {"writing", "ok", "error", "lost"}
    BY <2>1 DEF Inv, Typed, PCs
  <2>3. call'[r] = call[r] /\ pc'[r] \notin {"idle", "reading", "rejected"}
    BY <2>1, <2>2 DEF Same
  <2> QED  BY <2>1, <2>3 DEF Erased
<1> QED  BY <1>1 DEF Keeps, Held

LEMMA StartStep ==
    ASSUME Inv, NEW q \in Requests, NEW c \in Calls, WB!Start(q, c), UNCHANGED blobs
    PROVE  Inv' /\ UNCHANGED db
<1> USE DEF WB!Start
<1>1. /\ pc[q] = "idle" /\ pc'[q] = "reading" /\ call'[q] = c /\ round'[q] = 1
      /\ UNCHANGED <<db, seen>>
  BY DEF Inv, Typed
<1>2. Typed'
  BY DEF Inv, Typed, InPlay, PCs
<1>3. \A r \in Requests \ {q} : Same(r)
  BY DEF Same, Inv, Typed
<1>4. Keeps
  BY <1>1, <1>3, NothingLost
<1>5. Backed(seen[q])'
  <2>1. ASSUME NEW i \in DOMAIN seen[q].assets, seen[q].assets[i].status = "ready",
               NEW p, p = seen[q].assets[i].by
        PROVE  Held(i, p)'
    <3>1. Held(i, p) /\ p = db.assets[i].by
      BY <2>1 DEF Inv, Knows, Covered, Agrees, Backed, Held
    <3> QED  BY <3>1, <1>4 DEF Keeps
  <2> QED  BY <1>1, <2>1 DEF Backed, Held
<1>6. Knows(q)'
  BY <1>1, <1>5 DEF Inv, Knows, Own, Agrees, Writes, Reached, Covered
<1> QED  BY <1>1, <1>2, <1>3, <1>4, <1>6, QuietRequest

\* The answer, or the end without one, forgets what was read.
LEMMA EndStep ==
    ASSUME Inv, NEW q \in Requests, InPlay(q),
           NEW a \in {"ok", "rejected", "error", "lost"}, WB!End(q, a),
           blobs \subseteq blobs', blobs' \subseteq Ids,
           a = "rejected" => ~(pc[q] = "writing" /\ call[q].op = "delete"),
           a = "ok" =>
              /\ call[q].op = "upload" => q \in DOMAIN db.assets
              /\ call[q].op = "upload" /\ call[q].link \notin {NoLink, BadLink} =>
                    Linked(db, Link(q, call[q]))
              /\ call[q].op = "link" => Linked(db, Link(call[q].row, call[q]))
    PROVE  Inv' /\ UNCHANGED db
<1> USE DEF WB!End, WB!Forget
<1>1. pc'[q] = a /\ seen'[q] = WB!Nothing /\ UNCHANGED <<db, call>>
  BY DEF Inv, Typed
<1>2. Typed'
  BY NothingIsWellFormed DEF Inv, Typed, InPlay, PCs
<1>3. \A r \in Requests \ {q} : Same(r)
  BY DEF Same, Inv, Typed
<1>4. Keeps
  BY <1>1, <1>3, NothingLost DEF InPlay
<1>5. Knows(q)
  BY DEF Inv
<1>6. Knows(q)'
  BY <1>1, <1>5, NothingIsWellFormed
     DEF Knows, Own, Agrees, Writes, Reached, Covered, Backed, LinkOf
<1> QED  BY <1>1, <1>2, <1>3, <1>4, <1>6, QuietRequest

LEMMA ReadStep ==
    ASSUME Inv, NEW q \in Requests, NEW t \in Tables, WB!Read(q, t), UNCHANGED blobs
    PROVE  Inv' /\ UNCHANGED db
<1> DEFINE rows == Visible(call[q], db, t)
<1> USE DEF WB!Read
<1>1. /\ pc[q] = "reading" /\ UNCHANGED <<db, pc, call, round, out, todo, failed>>
      /\ seen'[q] = [seen[q] EXCEPT ![t] = rows]
      /\ \A r \in Requests \ {q} : seen'[r] = seen[r]
  BY DEF Inv, Typed
<1>2. WellFormed(db) /\ WellFormed(seen[q]) /\ Knows(q)
  BY DEF Inv, Typed
<1>3. /\ t = "assets" => rows \in [DOMAIN rows -> MediaAsset]
      /\ t = "references" => rows \in [DOMAIN rows -> MediaReference]
      /\ DOMAIN rows \subseteq DOMAIN db[t]
      /\ \A i \in DOMAIN rows : rows[i] = db[t][i]
  BY <1>2 DEF Visible, WellFormed, Tables
<1> HIDE DEF rows
<1>4. /\ WellFormed(seen'[q]) /\ seen'[q][t] = rows
      /\ \A u \in Tables \ {t} : seen'[q][u] = seen[q][u]
  BY <1>1, <1>2, <1>3 DEF WellFormed, Tables
<1>5. Typed'
  <2>1. /\ DOMAIN seen' = Requests /\ seen' = [r \in Requests |-> seen'[r]]
        /\ loaded' \in [Requests -> SUBSET Tables]
    BY DEF Inv, Typed
  <2> QED  BY <1>1, <1>4, <2>1 DEF Inv, Typed, InPlay
<1>6. Agrees(q)'
  BY <1>1, <1>2, <1>3, <1>4 DEF Knows, Agrees, Tables
<1>7. \A r \in Requests \ {q} : Same(r)
  BY <1>1 DEF Same
<1>8. Keeps
  BY <1>1, <1>7, NothingLost
<1>9. Covered(q)'
  <2>1. ASSUME NEW i \in DOMAIN seen'[q].assets, seen'[q].assets[i].status = "ready"
        PROVE  i \in blobs \/ Erased(i, seen'[q].assets[i].by)
    BY <1>2, <1>3, <1>4, <2>1 DEF Knows, Covered, Backed, Inv, Tables
  <2> QED  BY <1>1, <2>1 DEF Covered, Backed, Erased
<1>10. Knows(q)'
  BY <1>1, <1>2, <1>6, <1>9 DEF Knows, Own, Writes, Reached, LinkOf
<1> QED  BY <1>1, <1>5, <1>7, <1>8, <1>10, QuietRequest

LEMMA FailReadStep ==
    ASSUME Inv, NEW q \in Requests, NEW t \in Tables, WB!FailRead(q, t), UNCHANGED blobs
    PROVE  Inv' /\ UNCHANGED db
<1>1. InPlay(q) /\ WB!End(q, "error")
  BY DEF WB!FailRead, InPlay, Critical
<1> QED  BY <1>1, EndStep DEF Inv, Typed

\* The bytes: an upload brings its own, only a deletion takes some away, and
\* those are of a file the caller governs.
LEMMA BytesMove ==
    ASSUME Inv, NEW q \in Requests, NEW outcome \in {"ready", "failed"}, Moves(q, outcome)
    PROVE  /\ blobs' \subseteq blobs \cup {q}
           /\ call[q].op = "upload" => /\ blobs \subseteq blobs'
                                       /\ outcome = "ready" => q \in blobs'
           /\ ~ (call[q].op = "delete" /\ Governs(call[q], seen[q])) => blobs \subseteq blobs'
           /\ call[q].op = "delete" => blobs \ {call[q].row} \subseteq blobs'
BY DEF Moves

LEMMA SettleStep ==
    ASSUME Inv, NEW q \in Requests, Settle(q)
    PROVE  Inv' /\ UNCHANGED db
<1>1. pc[q] = "reading" /\ InPlay(q)
  BY DEF Settle, InPlay
<1>2. /\ call[q] \in Calls /\ WellFormed(seen[q]) /\ Knows(q) /\ round[q] = 1
      /\ DOMAIN seen[q].assets \subseteq Ids /\ blobs \subseteq Ids
  BY <1>1 DEF Inv, Typed, Knows, Agrees
<1>3. PICK outcome \in {"ready", "failed"} :
         Moves(q, outcome) /\ WB!Act(q, Decide(q, call[q], outcome, seen[q]))
  BY DEF Settle
<1> DEFINE does == Decide(q, call[q], outcome, seen[q])
           c == call[q]
<1>4. /\ does.verdict \in {"save", "deny", "skip"}
      /\ does.verdict = "skip" => c.op = "link" /\ Linked(seen[q], Link(c.row, c))
      /\ does.verdict = "save" =>
            /\ Decided(q, c, seen[q], does.store)
            /\ c.op = "upload" => does.store.assets[q].status = outcome
            /\ c.op = "delete" => does.store.assets[c.row].status = "deleted"
      /\ c.op = "delete" => (does.verdict = "save" <=> Governs(c, seen[q]))
  BY <1>2, DecideDecides
<1>5. WB!Act(q, does)
  BY <1>3
<1> HIDE DEF does
<1>6. /\ blobs' \subseteq Ids
      /\ c.op = "upload" => blobs \subseteq blobs' /\ (outcome = "ready" => q \in blobs')
      /\ ~ (c.op = "delete" /\ does.verdict = "save") => blobs \subseteq blobs'
      /\ c.op = "delete" => blobs \ {c.row} \subseteq blobs'
  BY <1>2, <1>3, <1>4, BytesMove DEF Ids
<1>7. CASE does.verdict = "deny"
  <2>1. WB!End(q, "rejected")
    BY <1>5, <1>7 DEF WB!Act
  <2> QED  BY <1>1, <1>6, <1>7, <2>1, EndStep
<1>8. CASE does.verdict = "skip"
  <2>1. WB!End(q, "ok")
    BY <1>2, <1>5, <1>8 DEF WB!Act, WB!Proceed, Rounds
  <2>2. c.op = "link" /\ Linked(db, Link(c.row, c))
    <3>1. \A i \in DOMAIN seen[q].references :
             i \in DOMAIN db.references /\ seen[q].references[i] = db.references[i]
      BY <1>2 DEF Knows, Agrees
    <3> QED  BY <1>4, <1>8, <3>1 DEF Linked
  <2> QED  BY <1>1, <1>6, <1>8, <2>1, <2>2, EndStep
<1>9. CASE does.verdict = "save"
  <2>1. /\ out' = [out EXCEPT ![q] = does.store]
        /\ todo' = [todo EXCEPT ![q] = {t \in Tables : DOMAIN does.store[t] # {}}]
        /\ pc' = [pc EXCEPT ![q] = "writing"]
        /\ UNCHANGED <<db, call, round, seen, loaded, failed>>
    BY <1>5, <1>9 DEF WB!Act
  <2>2. /\ out'[q] = does.store /\ pc'[q] = "writing"
        /\ todo'[q] = {t \in Tables : DOMAIN does.store[t] # {}}
    BY <2>1 DEF Inv, Typed
  <2>3. WellFormed(out'[q]) /\ Decided(q, c, seen[q], out'[q])
    BY <1>4, <1>9, <2>2 DEF Decided
  <2>4. Typed'
    BY <1>2, <1>6, <2>1, <2>2, <2>3 DEF Inv, Typed, InPlay, PCs
  <2>5. \A r \in Requests \ {q} : Same(r)
    BY <2>1 DEF Same, Inv, Typed
  <2>6. Keeps
    <3>1. CASE c.op # "delete"
      BY <1>1, <1>6, <2>5, <3>1, NothingLost
    <3>2. CASE c.op = "delete"
      <4>1. /\ c.row \in DOMAIN db.assets
            /\ c.who \in Staff \cup {db.assets[c.row].by}
        BY <1>2, <1>4, <1>9, <3>2 DEF Governs, Knows, Agrees
      <4>2. Erased(c.row, db.assets[c.row].by)'
        BY <2>1, <2>2, <3>2, <4>1 DEF Erased
      <4>3. ASSUME NEW i, NEW p, Erased(i, p) PROVE Erased(i, p)'
        <5>1. PICK r \in Requests : /\ pc[r] \notin {"idle", "reading", "rejected"}
                                    /\ call[r].op = "delete" /\ call[r].row = i
                                    /\ call[r].who \in Staff \cup {p}
          BY <4>3 DEF Erased
        <5>2. call'[r] = call[r] /\ pc'[r] = pc[r]
          BY <1>1, <2>5, <5>1 DEF Same
        <5> QED  BY <5>1, <5>2 DEF Erased
      <4>4. ASSUME NEW i, NEW p, i \in DOMAIN db.assets => p = db.assets[i].by, i \in blobs
            PROVE  Held(i, p)'
        BY <1>6, <2>1, <3>2, <4>1, <4>2, <4>4 DEF Held, Erased
      <4> QED  BY <4>3, <4>4 DEF Keeps, Held
    <3> QED  BY <3>1, <3>2
  <2>7. ASSUME NEW i \in DOMAIN seen[q].assets, seen[q].assets[i].status = "ready",
               NEW p, p = seen[q].assets[i].by
        PROVE  Held(i, p)'
    <3>1. Held(i, p) /\ p = db.assets[i].by
      BY <1>2, <2>7 DEF Knows, Covered, Agrees, Backed, Held
    <3> QED  BY <3>1, <2>6 DEF Keeps
  <2>8. ASSUME NEW i \in DOMAIN out'[q].assets, out'[q].assets[i].status = "ready",
               NEW p, p = out'[q].assets[i].by
        PROVE  Held(i, p)'
    <3>1. CASE i \in DOMAIN seen[q].assets /\ p = seen[q].assets[i].by
               /\ seen[q].assets[i].status = "ready"
      BY <2>7, <3>1
    <3>2. CASE i = q /\ c.op = "upload"
      <4>1. outcome = "ready"
        BY <1>4, <1>9, <2>2, <2>8, <3>2
      <4> QED  BY <1>6, <3>2, <4>1 DEF Held
    <3> QED  BY <2>3, <2>8, <3>1, <3>2 DEF Decided
  <2>9. Covered(q)'
    BY <2>1, <2>7, <2>8 DEF Covered, Backed, Held
  <2>10. q \notin DOMAIN db.assets
    BY <1>1, <1>2 DEF Knows, Own
  <2>11. Writes(q)'
    BY <2>1, <2>2, <2>3, <2>10 DEF Writes
  <2>12. Knows(q)'
    BY <1>1, <1>2, <2>1, <2>2, <2>9, <2>11 DEF Knows, Own, Agrees, Reached
  <2> QED  BY <2>1, <2>4, <2>5, <2>6, <2>12, QuietRequest
<1> QED  BY <1>4, <1>7, <1>8, <1>9

\* The statements that are left once one of them was sent.
LEMMA StatementSent ==
    ASSUME Inv, NEW q \in Requests, NEW t \in Tables,
           WB!Commit(q, t) \/ WB!FailWrite(q, t)
    PROVE  /\ todo'[q] \subseteq todo[q] \ {t} /\ failed'[q] \in BOOLEAN
           /\ failed'[q] \/ (failed'[q] = failed[q] /\ todo'[q] = todo[q] \ {t})
           /\ WB!FailWrite(q, t) => failed'[q]
           /\ \A r \in Requests \ {q} : todo'[r] = todo[r] /\ failed'[r] = failed[r]
           /\ todo' \in [Requests -> SUBSET Tables] /\ failed' \in [Requests -> BOOLEAN]
<1>1. \/ /\ WB!Commit(q, t) /\ ~ WB!FailWrite(q, t)
         /\ todo' = [todo EXCEPT ![q] = @ \ {t}]
         /\ failed' = failed
      \/ /\ todo' = [todo EXCEPT ![q] = {u \in @ \ {t} : Rank[u] = Rank[t]}]
         /\ failed' = [failed EXCEPT ![q] = TRUE]
  BY DEF WB!Commit, WB!FailWrite
<1>2. todo \in [Requests -> SUBSET Tables] /\ failed \in [Requests -> BOOLEAN]
  BY DEF Inv, Typed
<1>3. todo'[q] \subseteq todo[q] \ {t} /\ failed'[q] \in BOOLEAN
  BY <1>1, <1>2
<1>4. /\ failed'[q] \/ (failed'[q] = failed[q] /\ todo'[q] = todo[q] \ {t})
      /\ WB!FailWrite(q, t) => failed'[q]
  BY <1>1, <1>2
<1>5. \A r \in Requests \ {q} : todo'[r] = todo[r] /\ failed'[r] = failed[r]
  BY <1>1, <1>2
<1>6. todo' \in [Requests -> SUBSET Tables] /\ failed' \in [Requests -> BOOLEAN]
  BY <1>1, <1>2
<1> QED  BY <1>3, <1>4, <1>5, <1>6

\* The upsert of one table.
LEMMA CommitStep ==
    ASSUME Inv, NEW q \in Requests, NEW t \in Tables, WB!Commit(q, t), UNCHANGED blobs
    PROVE  Inv'
<1> DEFINE rows == out[q][t]
           table == WB!Upsert(db[t], rows)
<1>1. /\ pc[q] = "writing" /\ InPlay(q) /\ call[q] \in Calls /\ t \in todo[q]
      /\ Accepts(call[q], db, t, rows)
      /\ UNCHANGED <<pc, call, round, seen, loaded, out>>
  BY DEF WB!Commit, WB!Due, Inv, Typed, InPlay
<1>2. /\ WellFormed(db) /\ WellFormed(out[q]) /\ LinksAreSound(db)
      /\ DOMAIN db.assets \subseteq Ids /\ Knows(q) /\ Backed(db)
  BY DEF Inv, Typed
<1>3. Decided(q, call[q], seen[q], out[q])
  BY <1>1, <1>2 DEF Knows, Writes
<1>4. /\ DOMAIN table = DOMAIN rows \cup DOMAIN db[t]
      /\ \A i \in DOMAIN rows : table[i] = rows[i]
      /\ \A i \in DOMAIN db[t] \ DOMAIN rows : table[i] = db[t][i]
      /\ table = With(db[t], rows)
  BY DEF WB!Upsert, With
<1>5. /\ t = "assets" => table \in [DOMAIN table -> MediaAsset]
      /\ t = "references" => table \in [DOMAIN table -> MediaReference]
  <2>1. CASE t = "assets"
    <3>1. /\ db[t] \in [DOMAIN db[t] -> MediaAsset] /\ rows \in [DOMAIN rows -> MediaAsset]
      BY <1>2, <2>1 DEF WellFormed
    <3> HIDE DEF rows
    <3> QED  BY <2>1, <3>1 DEF WB!Upsert
  <2>2. CASE t = "references"
    <3>1. /\ db[t] \in [DOMAIN db[t] -> MediaReference] /\ rows \in [DOMAIN rows -> MediaReference]
      BY <1>2, <2>2 DEF WellFormed
    <3> HIDE DEF rows
    <3> QED  BY <2>2, <3>1 DEF WB!Upsert
  <2> QED  BY <2>1, <2>2 DEF Tables
<1>6. db' = [db EXCEPT ![t] = table]
  BY DEF WB!Commit
<1> HIDE DEF table
<1>7. /\ WellFormed(db') /\ db'[t] = table
      /\ \A u \in Tables \ {t} : db'[u] = db[u]
  BY <1>2, <1>5, <1>6 DEF WellFormed, Tables
<1>8. \A i \in DOMAIN out[q].assets :
         \/ i \in DOMAIN db.assets /\ out[q].assets[i].by = db.assets[i].by
         \/ i = q /\ call[q].op = "upload" /\ out[q].assets[i].by = call[q].who
  BY <1>2, <1>3 DEF Knows, Agrees, Decided
<1>9. \A i \in DOMAIN out[q].references :
         \/ i \in DOMAIN db.references /\ out[q].references[i] = db.references[i]
         \/ i = q /\ out[q].references[i] = LinkOf(q)
  BY <1>2, <1>3 DEF Knows, Agrees, Decided, LinkOf
<1>10. \A i \in DOMAIN db.assets : db'.assets[i].by = db.assets[i].by
  BY <1>2, <1>4, <1>7, <1>8 DEF Knows, Own, Tables
<1>11. \A i \in DOMAIN db.references : db'.references[i] = db.references[i]
  BY <1>2, <1>4, <1>7, <1>9 DEF Knows, Own, Tables
<1>12. /\ DOMAIN db.assets \subseteq DOMAIN db'.assets
       /\ DOMAIN db.references \subseteq DOMAIN db'.references
       /\ DOMAIN db'.assets \subseteq DOMAIN db.assets \cup {q}
       /\ DOMAIN db'.references \subseteq DOMAIN db.references \cup {q}
  BY <1>4, <1>7, <1>8, <1>9 DEF Tables
<1>13. LinksAreSound(db')
  <2>1. CASE t = "assets"
    BY <1>2, <1>7, <1>12, <2>1 DEF LinksAreSound, Refer, Tables
  <2>2. CASE t = "references"
    <3>1. db'.references = With(db.references, rows) /\ db'.assets = db.assets
      BY <1>4, <1>7, <2>2 DEF Tables
    <3>2. Unique(db'.references, LAMBDA row : <<row.media, row.entity, row.purpose>>)
      BY <1>1, <2>2, <3>1 DEF Accepts
    <3>3. ASSUME NEW i \in DOMAIN db'.references
          PROVE  db'.references[i].media \in DOMAIN db'.assets
      <4>1. CASE i \in DOMAIN rows
        BY <1>1, <1>4, <1>7, <2>2, <3>1, <4>1 DEF Accepts, Refer
      <4>2. CASE i \notin DOMAIN rows
        BY <1>2, <1>4, <1>7, <2>2, <3>1, <4>2 DEF LinksAreSound, Refer
      <4> QED  BY <4>1, <4>2
    <3> QED  BY <3>2, <3>3 DEF LinksAreSound, Refer
  <2> QED  BY <2>1, <2>2 DEF Tables
<1>14. Grows
  BY <1>2, <1>7, <1>10, <1>11, <1>12, <1>13 DEF Grows, Ids
<1>15. /\ todo'[q] \subseteq todo[q] \ {t} /\ failed'[q] \in BOOLEAN
       /\ failed'[q] \/ (failed'[q] = failed[q] /\ todo'[q] = todo[q] \ {t})
       /\ \A r \in Requests \ {q} : todo'[r] = todo[r] /\ failed'[r] = failed[r]
       /\ todo' \in [Requests -> SUBSET Tables] /\ failed' \in [Requests -> BOOLEAN]
  BY StatementSent
<1>16. Typed'
  BY <1>1, <1>14, <1>15 DEF Inv, Typed, InPlay, Grows
<1>17. \A r \in Requests \ {q} : Same(r)
  BY <1>1, <1>15 DEF Same
<1>18. Keeps
  BY <1>1, <1>17, NothingLost
<1>19. Backed(db)'
  <2>1. ASSUME NEW i \in DOMAIN db'.assets, db'.assets[i].status = "ready",
               NEW p, p = db'.assets[i].by
        PROVE  Held(i, p)
    <3>1. CASE i \in DOMAIN db.assets /\ db'.assets[i] = db.assets[i]
      BY <1>2, <2>1, <3>1 DEF Backed, Held
    <3>2. CASE t = "assets" /\ i \in DOMAIN out[q].assets /\ db'.assets[i] = out[q].assets[i]
      BY <1>1, <1>2, <2>1, <3>2 DEF Knows, Covered, Backed, Held
    <3> QED  BY <1>4, <1>7, <3>1, <3>2 DEF Tables
  <2> QED  BY <1>1, <2>1 DEF Backed, Held, Erased
<1>20. Own(q)'
  BY <1>1, <1>2, <1>4, <1>7, <1>8, <1>9, <1>10, <1>11 DEF Knows, Own, LinkOf, Tables
<1>21. Agrees(q)'
  BY <1>1, <1>2, <1>10, <1>11, <1>12 DEF Knows, Agrees
<1>22. Writes(q)'
  <2>1. DOMAIN rows \subseteq DOMAIN db'[t] /\ \A u \in Tables : DOMAIN db[u] \subseteq DOMAIN db'[u]
    BY <1>4, <1>7
  <2>2. failed'[q] \/ \A u \in Tables : DOMAIN out[q][u] \subseteq DOMAIN db'[u] \/ u \in todo'[q]
    BY <1>1, <1>2, <1>15, <2>1 DEF Knows, Writes
  <2>3. "assets" \in todo'[q] => q \notin DOMAIN db'.assets
    BY <1>1, <1>2, <1>7, <1>15 DEF Knows, Writes, Tables
  <2> QED  BY <1>1, <1>3, <2>2, <2>3 DEF Writes
<1>23. Covered(q)'
  BY <1>1, <1>2 DEF Knows, Covered, Backed, Erased
<1>24. Knows(q)'
  BY <1>1, <1>20, <1>21, <1>22, <1>23 DEF Knows, Reached
<1>25. ASSUME NEW r \in Requests \ {q} PROVE Knows(r)'
  BY <1>12, <1>14, <1>17, <1>18, OthersKnow
<1> QED  BY <1>16, <1>19, <1>24, <1>25 DEF Inv

LEMMA FailWriteStep ==
    ASSUME Inv, NEW q \in Requests, NEW t \in Tables, WB!FailWrite(q, t), UNCHANGED blobs
    PROVE  Inv' /\ UNCHANGED db
<1>1. pc[q] = "writing" /\ UNCHANGED <<db, pc, call, round, seen, loaded, out>>
  BY DEF WB!FailWrite, WB!Due
<1>2. /\ todo'[q] \subseteq todo[q] /\ failed'[q]
      /\ \A r \in Requests \ {q} : todo'[r] = todo[r] /\ failed'[r] = failed[r]
      /\ todo' \in [Requests -> SUBSET Tables] /\ failed' \in [Requests -> BOOLEAN]
  BY StatementSent
<1>3. Typed'
  BY <1>1, <1>2 DEF Inv, Typed, InPlay
<1>4. \A r \in Requests \ {q} : Same(r)
  BY <1>1, <1>2 DEF Same
<1>5. Keeps
  BY <1>1, <1>4, NothingLost
<1>6. Knows(q)
  BY DEF Inv
<1>7. Covered(q)'
  BY <1>1, <1>6 DEF Knows, Covered, Backed, Erased
<1>8. Knows(q)'
  BY <1>1, <1>2, <1>6, <1>7 DEF Knows, Own, Agrees, Writes, Reached, LinkOf
<1> QED  BY <1>1, <1>3, <1>4, <1>5, <1>8, QuietRequest

\* All statements were sent: what the call asked for is stored, or an error.
LEMMA FinishStep ==
    ASSUME Inv, NEW q \in Requests, Finish(q)
    PROVE  Inv' /\ UNCHANGED db
<1>1. /\ pc[q] = "writing" /\ todo[q] = {} /\ InPlay(q) /\ call[q] \in Calls
      /\ Knows(q) /\ round[q] = 1 /\ UNCHANGED blobs /\ blobs \subseteq Ids
  BY DEF Finish, WB!Finish, Inv, Typed, InPlay
<1>2. CASE ~failed[q] /\ UploadFailed(q)
  <2>1. WB!End(q, "rejected")
    BY <1>1, <1>2 DEF Finish
  <2> QED  BY <1>1, <1>2, <2>1, EndStep DEF UploadFailed
<1>3. CASE failed[q]
  <2>1. WB!End(q, "error")
    BY <1>1, <1>3 DEF Finish, WB!Finish
  <2> QED  BY <1>1, <2>1, EndStep
<1>4. CASE ~failed[q] /\ ~UploadFailed(q)
  <2>1. WB!End(q, "ok")
    BY <1>1, <1>4 DEF Finish, WB!Finish, WB!Proceed, Rounds
  <2>2. /\ Decided(q, call[q], seen[q], out[q]) /\ Own(q)
        /\ DOMAIN out[q].assets \subseteq DOMAIN db.assets
        /\ DOMAIN out[q].references \subseteq DOMAIN db.references
    BY <1>1, <1>4 DEF Knows, Writes, Tables
  <2>3. call[q].op = "upload" => q \in DOMAIN db.assets
    BY <2>2 DEF Decided
  <2>4. q \in DOMAIN db.references => Linked(db, LinkOf(q))
    <3>1. [LinkOf(q) EXCEPT !.by = LinkOf(q).by] = LinkOf(q)
      BY DEF LinkOf, Link
    <3> QED  BY <2>2, <3>1 DEF Own, Linked
  <2>5. call[q].op = "upload" /\ call[q].link # NoLink => q \in DOMAIN db.references
    BY <1>4, <2>2 DEF Decided, UploadFailed
  <2>6. call[q].op = "link" => q \in DOMAIN db.references
    BY <2>2 DEF Decided
  <2> QED  BY <1>1, <2>1, <2>3, <2>4, <2>5, <2>6, EndStep DEF LinkOf
<1> QED  BY <1>2, <1>3, <1>4

LEMMA NextInv == Inv /\ [Next]_vars => Inv'
<1> SUFFICES ASSUME Inv, [Next]_vars PROVE Inv'
  OBVIOUS
<1>1. CASE UNCHANGED vars
  BY <1>1 DEF vars, WB!vars, Inv, Typed, InPlay, Knows, Own, Agrees, Writes, Reached,
              Covered, Backed, Erased, LinkOf
<1>2. ASSUME NEW q \in Requests, NEW c \in Calls, WB!Start(q, c), UNCHANGED blobs
      PROVE  Inv'
  BY <1>2, StartStep
<1>3. ASSUME NEW q \in Requests, NEW t \in Tables, UNCHANGED blobs,
             WB!Read(q, t) \/ WB!FailRead(q, t) \/ WB!Commit(q, t) \/ WB!FailWrite(q, t)
      PROVE  Inv'
  BY <1>3, ReadStep, FailReadStep, CommitStep, FailWriteStep
<1>4. ASSUME NEW q \in Requests, Settle(q) \/ Finish(q) PROVE Inv'
  BY <1>4, SettleStep, FinishStep
<1>5. ASSUME NEW q \in Requests, WB!Crash(q), UNCHANGED blobs PROVE Inv'
  <2>1. InPlay(q) /\ WB!End(q, "lost")
    BY <1>5 DEF WB!Crash, WB!InFlight, InPlay
  <2> QED  BY <1>5, <2>1, EndStep DEF Inv, Typed
<1> QED  BY <1>1, <1>2, <1>3, <1>4, <1>5 DEF Next, Step

-----------------------------------------------------------------------------
(* The theorems.                                                           *)

\* The invariant holds of every run.
THEOREM MediaInvariant == Spec => []Inv
<1>1. Inv /\ [Next]_vars => Inv'
  BY NextInv
<1> QED  BY <1>1, InitInv, PTL DEF Spec

\* Links are unique and to stored files, whatever calls overlap.
THEOREM MediaTypes == Spec => []TypeOK
<1>1. Inv => TypeOK
  BY DEF Inv, Typed, TypeOK, PCs
<1> QED  BY <1>1, MediaInvariant, PTL

\* A file that is offered has its bytes, unless one who governs it asked to
\* delete it.
THEOREM MediaBytes == Spec => []ReadyAssetsHaveBytes
<1>1. Inv => ReadyAssetsHaveBytes
  BY DEF Inv, Backed, Erased, ReadyAssetsHaveBytes
<1> QED  BY <1>1, MediaInvariant, PTL

\* What a client was told is stored, and stays.
THEOREM MediaAnswers == Spec => []AnsweredCallsTookEffect
<1>1. Inv => AnsweredCallsTookEffect
  BY DEF Inv, Knows, Reached, AnsweredCallsTookEffect
<1> QED  BY <1>1, MediaInvariant, PTL

\* Request q takes a deleted file i back out of what it had read.
Restores(i, q) ==
    /\ "assets" \in todo[q] /\ "assets" \notin todo'[q]
    /\ call[q].who \notin SignedIn
    /\ i \in DOMAIN seen[q].assets
    /\ seen[q].assets[i].status = db'.assets[i].status

LEMMA CommitRestores ==
    ASSUME Inv, NEW q \in Requests, NEW t \in Tables, WB!Commit(q, t),
           NEW i \in DOMAIN db.assets, db.assets[i].status = "deleted",
           db'.assets[i].status # "deleted"
    PROVE  Restores(i, q)
<1>1. /\ pc[q] = "writing" /\ t \in todo[q] /\ Knows(q) /\ WellFormed(db)
      /\ Accepts(call[q], db, t, out[q][t])
      /\ db' = [db EXCEPT ![t] = WB!Upsert(@, out[q][t])]
  BY DEF WB!Commit, WB!Due, Inv, Typed
<1>2. t = "assets"
  BY <1>1 DEF WellFormed, Tables
<1>3. i \in DOMAIN out[q].assets /\ db'.assets[i] = out[q].assets[i]
  BY <1>1, <1>2 DEF WB!Upsert, WellFormed, Tables
<1>4. i # q
  BY <1>1, <1>2 DEF Knows, Writes
<1>5. i \in DOMAIN seen[q].assets /\ out[q].assets[i].status = seen[q].assets[i].status
  BY <1>1, <1>3, <1>4 DEF Knows, Writes, Decided
<1>6. call[q].who \notin SignedIn
  <2>1. ~ Permitted(call[q], db, t, out[q][t])
    BY <1>2, <1>3 DEF Permitted
  <2> QED  BY <1>1, <2>1 DEF Accepts, Free
<1>7. "assets" \notin todo'[q]
  BY <1>2, StatementSent
<1> QED  BY <1>1, <1>2, <1>3, <1>5, <1>6, <1>7 DEF Restores

\* A deleted file comes back only out of a store read before it was deleted,
\* written by a client without a token.
THEOREM MediaRestores == Spec => OnlyStaleStoresRestore
<1> DEFINE Told == \A i \in DOMAIN db.assets \cap DOMAIN db'.assets :
                      db.assets[i].status = "deleted" /\ db'.assets[i].status # "deleted" =>
                         \E q \in Requests : Restores(i, q)
<1>1. Inv /\ [Next]_vars => [Told]_db
  <2> SUFFICES ASSUME Inv, [Next]_vars, db' # db PROVE Told
    OBVIOUS
  <2>1. PICK q \in Requests, t \in Tables : WB!Commit(q, t)
    <3>1. ASSUME NEW q \in Requests, NEW c \in Calls, WB!Start(q, c) PROVE FALSE
      BY <3>1 DEF WB!Start
    <3>2. ASSUME NEW q \in Requests, NEW t \in Tables,
                 WB!Read(q, t) \/ WB!FailRead(q, t) \/ WB!FailWrite(q, t)
          PROVE  FALSE
      BY <3>2 DEF WB!Read, WB!FailRead, WB!FailWrite, WB!End, WB!Forget
    <3>3. ASSUME NEW q \in Requests, Settle(q) \/ Finish(q) PROVE FALSE
      BY <3>3, SettleStep, FinishStep
    <3>4. ASSUME NEW q \in Requests, WB!Crash(q) PROVE FALSE
      BY <3>4 DEF WB!Crash, WB!End, WB!Forget
    <3>5. ~UNCHANGED vars
      BY DEF vars, WB!vars
    <3> QED  BY <3>1, <3>2, <3>3, <3>4, <3>5 DEF Next, Step
  <2> QED  BY <2>1, CommitRestores
<1>2. [Told]_db <=>
        [\A i \in DOMAIN db.assets \cap DOMAIN db'.assets :
            db.assets[i].status = "deleted" /\ db'.assets[i].status # "deleted" =>
               \E q \in Requests :
                  /\ "assets" \in todo[q] /\ "assets" \notin todo'[q]
                  /\ call[q].who \notin SignedIn
                  /\ i \in DOMAIN seen[q].assets
                  /\ seen[q].assets[i].status = db'.assets[i].status]_db
  BY DEF Restores
<1> HIDE DEF Told
<1> QED  BY <1>1, <1>2, MediaInvariant, PTL DEF Spec, OnlyStaleStoresRestore
=============================================================================
