--------------------------- MODULE MCExperiences ---------------------------
(***************************************************************************)
(* A walk for the host and one more, a class for two held at the same time *)
(* in a hall with one place, a talk that may be added, and a community     *)
(* event, the party, that is still to become an experience.                *)
(***************************************************************************)
EXTENDS Experiences, TLC

CONSTANTS ana, bea, gus,          \* a host, a member, a manager
          walk, class, talk, party, hall,
          q1, q2, q3, q4, q5

MCOwner == walk :> ana @@ class :> gus @@ talk :> bea @@ party :> bea
MCFirstCapacity == walk :> 2 @@ class :> 2 @@ talk :> 2 @@ party :> 2
MCFacility == walk :> NoRow @@ class :> hall @@ talk :> hall @@ party :> NoRow
MCPlaces == hall :> 1

Early == [from |-> 0, to |-> 2]
Late  == [from |-> 1, to |-> 3]
MCFirstSlot == walk :> Early @@ class :> Early @@ talk :> Late @@ party :> Late
MCSlots == {Early, Late}

Call(kind, p, e) == [kind |-> kind, by |-> p, experience |-> e]
Create(e, s) == [kind |-> "create", by |-> MCOwner[e], experience |-> e, status |-> s]
Backfill(p, e) == [kind |-> "backfill", by |-> p, experience |-> e, status |-> "published"]
Invite(p, e, g) == [kind |-> "invite", by |-> p, experience |-> e, guest |-> g]
Update(p, e, s, w, n) == [kind |-> "update", by |-> p, experience |-> e,
                          status |-> s, slot |-> w, capacity |-> n]

Joins == {Call("join", bea, walk), Call("join", gus, walk)}

\* One request at a time: two experiences that share a hall, and a walk with
\* more people than seats.
SerialCalls == Joins \cup
    {Call("leave", bea, walk), Invite(bea, walk, gus),
     Call("join", ana, class), Call("cancel", gus, class),
     Update(gus, class, "published", Late, 0),
     Create(talk, "draft"), Update(gus, talk, "published", Keep, 0),
     Call("join", ana, talk)}

PairCalls == Joins \cup {Call("leave", bea, walk), Call("cancel", gus, walk),
                         Backfill(ana, party), Call("cancel", bea, party)}

=============================================================================
