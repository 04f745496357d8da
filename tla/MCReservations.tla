--------------------------- MODULE MCReservations ---------------------------
(***************************************************************************)
(* A club with a one-place court, a class held on that court, and a room   *)
(* somebody may add.  The calls of each run are the CONSTANT Calls.        *)
(***************************************************************************)
EXTENDS Reservations, TLC

CONSTANTS ana, bea, gus,           \* two members and a moderator
          court, class, room,
          q1, q2, q3, q4

MCCreator == court :> gus @@ class :> ana @@ room :> bea
MCCapacity == court :> 1 @@ class :> 2 @@ room :> 1
MCNeedsApproval == court :> FALSE @@ class :> TRUE @@ room :> FALSE
MCFacility == court :> NoRow @@ class :> court @@ room :> NoRow

Early == [from |-> 0, to |-> 2]
Late  == [from |-> 1, to |-> 3]
MCWindows == {Early, Late}

Book(p, r, ctx, w, n) == [kind |-> "book", by |-> p, resource |-> r,
                          context |-> ctx, window |-> w, party |-> n]
Patch(p, k, st, w) == [kind |-> "patch", by |-> p, target |-> k,
                       status |-> st, window |-> w]
Manage(p, r, st) == [kind |-> "manage", by |-> p, resource |-> r, status |-> st]
Create(r) == [kind |-> "create", by |-> MCCreator[r], resource |-> r]

\* One request at a time, on overlapping windows: the court and the class held
\* on it.
SerialCalls ==
    {Book(ana, court, "resource", Early, 1), Book(bea, class, "resource", Early, 2),
     Book(ana, class, "resource", Late, 1), Book(ana, class, "service", Early, 1),
     Create(room), Manage(gus, court, "maintenance"), Patch(gus, q1, "cancelled", Keep),
     Patch(gus, q1, "confirmed", Keep), Patch(ana, q1, Keep, Late)}

\* Two at a time under row-level security: a member and a moderator, each with
\* bookings.
PolicyCalls ==
    {Book(ana, court, "resource", Early, 1), Book(gus, class, "service", Late, 1),
     Patch(ana, q1, "cancelled", Keep), Patch(gus, q1, "rejected", Keep)}

\* Two members want the same place.
RaceCalls == {Book(p, court, "resource", Early, 1) : p \in {ana, bea}}

=============================================================================
