------------------------------- MODULE Seats -------------------------------
(***************************************************************************)
(* The arithmetic of packages/types/src/domain/resource.ts that every      *)
(* booking decision rests on: when two intervals of a day collide, and how *)
(* many seats a set of bookings holds.                                     *)
(***************************************************************************)
EXTENDS Naturals, FiniteSets

\* Minutes of a day, end exclusive (intervalsOverlap after hhmmToMinutes).
Overlaps(a, b) == a.from < b.to /\ b.from < a.to

Covers(w, t) == w.from <= t /\ t < w.to

\* reservationIsActive
ActiveStatuses == {"pending", "confirmed", "reserved"}

\* A seat is a pair <<booking, number>>, so that the sum of party sizes that
\* usedCapacityForInterval computes is the cardinality of a set of seats.
\* `most' bounds a party.
SeatsOf(rows, S, most) == {s \in S \X (1..most) : s[2] <= rows[s[1]].party}

=============================================================================
