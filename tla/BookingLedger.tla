--------------------------- MODULE BookingLedger ---------------------------
(***************************************************************************)
(* What the reservation component promises of its inventory, with the      *)
(* database, the request handlers and the snapshots left out: a ledger of  *)
(* bookings in which a seat is handed out only after it has been counted.  *)
(*                                                                         *)
(* The counting rule is usedCapacityForInterval: a request for a window is *)
(* admitted when the seats of every active booking that OVERLAPS the       *)
(* window, plus its own, stay within the capacity of the resource.  The    *)
(* one way into the active set that is not counted is a plain status       *)
(* change (Settle with on = TRUE): updateReservationServer checks capacity *)
(* only when the date or the times change.  The ledger keeps the bookings  *)
(* that came back that way in `unchecked'.                                 *)
(***************************************************************************)
EXTENDS Seats

CONSTANTS Ids,        \* booking ids (one per booking request)
          Resources,  \* bookable inventory
          Windows,    \* requested intervals [from, to) of one day
          Capacity,   \* seats of each resource
          MaxParty,   \* largest participantCount
          NoBooking   \* marks an id that is not in the ledger

Entry == [resource : Resources, window : Windows,
          party : 1..MaxParty, active : BOOLEAN]

VARIABLES ledger,     \* [Ids -> Entry or NoBooking]
          unchecked   \* bookings made active again without a capacity check

vars == <<ledger, unchecked>>

\* The active bookings of r, other than those in `except', that overlap w.
Competing(book, r, w, except) ==
    {i \in Ids \ except : /\ book[i] # NoBooking
                          /\ book[i].active
                          /\ book[i].resource = r
                          /\ Overlaps(book[i].window, w)}

Fits(book, r, w, k, except) ==
    Cardinality(SeatsOf(book, Competing(book, r, w, except), MaxParty)) + k <= Capacity[r]

-----------------------------------------------------------------------------

TypeOK == /\ ledger \in [Ids -> Entry \cup {NoBooking}]
          /\ unchecked \subseteq Ids

Init == /\ ledger = [i \in Ids |-> NoBooking]
        /\ unchecked = {}

\* A new booking is counted before it is written.
Admit(i, r, w, k) ==
    /\ ledger[i] = NoBooking
    /\ Fits(ledger, r, w, k, {})
    /\ ledger' = [ledger EXCEPT ![i] = [resource |-> r, window |-> w,
                                        party |-> k, active |-> TRUE]]
    /\ UNCHANGED unchecked

\* A change of date or times is counted against the other bookings.
Move(i, w, on) ==
    /\ ledger[i] # NoBooking
    /\ Fits(ledger, ledger[i].resource, w, ledger[i].party, {i})
    /\ ledger' = [ledger EXCEPT ![i].window = w, ![i].active = on]
    /\ unchecked' = unchecked \ {i}

\* A bare status change is not counted.
Settle(i, on) ==
    /\ ledger[i] # NoBooking
    /\ ledger' = [ledger EXCEPT ![i].active = on]
    /\ unchecked' = IF on /\ ~ledger[i].active
                      THEN unchecked \cup {i}
                      ELSE unchecked

Next == \E i \in Ids :
          \/ \E r \in Resources, w \in Windows, k \in 1..MaxParty :
                Admit(i, r, w, k)
          \/ \E w \in Windows, on \in BOOLEAN : Move(i, w, on)
          \/ \E on \in BOOLEAN : Settle(i, on)

Spec == Init /\ [][Next]_vars

-----------------------------------------------------------------------------

\* The counted bookings that hold r at minute t.
Holding(r, t) ==
    {i \in Ids \ unchecked : /\ ledger[i] # NoBooking
                             /\ ledger[i].active
                             /\ ledger[i].resource = r
                             /\ Covers(ledger[i].window, t)}

Minutes == UNION {w.from..w.to : w \in Windows}

\* At no minute do the counted bookings of a resource hold more seats than it
\* has.  Admission compares whole intervals (usedCapacityForInterval in
\* packages/types/src/domain/resource.ts), so this is what the interval rule
\* buys at every instant.
CapacityAtEveryMinute ==
    \A r \in Resources, t \in Minutes :
        Cardinality(SeatsOf(ledger, Holding(r, t), MaxParty)) <= Capacity[r]

=============================================================================
