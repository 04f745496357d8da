----------------------------- MODULE Attendance -----------------------------
(***************************************************************************)
(* What an activity promises to the people who join it, without requests,  *)
(* tables or bookings: who is seated, who waits, and that a seat is given  *)
(* only while the activity is published and has one free.                  *)
(***************************************************************************)
EXTENDS Naturals, FiniteSets

CONSTANTS People, Activities, Host, MostSeats

VARIABLES status,   \* of each activity; "absent" before it is created
          seats,    \* its capacity
          seated,   \* who holds a seat, the host included
          waiting   \* who is on the waitlist

vars == <<status, seats, seated, waiting>>

TypeOK == /\ status \in [Activities -> {"absent", "draft", "published", "cancelled"}]
          /\ seats \in [Activities -> 1..MostSeats]
          /\ seated \in [Activities -> SUBSET People]
          /\ waiting \in [Activities -> SUBSET People]

Init == /\ status \in [Activities -> {"absent", "published"}]
        /\ seats \in [Activities -> 1..MostSeats]
        /\ seated = [a \in Activities |-> IF status[a] = "absent" THEN {} ELSE {Host[a]}]
        /\ waiting = [a \in Activities |-> {}]

Free(a) == Cardinality(seated[a]) < seats[a]

Open(a, s) == /\ status[a] = "absent"
              /\ status' = [status EXCEPT ![a] = s]
              /\ UNCHANGED <<seats, seated, waiting>>

TakeHostSeat(a) == /\ status[a] # "absent" /\ seated[a] = {} /\ waiting[a] = {}
                   /\ seated' = [seated EXCEPT ![a] = {Host[a]}]
                   /\ UNCHANGED <<status, seats, waiting>>

Enroll(a, p) == /\ status[a] = "published" /\ p \notin seated[a] /\ Free(a)
                /\ seated' = [seated EXCEPT ![a] = @ \cup {p}]
                /\ waiting' = [waiting EXCEPT ![a] = @ \ {p}]
                /\ UNCHANGED <<status, seats>>

Queue(a, p) == /\ status[a] = "published" /\ p \notin seated[a]
               /\ waiting' = [waiting EXCEPT ![a] = @ \cup {p}]
               /\ UNCHANGED <<status, seats, seated>>

Withdraw(a, p) == /\ p \in seated[a] \cup waiting[a]
                  /\ seated' = [seated EXCEPT ![a] = @ \ {p}]
                  /\ waiting' = [waiting EXCEPT ![a] = @ \ {p}]
                  /\ UNCHANGED <<status, seats>>

\* Cancelling closes the activity, and then empties its seats.
Change(a, s, n) == /\ status[a] # "absent"
                   /\ status' = [status EXCEPT ![a] = s]
                   /\ seats' = [seats EXCEPT ![a] = n]
                   /\ UNCHANGED <<seated, waiting>>

Dismiss(a) == /\ status[a] = "cancelled"
              /\ seated' = [seated EXCEPT ![a] = {}]
              /\ UNCHANGED <<status, seats, waiting>>

Next == \E a \in Activities :
          \/ \E s \in {"draft", "published", "cancelled"} : Open(a, s)
          \/ TakeHostSeat(a)
          \/ \E p \in People : Enroll(a, p) \/ Queue(a, p) \/ Withdraw(a, p)
          \/ \E s \in {"draft", "published", "cancelled"}, n \in 1..MostSeats : Change(a, s, n)
          \/ Dismiss(a)

Spec == Init /\ [][Next]_vars

=============================================================================
