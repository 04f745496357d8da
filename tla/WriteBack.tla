----------------------------- MODULE WriteBack ------------------------------
(***************************************************************************)
(* How the repositories of messages and of community content answer a      *)
(* call.  Each of its rounds loads every table of the tenant, decides on   *)
(* that snapshot, and upserts the whole snapshot; no transaction, lock or  *)
(* version ties the statements together, and other requests run between    *)
(* any two of them.  A table is a function from the ids of its rows.       *)
(***************************************************************************)
LOCAL INSTANCE Naturals
LOCAL INSTANCE Sequences
LOCAL INSTANCE FiniteSets

CONSTANTS Requests,       \* HTTP calls; also the ids of what they create
          Calls,          \* what a client may ask for
          MaxInFlight,    \* bound: requests between their start and answer
          Faults,         \* the failures considered: "read", "write", "crash"
          NoCall,
          Tables,
          Rank,           \* tables of one rank are upserted in parallel
          Critical,       \* tables whose failed SELECT fails the request
          Rounds(_),      \* a call's rounds, one after the other
          Decide(_, _, _, _), \* request, call, round, store read: a verdict of Stores
          Visible(_, _, _),  \* call, stored tables, table: the rows its SELECT returns
          Accepts(_, _, _, _)\* call, stored tables, table, proposed rows

VARIABLES db,      \* the tables
          pc, call, round,
          seen,    \* the store a request has loaded
          loaded,  \* the tables it has read
          out,     \* the store it upserts
          todo,    \* the tables it still has to write
          failed   \* a statement of the round failed

vars == <<db, pc, call, round, seen, loaded, out, todo, failed>>

Nothing == [t \in Tables |-> <<>>]

InFlight == {q \in Requests : pc[q] \in {"reading", "writing"}}

Idle == /\ pc = [q \in Requests |-> "idle"]
        /\ call = [q \in Requests |-> NoCall]
        /\ round = [q \in Requests |-> 0]
        /\ seen = [q \in Requests |-> Nothing]
        /\ loaded = [q \in Requests |-> {}]
        /\ out = [q \in Requests |-> Nothing]
        /\ todo = [q \in Requests |-> {}]
        /\ failed = [q \in Requests |-> FALSE]

Start(q, c) ==
    /\ pc[q] = "idle" /\ Cardinality(InFlight) < MaxInFlight
    /\ pc' = [pc EXCEPT ![q] = "reading"]
    /\ call' = [call EXCEPT ![q] = c]
    /\ round' = [round EXCEPT ![q] = 1]
    /\ UNCHANGED <<db, seen, loaded, out, todo, failed>>

Forget(q) == /\ seen' = [seen EXCEPT ![q] = Nothing]
             /\ loaded' = [loaded EXCEPT ![q] = {}]
             /\ out' = [out EXCEPT ![q] = Nothing]
             /\ todo' = [todo EXCEPT ![q] = {}]
             /\ failed' = [failed EXCEPT ![q] = FALSE]
             /\ UNCHANGED <<db, call>>

End(q, answer) == /\ pc' = [pc EXCEPT ![q] = answer]
                  /\ round' = [round EXCEPT ![q] = 0]
                  /\ Forget(q)

\* The round is over: the next one, or the answer.
Proceed(q) ==
    IF round[q] = Len(Rounds(call[q])) THEN End(q, "ok")
    ELSE /\ pc' = [pc EXCEPT ![q] = "reading"]
         /\ round' = [round EXCEPT ![q] = @ + 1]
         /\ Forget(q)

\* One SELECT.  A failed one is taken for an empty table unless it is critical.
Read(q, t) ==
    /\ pc[q] = "reading" /\ t \notin loaded[q]
    /\ seen' = [seen EXCEPT ![q][t] = Visible(call[q], db, t)]
    /\ loaded' = [loaded EXCEPT ![q] = @ \cup {t}]
    /\ UNCHANGED <<db, pc, call, round, out, todo, failed>>

FailRead(q, t) ==
    /\ "read" \in Faults
    /\ pc[q] = "reading" /\ t \notin loaded[q]
    /\ IF t \in Critical THEN End(q, "error")
       ELSE /\ loaded' = [loaded EXCEPT ![q] = @ \cup {t}]
            /\ UNCHANGED <<db, pc, call, round, seen, out, todo, failed>>

\* What a verdict leads to.  Empty tables are not upserted.
Act(q, does) ==
    \/ does.verdict = "deny" /\ End(q, "rejected")
    \/ does.verdict = "skip" /\ Proceed(q)
    \/ /\ does.verdict = "save"
       /\ out' = [out EXCEPT ![q] = does.store]
       /\ todo' = [todo EXCEPT ![q] = {t \in Tables : DOMAIN does.store[t] # {}}]
       /\ pc' = [pc EXCEPT ![q] = "writing"]
       /\ UNCHANGED <<db, call, round, seen, loaded, failed>>

Settle(q) ==
    /\ pc[q] = "reading" /\ loaded[q] = Tables
    /\ Act(q, Decide(q, call[q], Rounds(call[q])[round[q]], seen[q]))

Upsert(table, rows) ==
    [i \in DOMAIN rows \cup DOMAIN table |-> IF i \in DOMAIN rows THEN rows[i] ELSE table[i]]

Due(q, t) == /\ pc[q] = "writing" /\ t \in todo[q]
             /\ \A u \in todo[q] : Rank[t] <= Rank[u]

\* One UPSERT takes effect.  With a write fault its answer may be lost.
Commit(q, t) ==
    /\ Due(q, t) /\ Accepts(call[q], db, t, out[q][t])
    /\ db' = [db EXCEPT ![t] = Upsert(@, out[q][t])]
    /\ \/ /\ todo' = [todo EXCEPT ![q] = @ \ {t}]
          /\ UNCHANGED failed
       \/ /\ "write" \in Faults
          /\ todo' = [todo EXCEPT ![q] = {u \in @ \ {t} : Rank[u] = Rank[t]}]
          /\ failed' = [failed EXCEPT ![q] = TRUE]
    /\ UNCHANGED <<pc, call, round, seen, loaded, out>>

\* One is refused, or never arrives: the statements of later rank are not sent.
FailWrite(q, t) ==
    /\ Due(q, t)
    /\ "write" \in Faults \/ ~Accepts(call[q], db, t, out[q][t])
    /\ todo' = [todo EXCEPT ![q] = {u \in @ \ {t} : Rank[u] = Rank[t]}]
    /\ failed' = [failed EXCEPT ![q] = TRUE]
    /\ UNCHANGED <<db, pc, call, round, seen, loaded, out>>

FinishRegardless(q) ==                 \* mutant
    pc[q] = "writing" /\ todo[q] = {} /\ Proceed(q)

Finish(q) ==
    /\ pc[q] = "writing" /\ todo[q] = {}
    /\ IF failed[q] THEN End(q, "error") ELSE Proceed(q)

\* The process dies, or is frozen, between two steps of a request.
Crash(q) == /\ "crash" \in Faults /\ q \in InFlight
            /\ End(q, "lost")

Step(q) == \/ \E t \in Tables : \/ Read(q, t) \/ FailRead(q, t)
                                \/ Commit(q, t) \/ FailWrite(q, t)
           \/ Settle(q) \/ Finish(q)

Next == \E q \in Requests : \/ \E c \in Calls : Start(q, c)
                            \/ Step(q) \/ Crash(q)

Answered(q) == pc[q] = "ok"
=============================================================================
