------------------------------- MODULE Stores -------------------------------
(***************************************************************************)
(* What a repository decides on a loaded store, and the constraints the    *)
(* database puts on its tables.  A table maps the ids of its rows to them. *)
(***************************************************************************)
\* Refuse the call, go on without writing, or write store s.
Deny == [verdict |-> "deny"]
Skip == [verdict |-> "skip"]
Save(s) == [verdict |-> "save", store |-> s]

Row(id, row) == [i \in {id} |-> row]

\* A table once rows have been put into it.
With(table, rows) ==
    [i \in DOMAIN rows \cup DOMAIN table |-> IF i \in DOMAIN rows THEN rows[i] ELSE table[i]]

\* A unique index over Key, and a foreign key to another table.
Unique(table, Key(_)) ==
    \A i, j \in DOMAIN table : Key(table[i]) = Key(table[j]) => i = j

Refer(table, Key(_), other) ==
    \A i \in DOMAIN table : Key(table[i]) \in DOMAIN other
=============================================================================
