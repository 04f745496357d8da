---------------------------- MODULE MCMembership ----------------------------
(***************************************************************************)
(* Two administrators, a moderator and an account without a person.        *)
(***************************************************************************)
EXTENDS Membership, TLC

CONSTANTS root, dean, vera, nina, q1, q2, q3

MCIdentity == root :> root @@ dean :> dean @@ vera :> vera @@ nina :> NoPerson

Belongs(role) == [role |-> role, status |-> "active"]

MCMembership == root :> Belongs("administrator") @@ dean :> Belongs("administrator")
                    @@ vera :> Belongs("moderator")

Asks(op, u) == [op |-> op, user |-> u]
SetRole(a, p, r) == [op |-> "role", user |-> a, person |-> p, role |-> r]
SetStatus(a, p, s) == [op |-> "status", user |-> a, person |-> p, status |-> s]

MCCalls ==
    {Asks("register", nina), Asks("join", nina), Asks("join", vera), Asks("accept", vera),
     SetRole(root, vera, "member"), SetRole(dean, vera, "administrator"),
     SetStatus(root, vera, "inactive"), SetStatus(dean, vera, "active"),
     SetStatus(dean, root, "ended"), SetStatus(root, dean, "suspended")}

MCSymmetry == Permutations(Requests)

=============================================================================
