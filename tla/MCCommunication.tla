-------------------------- MODULE MCCommunication ---------------------------
(***************************************************************************)
(* A private conversation of two, an open one with a message in it, and an *)
(* event nobody has written about yet.                                     *)
(***************************************************************************)
EXTENDS Communication, TLC

CONSTANTS ann, bob, eve, mod,
          talk, pair, event,     \* contexts
          c0, c1, p0, p1, p2, p3, m0,
          r1, r2

MCSeed == [conversations |-> c0 :> [by |-> ann, kind |-> "direct", context |-> pair]
                          @@ c1 :> [by |-> ann, kind |-> "context", context |-> talk],
           participants |->
                p0 :> [conversation |-> c0, person |-> ann, role |-> "owner", by |-> ann]
             @@ p1 :> [conversation |-> c0, person |-> bob, role |-> "participant", by |-> ann]
             @@ p2 :> [conversation |-> c1, person |-> ann, role |-> "owner", by |-> ann]
             @@ p3 :> [conversation |-> c1, person |-> bob, role |-> "participant", by |-> bob],
           messages |-> m0 :> [conversation |-> c1, sender |-> bob, status |-> "sent"]]

MCFirstStores == {MCSeed}

OpenThread(p, x, kind, others) ==
    [op |-> "open", who |-> p, context |-> x, kind |-> kind, with |-> others]
SendAbout(p, x) == [op |-> "send", who |-> p, context |-> x, kind |-> "context", with |-> {}]
PostIn(p, k) == [op |-> "post", who |-> p, conversation |-> k]
EditOf(p, m) == [op |-> "edit", who |-> p, message |-> m]
DeletionOf(p, m) == [op |-> "delete", who |-> p, message |-> m]
Adding(p, k, other, role) ==
    [op |-> "add", who |-> p, conversation |-> k, person |-> other, role |-> role]

MCCalls == {OpenThread(eve, pair, "context", {}), OpenThread(eve, event, "direct", {bob}),
            SendAbout(bob, event), SendAbout(eve, talk),
            PostIn(bob, c1), PostIn(mod, c0),
            EditOf(bob, m0), DeletionOf(mod, m0), DeletionOf(ann, m0),
            Adding(ann, c0, eve, "owner"), Adding(mod, c1, eve, "moderator")}

MCSymmetry == Permutations(Requests)
=============================================================================
