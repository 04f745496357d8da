---------------------------- MODULE MCCommunity -----------------------------
(***************************************************************************)
(* A published post with a comment, two members and a moderator.           *)
(***************************************************************************)
EXTENDS Community, TLC

CONSTANTS ann, bob, eve, mod,
          p0, p1, k0, n0,        \* rows; p1 names a post that is not stored
          chat,
          r1, r2

MCSeed == [posts |-> p0 :> [by |-> ann, status |-> "published"],
           comments |-> k0 :> [by |-> bob, post |-> p0, status |-> "published"],
           reactions |-> <<>>,
           notifications |-> n0 :> [to |-> bob, about |-> chat, read |-> FALSE]]

MCFirstStores == {MCSeed}

Publishing(p) == [op |-> "publish", who |-> p, to |-> p]
CommentOn(p, post) == [op |-> "comment", who |-> p, post |-> post]
Reacting(p, post) == [op |-> "react", who |-> p, post |-> post]
Moderating(p, op, row, status) == [op |-> op, who |-> p, row |-> row, status |-> status]
Telling(p, other) == [op |-> "notify", who |-> p, to |-> other, about |-> chat]

MCCalls == {Publishing(ann), Publishing(eve),
            CommentOn(bob, p0), CommentOn(eve, p1), CommentOn(bob, p1),
            Moderating(mod, "moderatePost", p0, "hidden"),
            Moderating(mod, "moderatePost", p0, "published"),
            Moderating(bob, "moderatePost", p0, "published"),
            Moderating(mod, "moderateComment", k0, "hidden"),
            Reacting(bob, p0), Telling(ann, bob),
            [op |-> "read", who |-> bob, row |-> n0],
            [op |-> "privacy", who |-> eve]}

MCSymmetry == Permutations(Requests)
=============================================================================
