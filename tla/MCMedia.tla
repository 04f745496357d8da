------------------------------ MODULE MCMedia -------------------------------
(***************************************************************************)
(* A picture its owner has sent somebody, which the staff may show to all, *)
(* and a document that is not linked to anything.                          *)
(***************************************************************************)
EXTENDS Media, TLC

CONSTANTS ann, bob, mod, hall, picture, letter, r1, r2, r3

MCSeed ==
    [assets |-> picture :> [by |-> ann, status |-> "ready"]
             @@ letter :> [by |-> bob, status |-> "ready"],
     references |->
        picture :> [media |-> picture, entity |-> hall, purpose |-> "attachment", by |-> ann]]

MCFirstStores == {MCSeed}

To(purpose) == [entity |-> hall, purpose |-> purpose]
Uploading(p, link) == [op |-> "upload", who |-> p, link |-> link]
Deleting(p, i) == [op |-> "delete", who |-> p, row |-> i]
Linking(p, i, purpose) == [op |-> "link", who |-> p, row |-> i, link |-> To(purpose)]

\* Ann links the file an earlier request uploaded.  Bob has a token, and the
\* picture becomes visible to him once the staff have made it a cover.
MCCalls ==
    {Uploading(ann, To("cover")), Uploading(ann, BadLink), Uploading(bob, To("attachment")),
     Deleting(mod, letter), Deleting(bob, letter),
     Linking(mod, picture, "cover"), Linking(bob, letter, "cover")}
    \cup {Linking(ann, q, "attachment") : q \in {r1, r2, r3} \cap Ids}

MCSymmetry == Permutations(Requests)
=============================================================================
