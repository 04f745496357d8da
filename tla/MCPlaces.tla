------------------------------ MODULE MCPlaces ------------------------------
(***************************************************************************)
(* A published business, one being drafted, a home on the market and a     *)
(* place of the catalogue that nobody owns.                                *)
(***************************************************************************)
EXTENDS Places, TLC

CONSTANTS ann, bob, mod, eve,
          shop, stall, home, well,     \* rows; a location and what stands there
          r1, r2, r3

At(owner, business, visibility) ==
    [owner |-> owner, business |-> business, visibility |-> visibility]

MCSeed ==
    [locations |-> shop :> At(ann, shop, "public") @@ stall :> At(ann, stall, "private")
                     @@ home :> At(bob, NoRow, "members") @@ well :> At(NoPerson, NoRow, "public"),
     businesses |-> shop :> [owner |-> ann, place |-> shop, status |-> "published"]
                     @@ stall :> [owner |-> ann, place |-> stall, status |-> "draft"],
     properties |-> home :> [by |-> bob, place |-> home, offer |-> "offered"],
     residents |-> home :> [home |-> home, person |-> bob, owns |-> TRUE]]

MCFirstStores == {MCSeed}

ASSUME StartsInStep

Of(op, p, row) == [op |-> op, who |-> p, row |-> row]
Reviewing(p, b, status) == [op |-> "review", who |-> p, row |-> b, status |-> status]
Offering(p, h, offer) == [op |-> "editHome", who |-> p, row |-> h, offer |-> offer]
Showing(p, l, visibility) ==
    [op |-> "editPlace", who |-> p, row |-> l, visibility |-> visibility, business |-> "kept"]
Linking(p, l, b) ==
    [op |-> "editPlace", who |-> p, row |-> l, visibility |-> "kept", business |-> b]
Adding(p, h, other, owns) ==
    [op |-> "addResident", who |-> p, row |-> h, person |-> other, owns |-> owns]

MCCalls ==
    {[op |-> "register", who |-> ann], [op |-> "home", who |-> bob, offer |-> "offered"],
     [op |-> "create", who |-> bob, visibility |-> "public"],
     Of("edit", ann, shop), Of("submit", ann, stall),
     Reviewing(mod, shop, "suspended"), Reviewing(mod, stall, "published"),
     Reviewing(ann, stall, "published"),
     Offering(bob, home, "withheld"), Offering(mod, home, "kept"), Offering(ann, home, "kept"),
     Adding(bob, home, ann, TRUE),
     Showing(ann, stall, "public"), Linking(mod, well, shop),
     Showing(eve, well, "kept")}
    \cup {Of("removePlace", mod, l) : l \in {r1, r2, r3, home, shop} \cap Ids}

MCSymmetry == Permutations(Requests)
=============================================================================
