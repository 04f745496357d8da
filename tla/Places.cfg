\* Three requests, two at a time, with every failure.
SPECIFICATION Spec
CONSTANTS
    ann = ann  bob = bob  mod = mod  eve = eve
    shop = shop  stall = stall  home = home  well = well
    r1 = r1  r2 = r2  r3 = r3
    NoCall = NoCall  NoPerson = NoPerson  NoRow = NoRow  Unread = Unread
    Requests = {r1, r2, r3}
    Seeded = {shop, stall, home, well}
    People = {ann, bob, mod, eve}
    Staff = {mod, eve}
    FirstStores <- MCFirstStores
    Calls <- MCCalls
    MaxInFlight = 2
    Faults = {"read", "write", "crash"}
SYMMETRY MCSymmetry
CHECK_DEADLOCK FALSE
INVARIANTS TypeOK CalmPlacesAgree
PROPERTIES OwnersArePermanent PublishedByReview
