\* Two requests at a time, with every failure; one member carries a token.
SPECIFICATION Spec
CONSTANTS
    ann = ann  bob = bob  eve = eve  mod = mod
    p0 = p0  p1 = p1  k0 = k0  n0 = n0  chat = chat
    r1 = r1  r2 = r2
    NoCall = NoCall
    Requests = {r1, r2}
    Calls <- MCCalls
    MaxInFlight = 2
    Faults = {"read", "write", "crash"}
    People = {ann, bob, eve, mod}
    Staff = {mod}
    SignedIn = {eve}
    Threads = {chat}
    Seeded = {p0, p1, k0, n0}
    FirstStores <- MCFirstStores
SYMMETRY MCSymmetry
CHECK_DEADLOCK FALSE
INVARIANTS TypeOK AnnouncedPostsExist AnsweredCallsTookEffect
PROPERTIES OnlyStaleStoresRepublish
