\* Two requests at a time, with every failure.
SPECIFICATION Spec
CONSTANTS
    ann = ann  bob = bob  eve = eve  mod = mod
    talk = talk  pair = pair  event = event
    c0 = c0  c1 = c1  p0 = p0  p1 = p1  p2 = p2  p3 = p3  m0 = m0
    r1 = r1  r2 = r2
    NoCall = NoCall
    Requests = {r1, r2}
    Calls <- MCCalls
    MaxInFlight = 2
    Faults = {"read", "write", "crash"}
    People = {ann, bob, eve, mod}
    Staff = {mod}
    Contexts = {talk, pair, event}
    Seeded = {c0, c1, p0, p1, p2, p3, m0}
    FirstStores <- MCFirstStores
SYMMETRY MCSymmetry
CHECK_DEADLOCK FALSE
INVARIANTS TypeOK PrivateThreadsAreInvited
    AnsweredCallsTookEffect
PROPERTIES OnlyStaleStoresRevive
