\* Three requests, two at a time, with every failure.
SPECIFICATION Spec
CONSTANTS
    ann = ann  bob = bob  mod = mod
    hall = hall  picture = picture  letter = letter
    r1 = r1  r2 = r2  r3 = r3
    NoCall = NoCall  NoLink = NoLink  BadLink = BadLink
    Requests = {r1, r2, r3}
    Seeded = {picture, letter}
    People = {ann, bob, mod}
    Staff = {mod}
    SignedIn = {bob}
    Entities = {hall}
    FirstStores <- MCFirstStores
    Calls <- MCCalls
    MaxInFlight = 2
    Faults = {"read", "write", "crash", "bytes"}
SYMMETRY MCSymmetry
CHECK_DEADLOCK FALSE
INVARIANTS TypeOK ReadyAssetsHaveBytes AnsweredCallsTookEffect
PROPERTIES OnlyStaleStoresRestore
