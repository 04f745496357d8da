\* Three requests at once, with every failure.
SPECIFICATION Spec
CONSTANTS
    root = root  dean = dean  vera = vera  nina = nina
    q1 = q1  q2 = q2  q3 = q3
    NoCall = NoCall  NoPerson = NoPerson  NoRow = NoRow
    Requests = {q1, q2, q3}
    Users = {root, dean, vera, nina}
    Seeded = {root, dean, vera}
    FirstIdentity <- MCIdentity
    FirstMembership <- MCMembership
    Calls <- MCCalls
    CodesAreSeeded = TRUE
    MaxInFlight = 3
    Faults = {"read", "write", "crash"}
SYMMETRY MCSymmetry
CHECK_DEADLOCK FALSE
INVARIANTS TypeOK AdministratorsArePromoted
PROPERTIES NobodyJumpsToAdministrator BlockedStayBlocked
