\* One request at a time, with crashes: the tables are the ledger.
SPECIFICATION Spec
CONSTANTS
    ana = ana  bea = bea  gus = gus
    court = court  class = class  room = room
    q1 = q1  q2 = q2  q3 = q3  q4 = q4
    NoRow = NoRow  Keep = Keep  NoCall = NoCall
    Persons = {ana, bea, gus}
    Staff = {gus}
    Requests = {q1, q2, q3}
    Resources = {court, class, room}
    Stored = {court, class}
    Creator <- MCCreator
    Capacity <- MCCapacity
    NeedsApproval <- MCNeedsApproval
    Facility <- MCFacility
    Windows <- MCWindows
    MaxParty = 2
    Calls <- SerialCalls
    MaxInFlight = 1
    Plane = "service"
    Faults = {"crash"}
CHECK_DEADLOCK FALSE
INVARIANTS TypeOK AnsweredChangesHold FacilityNotOverbooked
PROPERTIES SerialBookingsFollowLedger
