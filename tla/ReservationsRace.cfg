\* Two bookings of one slot at the same time.
SPECIFICATION Spec
CONSTANTS
    ana = ana  bea = bea  gus = gus
    court = court  class = class  room = room
    q1 = q1  q2 = q2  q3 = q3  q4 = q4
    NoRow = NoRow  Keep = Keep  NoCall = NoCall
    Persons = {ana, bea, gus}
    Staff = {gus}
    Requests = {q1, q2}
    Resources = {court, class, room}
    Stored = {court, class}
    Creator <- MCCreator
    Capacity <- MCCapacity
    NeedsApproval <- MCNeedsApproval
    Facility <- MCFacility
    Windows <- MCWindows
    MaxParty = 2
    Calls <- RaceCalls
    MaxInFlight = 2
    Plane = "service"
    Faults = {}
CHECK_DEADLOCK FALSE
INVARIANTS NeverOverbooked
