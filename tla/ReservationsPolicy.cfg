\* Two requests at a time under row-level security, with statements that fail.
SPECIFICATION Spec
CONSTANTS
    ana = ana  bea = bea  gus = gus
    court = court  class = class  room = room
    q1 = q1  q2 = q2  q3 = q3  q4 = q4
    NoRow = NoRow  Keep = Keep  NoCall = NoCall
    Persons = {ana, bea, gus}
    Staff = {gus}
    Requests = {q1, q2, q3}
    Resources = {court, class, room}
    Stored = {court, class}
    Creator <- MCCreator
    Capacity <- MCCapacity
    NeedsApproval <- MCNeedsApproval
    Facility <- MCFacility
    Windows <- MCWindows
    MaxParty = 2
    Calls <- PolicyCalls
    MaxInFlight = 2
    Plane = "jwt"
    Faults = {"read", "write"}
CHECK_DEADLOCK FALSE
INVARIANTS AnsweredBookingIsStored
PROPERTIES BookingsArePermanent OnlyOwnBookingsChange
