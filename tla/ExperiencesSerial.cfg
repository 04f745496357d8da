\* One request at a time, nothing fails: joining, leaving, cancelling, changing.
SPECIFICATION Spec
CONSTANTS
    ana = ana  bea = bea  gus = gus
    walk = walk  class = class  talk = talk  party = party  hall = hall
    q1 = q1  q2 = q2  q3 = q3  q4 = q4  q5 = q5
    NoRow = NoRow  Keep = Keep  NoCall = NoCall
    Persons = {ana, bea, gus}
    Managers = {gus}
    Experiences = {walk, class, talk, party}
    Requests = {q1, q2, q3, q4}
    Owner <- MCOwner
    FirstCapacity <- MCFirstCapacity
    FirstSlot <- MCFirstSlot
    Facility <- MCFacility
    Places <- MCPlaces
    Stored = {walk, class}
    Slots <- MCSlots
    MaxCapacity = 2
    Calls <- SerialCalls
    MaxInFlight = 1
    Faults = {}
CHECK_DEADLOCK FALSE
INVARIANTS TypeOK SeatAndBookingAgree FacilityNotOverfull
PROPERTIES SerialAttendance
