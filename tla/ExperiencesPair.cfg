\* Two requests at a time, with every failure.
SPECIFICATION Spec
CONSTANTS
    ana = ana  bea = bea  gus = gus
    walk = walk  class = class  talk = talk  party = party  hall = hall
    q1 = q1  q2 = q2  q3 = q3  q4 = q4  q5 = q5
    NoRow = NoRow  Keep = Keep  NoCall = NoCall
    Persons = {ana, bea, gus}
    Managers = {gus}
    Experiences = {walk, class, talk, party}
    Requests = {q1, q2, q3}
    Owner <- MCOwner
    FirstCapacity <- MCFirstCapacity
    FirstSlot <- MCFirstSlot
    Facility <- MCFacility
    Places <- MCPlaces
    Stored = {walk, class}
    Slots <- MCSlots
    MaxCapacity = 2
    Calls <- PairCalls
    MaxInFlight = 2
    Faults = {"read", "write", "crash"}
CHECK_DEADLOCK FALSE
INVARIANTS SeatsAreBacked NoHiddenBooking
PROPERTIES EventsMoveOnce
