\* A message that the socket does not take as a whole.
SPECIFICATION Spec
CONSTANTS
    m1 = m1
    m2 = m2
    m3 = m3
    Messages = {m1, m2}
    Parts <- LongParts
INVARIANTS
    NotInterspersed
CHECK_DEADLOCK FALSE
