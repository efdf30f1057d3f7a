CONSTANTS
  founder = founder
  first = first
  second = second
  Ids = {founder, first, second}
  Founder = founder
  EmailOf <- OneEmail
  Requests = {r1, r2}
  NoId = NoId
CHECK_DEADLOCK FALSE
SPECIFICATION Spec
SYMMETRY MCSymmetry
INVARIANTS AdminUnlessUndone ReviewersAreKept OrphansAreKnown
