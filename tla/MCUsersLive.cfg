CONSTANTS
  founder = founder
  first = first
  second = second
  Ids = {founder, first}
  Founder = founder
  EmailOf <- TwoEmails
  Requests = {r1, r2}
  NoId = NoId
CHECK_DEADLOCK FALSE
SPECIFICATION FairSpec
PROPERTIES EveryRequestEnds
