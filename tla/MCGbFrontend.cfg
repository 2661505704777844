CONSTANTS
  Reqs <- MCReqs
  OutLen <- MCOutLen
  Tokens = {"x", "e"}
  Eos = "e"
  NumIds = 2
  DpSize = 2
  Impatient = {1}
SPECIFICATION FairSpec
INVARIANTS
  ClientsKeptApart
  AbortsFollowAHangUp
PROPERTY StreamsEnd
CHECK_DEADLOCK FALSE
