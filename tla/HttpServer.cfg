CONSTANTS
  c1 = c1
  c2 = c2
  c3 = c3
  Clients = {c1, c2, c3}
  MaxFds = 2
SPECIFICATION Spec
INVARIANT TypeOK
PROPERTIES
  AnswerIsTrue
  IdleSessionsEnd
  AcceptRecovers
