SPECIFICATION PeerSpec
CONSTANTS
  MaxJoins = 3
  MaxSess = 2
  MaxTrickle = 2
  MaxEarly = 1
  MaxRequests = 2
  MaxLife = 1
  FrameMax = 2
  MsgMax = 1
  MaxText = 3
  Escape = 2
  MaxRest = 2
  MaxPayload = 3
  Negotiated = {0, 1, 8}
INVARIANT PeerTypeOK
INVARIANT NoSessionForgotten
INVARIANT CandidatesReach
INVARIANT DeadIsQuiet
INVARIANT AnswersMatch
INVARIANT FrameBounds
PROPERTY RequestAnswered
CHECK_DEADLOCK FALSE
