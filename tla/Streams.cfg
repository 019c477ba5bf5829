SPECIFICATION Spec
CONSTANTS
  None = None
  g1 = g1
  h1 = h1
  c1 = c1
  q1 = q1
  w1 = w1
  f1 = f1
  p1 = p1
  Safe = {g1, h1}
  Post = {q1}
  Rpc = {c1}
  Path = {p1}
  PathOf <- OneURL
  Bodiless = {h1}
  WsStream = {w1}
  FetchStream = {f1}
  Parts = 2
  MaxFrames = 2
  MaxAsked = 2
  MaxBreaks = 1
INVARIANTS CallsAwaited AnswersWhole StreamsWhole
PROPERTY PagePromise
CHECK_DEADLOCK FALSE
