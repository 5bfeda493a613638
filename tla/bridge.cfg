CONSTANTS
  None = None
  r1 = r1
  i1 = i1
  i2 = i2
  Requests = {r1}
  Invokes <- TwoInvokes
  Within <- WithinFirst
  Messages <- Shapes
  Window = 1
  MaxNoise = 1
SPECIFICATION FairSpec
INVARIANTS AnswersAreForRequests
PROPERTIES InvokesEnd RequestsAreAnswered ImplementsRpc
