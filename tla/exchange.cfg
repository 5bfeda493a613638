CONSTANTS
  None = None
  k1 = k1
  k2 = k2
  k3 = k3
  Calls <- ThreeCalls
  Caller <- CallersOfThree
  Parent <- NestedInFirst
  Messages <- Considered
  Window = 1
  Noisy = {"client"}
  Noises <- SomeFrames
  MaxNoise = 1
SPECIFICATION FairSpec
INVARIANT IdsDecide
PROPERTIES CallsReturn ImplementsRpc
