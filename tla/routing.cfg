\* Routed requests, and requests of other shapes, among three peers that come and go,
\* one of which may stop reading.
CONSTANTS
  None = None
  Peers = {p1, p2, p3}
  Stalled = {p3}
  Requests = {q1}
  Messages <- Mixed
SPECIFICATION FairSpec
INVARIANTS AggregateIsComplete HeardBeforeAnswer AnnouncedToOthers OnlyMalformedRefused
PROPERTY LossEndsRequests
