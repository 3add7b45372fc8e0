\* Two sender threads, one with two clients and one with one, and two workers; one
\* of them serves a client of each thread. The reply buffers are small enough for
\* workers to wait in send().
CONSTANTS
  Senders = {1, 2}
  Workers = {1, 2}
  Clients = {1, 2, 3}
  senderOf <- MixedSender
  firstOf <- MixedFirst
  nextOf <- MixedNext
  cellOf <- TwoCells
  ReqCap = 2
  ReqOut = 1
  RepOut = 1
  RepCap = 3
  RecvReqs = 2
  RecvReps = 2
SPECIFICATION FairSpec
INVARIANTS TypeOK NoStandstill BoundedUnderWay
PROPERTIES EveryClientServed
