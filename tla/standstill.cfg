\* One sender thread with two clients on one worker, and a reply buffer for one
\* connection's requests but no more.
CONSTANTS
  Senders = {1}
  Workers = {1}
  Clients = {1, 2}
  senderOf <- RoundSender
  firstOf <- RoundFirst
  nextOf <- RoundNext
  cellOf <- OneCell
  ReqCap = 4
  ReqOut = 2
  RepOut = 2
  RepCap = 4
  RecvReqs = 2
  RecvReps = 2
SPECIFICATION Spec
INVARIANTS NoStandstill
