--------------------------- MODULE MCConversation ---------------------------
(* How the runs spread clients over sender threads and workers: clients 1  *)
(* and 2 in the round of thread 1 and client 3 alone with thread 2, or all *)
(* clients in the round of one thread.                                     *)
EXTENDS Conversation

MixedSender == [c \in Clients |-> IF c = 3 THEN 2 ELSE 1]
MixedNext == [c \in Clients |-> IF c = 3 THEN 3 ELSE 3 - c]
MixedFirst == [t \in Senders |-> IF t = 2 THEN 3 ELSE 1]

RoundSender == [c \in Clients |-> 1]
RoundNext == [c \in Clients |-> IF c + 1 \in Clients THEN c + 1 ELSE 1]
RoundFirst == [t \in Senders |-> 1]

OneCell == [c \in Clients |-> 1]
TwoCells == [c \in Clients |-> 1 + (c % 2)]
=============================================================================
