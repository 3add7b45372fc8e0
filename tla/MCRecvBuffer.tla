--------------------------- MODULE MCRecvBuffer ---------------------------
(***************************************************************************)
(* RecvBuffer for TLC: messages of two lengths, a recv() that can take a   *)
(* message and a part of the next two, and the smallest buffer allowed.    *)
(***************************************************************************)
EXTENDS RecvBuffer

MCLens == {2, 3}
CopyUp == {"up"}
CopyAny == {"up", "down"}
=============================================================================
