-------------------------- MODULE MCEasyTcpServer --------------------------
(***************************************************************************)
(* EasyTcpServer for TLC.  Connections are interchangeable (the runs that  *)
(* use Symmetry let all of them quit, or none), and so are descriptors;    *)
(* the cells are not, since the first cell with the fewest clients wins.   *)
(***************************************************************************)
EXTENDS EasyTcpServer, TLC

Symmetry == Permutations(Conns) \cup Permutations(Fds)
=============================================================================
