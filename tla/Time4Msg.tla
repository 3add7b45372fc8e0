------------------------------ MODULE Time4Msg ------------------------------
(***************************************************************************)
(* The statistics of the server against the clock: time4msg of             *)
(* EasyTcpServer with its CellTimestamp, and the workers that count        *)
(* messages meanwhile.  What EasyTcpServer takes for an arbitrary moment   *)
(* (its Tick) is here the reading of a clock, which is steady.             *)
(***************************************************************************)
EXTENDS Integers

CONSTANTS
  CellCount,   \* the number of cells
  Second,      \* ticks of the clock in a second
  Rate,        \* messages a worker can handle from one tick to the next
  MaxElapsed   \* bound: ticks between two update()s

ASSUME Time4MsgAssumption ==
  /\ {CellCount, Second, Rate} \subseteq Nat \ {0}
  /\ MaxElapsed \in Nat
  /\ Second <= MaxElapsed

VARIABLES
  elapsed,    \* now() - _begin
  msgCount,   \* msgCount[c]: _msg_count of cell c
  room,       \* room[c]: messages worker c can still handle before the next tick
  pc,         \* where the main thread is: "run" outside time4msg
  t,          \* t, the reading
  sum,        \* msg_count
  idx,        \* the cell the loop is at
  late        \* history: ticks from the last reading to its update()

vars == <<elapsed, msgCount, room, pc, t, sum, idx, late>>

Cells == 1..CellCount

TypeOK ==
  /\ elapsed \in 0..MaxElapsed
  /\ msgCount \in [Cells -> Nat]
  /\ room \in [Cells -> 0..Rate]
  /\ pc \in {"run", "get", "reset", "print", "update"}
  /\ t \in 0..MaxElapsed
  /\ sum \in Nat
  /\ idx \in Cells
  /\ late \in 0..MaxElapsed

Init ==
  /\ elapsed = 0
  /\ msgCount = [c \in Cells |-> 0]
  /\ room = [c \in Cells |-> Rate]
  /\ pc = "run"
  /\ t = 0
  /\ sum = 0
  /\ idx = 1
  /\ late = 0

-----------------------------------------------------------------------------
(* time4msg                                                                *)

\* Mutant: update() behind the if, on every call.
ReadAndUpdate ==
  /\ pc = "run"
  /\ t' = elapsed
  /\ IF elapsed >= Second THEN pc' = "get" /\ UNCHANGED elapsed
                          ELSE elapsed' = 0 /\ UNCHANGED pc
  /\ UNCHANGED <<msgCount, room, sum, idx, late>>

\* get_elapsed_seconds() >= 1.0; before that the call does nothing.
ReadClock ==
  /\ pc = "run"
  /\ elapsed >= Second
  /\ t' = elapsed
  /\ pc' = "get"
  /\ UNCHANGED <<elapsed, msgCount, room, sum, idx, late>>

GetMsgCount ==
  /\ pc = "get"
  /\ sum' = sum + msgCount[idx]
  /\ pc' = "reset"
  /\ UNCHANGED <<elapsed, msgCount, room, t, idx, late>>

\* Mutant: the loop goes one cell too far.
NextCellTooFar ==
  IF idx <= CellCount THEN idx' = idx + 1 /\ pc' = "get" ELSE idx' = 1 /\ pc' = "print"

\* The loop goes on to the next cell, or to the printf().
NextCell ==
  IF idx < CellCount THEN idx' = idx + 1 /\ pc' = "get" ELSE idx' = 1 /\ pc' = "print"

\* Mutant: the count is not reset.
ResetForgotten ==
  /\ pc = "reset"
  /\ NextCell
  /\ UNCHANGED <<elapsed, msgCount, room, t, sum, late>>

ResetMsgCount ==
  /\ pc = "reset"
  /\ msgCount' = [msgCount EXCEPT ![idx] = 0]
  /\ NextCell
  /\ UNCHANGED <<elapsed, room, t, sum, late>>

\* printf() takes its time: the console may hold it up.
PrintStats ==
  /\ pc = "print"
  /\ pc' = "update"
  /\ UNCHANGED <<elapsed, msgCount, room, t, sum, idx, late>>

Update ==
  /\ pc = "update"
  /\ elapsed' = 0
  /\ late' = elapsed - t
  /\ t' = 0
  /\ sum' = 0
  /\ pc' = "run"
  /\ UNCHANGED <<msgCount, room, idx>>

MainStep == ReadClock \/ GetMsgCount \/ ResetMsgCount \/ PrintStats \/ Update

-----------------------------------------------------------------------------
(* The clock, and on_net_msg of the workers.                               *)

ClockTicks ==
  /\ elapsed < MaxElapsed
  /\ elapsed' = elapsed + 1
  /\ room' = [c \in Cells |-> Rate]
  /\ UNCHANGED <<msgCount, pc, t, sum, idx, late>>

OnNetMsg(c) ==
  /\ room[c] > 0
  /\ room' = [room EXCEPT ![c] = @ - 1]
  /\ msgCount' = [msgCount EXCEPT ![c] = @ + 1]
  /\ UNCHANGED <<elapsed, pc, t, sum, idx, late>>

Next == MainStep \/ ClockTicks \/ \E c \in Cells : OnNetMsg(c)

Spec == Init /\ [][Next]_vars

\* Time passes and the main thread runs; messages need not come.
FairSpec == Spec /\ WF_vars(MainStep) /\ WF_vars(ClockTicks)

-----------------------------------------------------------------------------
(* Properties.                                                             *)

\* What a report counts was handled after the clock was read for the report
\* before it: no message is counted in two reports, and none is carried
\* over from an earlier second (time4msg, easy_tcp_server.hpp:93-106).
CountsSinceReading ==
  pc = "print" => sum <= Rate * CellCount * (late + elapsed + 1)

\* Reports keep coming, whatever the workers do.
ReportsKeepComing == []<>(pc = "print")
=============================================================================
