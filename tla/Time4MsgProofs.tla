--------------------------- MODULE Time4MsgProofs ---------------------------
(***************************************************************************)
(* What a report of time4msg can count, for any number of cells, any rate  *)
(* and however long the main thread is held up.                            *)
(***************************************************************************)
EXTENDS Time4Msg, TLAPS

USE DEF Cells

\* What one worker can have handled since the reading for the last report, and
\* since the reading for the report being made.
SinceLast == Rate * (late + elapsed + 1)
SinceThis == Rate * (elapsed - t + 1)

\* The cells whose counts the report being made has taken.
Done == CASE pc = "run" -> {}
          [] pc \in {"get", "reset"} -> 1..(idx - 1)
          [] OTHER -> Cells

\* The number of counts in sum.
Added == CASE pc = "run" -> 0
           [] pc = "get" -> idx - 1
           [] pc = "reset" -> idx
           [] OTHER -> CellCount

SInv ==
  /\ TypeOK
  /\ t <= elapsed
  /\ pc \notin {"get", "reset"} => idx = 1
  /\ \A c \in Cells : msgCount[c] + room[c] <= SinceLast
  /\ \A c \in Done : msgCount[c] + room[c] <= SinceThis
  /\ sum <= Added * SinceLast

LEMMA Bounds ==
  ASSUME SInv
  PROVE  /\ SinceLast \in Nat /\ SinceThis \in Nat /\ Added \in Nat
         /\ Rate <= SinceThis
         /\ Rate * (late + (elapsed + 1) + 1) = SinceLast + Rate
         /\ Rate * ((elapsed + 1) - t + 1) = SinceThis + Rate
<1>1. Rate \in Nat \ {0} /\ late + elapsed + 1 \in Nat /\ elapsed - t + 1 \in Nat \ {0}
  BY Time4MsgAssumption DEF SInv, TypeOK
<1>2. /\ late + (elapsed + 1) + 1 = (late + elapsed + 1) + 1
      /\ (elapsed + 1) - t + 1 = (elapsed - t + 1) + 1
  BY DEF SInv, TypeOK
<1>3. \A n \in Nat : Rate * (n + 1) = Rate * n + Rate /\ Rate * n \in Nat
  BY <1>1
<1>4. \A n \in Nat \ {0} : Rate <= Rate * n
  <2> TAKE n \in Nat \ {0}
  <2>1. n - 1 \in Nat /\ n = (n - 1) + 1
    OBVIOUS
  <2>2. Rate * n = Rate * (n - 1) + Rate /\ Rate * (n - 1) \in Nat
    BY <1>3, <2>1
  <2> QED BY <1>1, <2>2
<1>5. Added \in Nat
  BY Time4MsgAssumption DEF SInv, TypeOK, Added
<1> QED BY <1>1, <1>2, <1>3, <1>4, <1>5 DEF SinceLast, SinceThis

LEMMA SInvInit == Init => SInv
<1> SUFFICES ASSUME Init PROVE SInv
  OBVIOUS
<1>1. Rate * (0 + 0 + 1) = Rate
  BY Time4MsgAssumption
<1>2. TypeOK
  BY Time4MsgAssumption DEF Init, TypeOK
<1>3. SinceLast = Rate /\ Done = {} /\ Added = 0 /\ 0 * Rate = 0
  BY <1>1, Time4MsgAssumption DEF Init, SinceLast, Done, Added
<1>4. \A c \in Cells : msgCount[c] + room[c] <= SinceLast
  BY <1>3, Time4MsgAssumption DEF Init
<1> QED BY <1>2, <1>3, <1>4, Time4MsgAssumption DEF Init, SInv

LEMMA TypeNext == SInv /\ [Next]_vars => TypeOK'
<1> SUFFICES ASSUME SInv, [Next]_vars PROVE TypeOK'
  OBVIOUS
<1>1. TypeOK /\ t <= elapsed
  BY DEF SInv
<1>2. CASE ReadClock
  BY <1>1, <1>2 DEF ReadClock, TypeOK
<1>3. CASE GetMsgCount
  <2>1. sum + msgCount[idx] \in Nat
    BY <1>1 DEF TypeOK
  <2> QED BY <1>1, <1>3, <2>1 DEF GetMsgCount, TypeOK
<1>4. CASE ResetMsgCount
  BY <1>1, <1>4, Time4MsgAssumption DEF ResetMsgCount, NextCell, TypeOK
<1>5. CASE PrintStats
  BY <1>1, <1>5 DEF PrintStats, TypeOK
<1>6. CASE Update
  BY <1>1, <1>6, Time4MsgAssumption DEF Update, TypeOK
<1>7. CASE ClockTicks
  BY <1>1, <1>7, Time4MsgAssumption DEF ClockTicks, TypeOK
<1>8. ASSUME NEW c \in Cells, OnNetMsg(c) PROVE TypeOK'
  BY <1>1, <1>8, Time4MsgAssumption DEF OnNetMsg, TypeOK
<1>9. CASE UNCHANGED vars
  BY <1>1, <1>9 DEF vars, TypeOK
<1> QED BY <1>2, <1>3, <1>4, <1>5, <1>6, <1>7, <1>8, <1>9 DEF Next, MainStep

LEMMA SInvNext == SInv /\ [Next]_vars => SInv'
<1> SUFFICES ASSUME SInv, [Next]_vars PROVE SInv'
  OBVIOUS
<1>1. TypeOK /\ TypeOK' /\ t <= elapsed
  BY TypeNext DEF SInv
<1>2. \A c \in Cells : msgCount[c] + room[c] <= SinceLast /\ msgCount[c] \in Nat /\ room[c] \in 0..Rate
  BY <1>1 DEF SInv, TypeOK
<1>3. \A c \in Done : c \in Cells /\ msgCount[c] + room[c] <= SinceThis
  <2>1. Done \subseteq Cells
    <3>1. 1..(idx - 1) \subseteq Cells
      BY <1>1, Time4MsgAssumption DEF TypeOK
    <3>2. Done \in {{}, 1..(idx - 1), Cells}
      BY <1>1 DEF TypeOK, Done
    <3> QED BY <3>1, <3>2
  <2> QED BY <2>1 DEF SInv
<1>4. sum <= Added * SinceLast
  BY DEF SInv
<1>5. Rate \in Nat \ {0} /\ CellCount \in Nat \ {0}
  BY Time4MsgAssumption
<1>6. SinceLast \in Nat /\ SinceThis \in Nat /\ Added \in Nat /\ Rate <= SinceThis
  BY Bounds
\* Steps that leave the clock alone keep both bounds.
<1>7. ASSUME UNCHANGED <<elapsed, late, t>> PROVE SinceLast' = SinceLast /\ SinceThis' = SinceThis
  BY <1>7 DEF SinceLast, SinceThis
<1>10. CASE ReadClock
  <2>1. SinceLast' = SinceLast /\ Done' = {} /\ Added' = 0 /\ Added = 0
    <3>1. idx = 1
      BY <1>10 DEF ReadClock, SInv
    <3> QED BY <3>1, <1>10 DEF ReadClock, SinceLast, Done, Added
  <2>2. sum' <= Added' * SinceLast'
    BY <1>4, <1>10, <2>1 DEF ReadClock
  <2> QED BY <1>1, <1>2, <1>10, <2>1, <2>2 DEF ReadClock, SInv, TypeOK
<1>11. CASE GetMsgCount
  <2>1. /\ SinceLast' = SinceLast /\ SinceThis' = SinceThis /\ Done' = Done
        /\ Added' = Added + 1 /\ idx \in Cells
    BY <1>1, <1>7, <1>11 DEF GetMsgCount, Done, Added, TypeOK
  <2>2. msgCount[idx] <= SinceLast
    BY <1>2, <1>6, <2>1
  <2>3. (Added + 1) * SinceLast = Added * SinceLast + SinceLast /\ Added * SinceLast \in Nat
    BY <1>6
  <2>4. sum' <= Added' * SinceLast'
    BY <1>1, <1>2, <1>4, <1>6, <1>11, <2>1, <2>2, <2>3 DEF GetMsgCount, TypeOK
  <2> QED BY <1>1, <1>2, <1>3, <1>11, <2>1, <2>4 DEF GetMsgCount, SInv
<1>12. CASE ResetMsgCount
  <2>1. /\ SinceLast' = SinceLast /\ SinceThis' = SinceThis /\ Added' = Added
        /\ Done' = Done \cup {idx} /\ idx \in Cells
    <3>1. UNCHANGED <<elapsed, late, t>> /\ idx \in Cells /\ pc = "reset"
      BY <1>1, <1>12 DEF ResetMsgCount, TypeOK
    <3>2. CASE idx < CellCount
      <4>1. pc' = "get" /\ idx' = idx + 1
        BY <1>12, <3>2 DEF ResetMsgCount, NextCell
      <4>2. Done' = 1..((idx + 1) - 1) /\ Done = 1..(idx - 1)
        BY <3>1, <4>1 DEF Done
      <4>3. Added' = (idx + 1) - 1 /\ Added = idx
        BY <3>1, <4>1 DEF Added
      <4> QED BY <1>5, <1>7, <3>1, <4>2, <4>3
    <3>3. CASE ~(idx < CellCount)
      <4>1. pc' = "print" /\ idx = CellCount
        BY <1>5, <1>12, <3>1, <3>3 DEF ResetMsgCount, NextCell
      <4>2. Done' = 1..CellCount /\ Done = 1..(CellCount - 1)
        BY <3>1, <4>1 DEF Done
      <4>3. Added' = CellCount /\ Added = CellCount
        BY <3>1, <4>1 DEF Added
      <4> QED BY <1>5, <1>7, <3>1, <4>1, <4>2, <4>3
    <3> QED BY <3>2, <3>3
  <2>2. \A c \in Cells : msgCount'[c] + room'[c] <= SinceLast'
    BY <1>1, <1>2, <1>6, <1>12, <2>1 DEF ResetMsgCount, TypeOK
  <2>3. \A c \in Done' : msgCount'[c] + room'[c] <= SinceThis'
    <3>1. msgCount'[idx] + room'[idx] <= SinceThis'
      <4>1. msgCount'[idx] = 0 /\ room'[idx] = room[idx] /\ room[idx] \in 0..Rate
        BY <1>1, <1>2, <1>12, <2>1 DEF ResetMsgCount, TypeOK
      <4> QED BY <1>5, <1>6, <2>1, <4>1
    <3>2. ASSUME NEW c \in Done, c # idx PROVE msgCount'[c] + room'[c] <= SinceThis'
      BY <1>1, <1>3, <1>12, <2>1, <3>2 DEF ResetMsgCount, TypeOK
    <3> QED BY <2>1, <3>1, <3>2
  <2>4. sum' <= Added' * SinceLast'
    BY <1>4, <1>12, <2>1 DEF ResetMsgCount
  <2> QED BY <1>1, <1>12, <2>2, <2>3, <2>4 DEF ResetMsgCount, NextCell, SInv
<1>13. CASE PrintStats
  <2>1. SinceLast' = SinceLast /\ SinceThis' = SinceThis /\ Done' = Done /\ Added' = Added
    BY <1>7, <1>13 DEF PrintStats, Done, Added
  <2> QED BY <1>1, <1>2, <1>3, <1>4, <1>13, <2>1 DEF PrintStats, SInv
<1>14. CASE Update
  <2>1. /\ SinceLast' = SinceThis /\ Done' = {} /\ Added' = 0 /\ Done = Cells
        /\ SinceThis' \in Int
    <3>1. late' + elapsed' + 1 = elapsed - t + 1
      BY <1>1, <1>14 DEF Update, TypeOK
    <3>2. SinceLast' = Rate * (late' + elapsed' + 1)
      BY DEF SinceLast
    <3>3. elapsed' - t' + 1 = 1 /\ SinceThis' = Rate * (elapsed' - t' + 1)
      BY <1>14 DEF Update, SinceThis
    <3>4. Done' = {} /\ Added' = 0 /\ Done = Cells
      BY <1>14 DEF Update, Done, Added
    <3> QED BY <1>5, <3>1, <3>2, <3>3, <3>4 DEF SinceThis
  <2>2. sum' <= Added' * SinceLast'
    BY <1>6, <1>14, <2>1 DEF Update
  <2>3. \A c \in Cells : msgCount'[c] + room'[c] <= SinceLast'
    BY <1>3, <1>14, <2>1 DEF Update
  <2> QED BY <1>1, <1>14, <2>1, <2>2, <2>3 DEF Update, SInv
<1>15. CASE ClockTicks
  <2>1. SinceLast' = SinceLast + Rate /\ SinceThis' = SinceThis + Rate
    <3>1. /\ SinceLast' = Rate * (late + (elapsed + 1) + 1)
          /\ SinceThis' = Rate * ((elapsed + 1) - t + 1)
      BY <1>15 DEF ClockTicks, SinceLast, SinceThis
    <3> QED BY <3>1, Bounds
  <2>2. Done' = Done /\ Added' = Added
    BY <1>15 DEF ClockTicks, Done, Added
  <2>3. \A c \in Cells : /\ room'[c] = Rate /\ msgCount'[c] = msgCount[c]
                         /\ msgCount[c] \in Nat /\ room[c] \in Nat
    BY <1>2, <1>15, <1>5 DEF ClockTicks
  <2>4. \A c \in Cells : msgCount'[c] + room'[c] <= SinceLast'
    BY <1>2, <1>5, <1>6, <2>1, <2>3
  <2>5. \A c \in Done' : msgCount'[c] + room'[c] <= SinceThis'
    BY <1>3, <1>5, <1>6, <2>1, <2>2, <2>3
  <2>6. sum' <= Added' * SinceLast'
    <3>1. Added * (SinceLast + Rate) = Added * SinceLast + Added * Rate
          /\ Added * Rate \in Nat /\ Added * SinceLast \in Nat
      BY <1>5, <1>6
    <3>2. sum' = sum /\ sum \in Nat
      BY <1>1, <1>15 DEF ClockTicks, TypeOK
    <3> QED BY <1>4, <2>1, <2>2, <3>1, <3>2
  <2>7. t' <= elapsed' /\ UNCHANGED <<pc, idx>>
    BY <1>1, <1>15 DEF ClockTicks, TypeOK
  <2> QED BY <1>1, <2>4, <2>5, <2>6, <2>7 DEF SInv
<1>16. ASSUME NEW c \in Cells, OnNetMsg(c) PROVE SInv'
  <2>1. SinceLast' = SinceLast /\ SinceThis' = SinceThis /\ Done' = Done /\ Added' = Added
    BY <1>7, <1>16 DEF OnNetMsg, Done, Added
  <2>2. \A d \in Cells : msgCount'[d] + room'[d] = msgCount[d] + room[d]
    BY <1>1, <1>16 DEF OnNetMsg, TypeOK
  <2> QED BY <1>1, <1>2, <1>3, <1>4, <1>16, <2>1, <2>2 DEF OnNetMsg, SInv
<1>17. CASE UNCHANGED vars
  <2>1. SinceLast' = SinceLast /\ SinceThis' = SinceThis /\ Done' = Done /\ Added' = Added
    BY <1>7, <1>17 DEF vars, Done, Added
  <2> QED BY <1>1, <1>2, <1>3, <1>4, <1>17, <2>1 DEF vars, SInv
<1> QED BY <1>10, <1>11, <1>12, <1>13, <1>14, <1>15, <1>16, <1>17 DEF Next, MainStep

LEMMA SInvAlways == Spec => []SInv
BY SInvInit, SInvNext, PTL DEF Spec

\* The types of the variables; sum and the counts are not bounded by them.
THEOREM StatsTypeCorrect == Spec => []TypeOK
<1>1. SInv => TypeOK
  BY DEF SInv
<1> QED BY <1>1, SInvAlways, PTL

\* However the steps of time4msg fall between the workers', and however long they
\* take, a report counts nothing that was handled before the reading for the last one.
THEOREM CountsSinceReadingHolds == Spec => []CountsSinceReading
<1>1. SInv => CountsSinceReading
  <2> SUFFICES ASSUME SInv, pc = "print"
               PROVE  sum <= Rate * CellCount * (late + elapsed + 1)
    BY DEF CountsSinceReading
  <2>1. sum <= CellCount * SinceLast
    BY DEF SInv, Added
  <2>2. Rate * CellCount * (late + elapsed + 1) = CellCount * SinceLast
    <3>1. Rate \in Nat /\ CellCount \in Nat /\ late + elapsed + 1 \in Nat
      BY Time4MsgAssumption DEF SInv, TypeOK
    <3> QED BY <3>1 DEF SinceLast
  <2> QED BY <2>1, <2>2
<1> QED BY <1>1, SInvAlways, PTL
=============================================================================
