------------------------------- MODULE MCIpos -------------------------------
(* What a client and its iPOS drive agree on, with what must come to an end. Part
   "boot": one mode, and one mishap anywhere; part "node" of MCClients has the other
   modes. Part "buffered": interpolated positions, of two kinds of records, in
   batches that wrap around a counter of three bits. Part "moves": profile positions
   and halts, two calls, with a queue that may refuse any word. Part "arm": two clients
   give the AMOR arm two orders.

   The part is chosen in the beginning and never changes; the modules this one does
   not extend keep their variables in s1 to s23. *)
EXTENDS AmorArm, IposMoves, IposNode

ArmLists == {<<>>, <<0>>, <<1, 1>>, <<0, 1, 0>>}

VARIABLES part, s1, s2, s3, s4, s5, s6, s7, s8, s9, s10, s11, s12, s13, s14, s15, s16,
          s17, s18, s19, s20, s21, s22, s23

OneWay == {[csv |-> FALSE, ip |-> FALSE]}

Buffer == INSTANCE IpBuffer WITH
  sub <- s1, queue <- s2, counter <- s3, filled <- s4, enabled <- s5, started <- s6, cw <- s7, ctl <- s8,
  refill <- s9, toDrive <- s10, toHost <- s11, ip <- s12, buf <- s13, expect <- s14, err <- s15, word <- s16,
  fresh <- s17, added <- s18, base <- s19, last <- s20, lost <- s21, underrun <- s22, overrun <- s23,
  Submodes <- {[size |-> 3, offset |-> 0], [size |-> 2, offset |-> 1]}, Low <- 1, Modulus <- 8, Counters <- {14},
  MaxPoints <- 8, MaxFrames <- 3, Prompt <- TRUE

-----------------------------------------------------------------------------
slots == <<s1, s2, s3, s4, s5, s6, s7, s8, s9, s10, s11, s12, s13, s14, s15, s16, s17, s18, s19, s20, s21, s22, s23>>
allVars == <<part, vars, movesVars, nodeVars, slots>>

Unused ==
  /\ s1 = 0 /\ s2 = 0 /\ s3 = 0 /\ s4 = 0 /\ s5 = 0 /\ s6 = 0 /\ s7 = 0 /\ s8 = 0 /\ s9 = 0 /\ s10 = 0 /\ s11 = 0
  /\ s12 = 0 /\ s13 = 0 /\ s14 = 0 /\ s15 = 0 /\ s16 = 0 /\ s17 = 0 /\ s18 = 0 /\ s19 = 0 /\ s20 = 0 /\ s21 = 0
  /\ s22 = 0 /\ s23 = 0

AllInit ==
  /\ Init /\ MovesInit /\ NodeInit
  /\ \/ part \in {"arm", "moves", "boot"} /\ Unused
     \/ part = "buffered" /\ Buffer!Init

AllNext ==
  \/ part = "arm" /\ Next /\ UNCHANGED <<part, movesVars, nodeVars, slots>>
  \/ part = "boot" /\ NodeNext /\ UNCHANGED <<part, vars, movesVars, slots>>
  \/ part = "buffered" /\ Buffer!Next /\ UNCHANGED <<part, vars, movesVars, nodeVars>>
  \/ part = "moves" /\ MovesNext /\ UNCHANGED <<part, vars, nodeVars, slots>>

\* The fairness of IposNode, IpBuffer and IposMoves, each in its part.
AllSpec ==
  /\ AllInit /\ [][AllNext]_allVars
  /\ \A t \in Threads : SF_nodeVars(part = "boot" /\ Step(t))
  /\ WF_nodeVars(part = "boot" /\ ReadNext) /\ WF_nodeVars(part = "boot" /\ ReadHeartbeat)
  /\ SF_nodeVars(part = "boot" /\ Monitor) /\ WF_nodeVars(part = "boot" /\ Adopt)
  /\ WF_slots(part = "buffered" /\ Buffer!ControlStep) /\ WF_slots(part = "buffered" /\ Buffer!ReaderStep)
  /\ WF_slots(part = "buffered" /\ Buffer!DriveTakes) /\ WF_slots(part = "buffered" /\ Buffer!Execute)
  /\ \A c \in Callers : WF_movesVars(part = "moves" /\ Client(c))
  /\ WF_movesVars(part = "moves" /\ Reader) /\ WF_movesVars(part = "moves" /\ DriveTakes)
  /\ WF_movesVars(part = "moves" /\ Rest) /\ WF_movesVars(part = "moves" /\ Retell)

\* The type invariants of the modules.
TypesOK ==
  /\ TypeOK /\ MovesTypeOK /\ NodeTypeOK
  /\ part = "buffered" => Buffer!TypeOK

\* IpBuffer, PointsInOrder and NoGapExecuted in one: points arrive in their order. The
\* drive complains only after a loss.
PointsInOrder == part = "buffered" => Buffer!PointsInOrder /\ Buffer!NoGapExecuted
TroubleOnlyAfterLoss == part = "buffered" => Buffer!TroubleOnlyAfterLoss

\* StartsFull of IpBuffer.
StartsFull ==
  [][part = "buffered" /\ Buffer!InMode /\ 4 \notin s16 /\ 4 \in s16' => Len(s13) = s1.size \/ s22 \/ s21]_slots

\* What is under way comes to its end: a motion starts once the drive is full (FilledStarts
\* of IpBuffer), a halt is withdrawn (HaltEnds of IposMoves), a node that boots is configured
\* (NodeConfiguredAgain of IposNode), each unless its message was lost or refused.
UnderWay ==
  \/ part = "buffered" /\ Buffer!Awaited
  \/ part = "moves" /\ Halted
  \/ part = "boot" /\ BootUnderWay
AtEnd ==
  \/ part = "buffered" /\ Buffer!Started
  \/ part = "moves" /\ (~Halted \/ stuck)
  \/ part = "boot" /\ (refused \/ "written" \in masked \/ InService)
WhatBeginsEnds == UnderWay ~> AtEnd
=============================================================================
