---------------------------- MODULE MCCanWriter ----------------------------
(* Frames on their way, and what ends by itself. Part "wire": a queue of three slots
   and six messages, which fills up, is emptied in parts and wraps around the
   accepted messages more than once. Part "life": a board with two buses and three
   nodes, one of which is fake, is opened and closed. Part "transfer": each driver,
   opened without blocking and with it, and three frames. Part "filters": each kind of
   filters, two of them, for five identifiers with and without neighbours. Part "cui": an absolute
   encoder of each mode, mounted in reverse. Part "emulated": two emulated joints
   that get two orders. Part "wiimote": two events, a key and a reading.

   The part is chosen in the beginning and never changes; the modules this one does
   not extend keep their variables in s1 to s13. *)
EXTENDS CanWriter, BoardLifecycle, CanTransfer, CanFilters, CuiEncoder

VARIABLES part, s1, s2, s3, s4, s5, s6, s7, s8, s9, s10, s11, s12, s13

BusOfThree == [n1 |-> "b1", n2 |-> "b1", n3 |-> "b2"]

Conf(which, blocking, timed) == [driver |-> which, blocking |-> blocking, timed |-> timed]
TransferConfs ==
  {Conf("hico", FALSE, FALSE), Conf("hico", TRUE, TRUE), Conf("hico", TRUE, FALSE),
   Conf("peak", FALSE, FALSE), Conf("peak", TRUE, TRUE)}

Emulated == INSTANCE EmulatedJoints WITH
  controlMode <- s1, encRaw <- s2, velRaw <- s3, jointStatus <- s4, targetExposed <- s5, todo <- s6, phase <- s7,
  motor <- s8, encsRaw <- s9, encsExposed <- s10, goal <- s11, orders <- s12, raced <- s13,
  Axes <- 2, Speed <- 2, Tol <- 1, MinLimit <- -6, MaxLimit <- 4, Refs <- {-4}, Deltas <- {0, 3},
  MaxOrders <- 2, Horizon <- 14

Wiimote == INSTANCE WiimoteSensor WITH
  phase <- s1, iface <- s2, pc <- s3, events <- s4, typed <- s5, event <- s6, localEventData <- s7, eventData <- s8,
  yawActive <- s9, told <- s10, garbage <- s11, reads <- s12, count <- s13,
  Levels <- {1}, MaxEvents <- 2, MaxReads <- 1

slots == <<s1, s2, s3, s4, s5, s6, s7, s8, s9, s10, s11, s12, s13>>
allVars == <<part, vars, boardVars, transferVars, filtersVars, cuiVars, slots>>

Unused ==
  /\ s1 = 0 /\ s2 = 0 /\ s3 = 0 /\ s4 = 0 /\ s5 = 0 /\ s6 = 0 /\ s7 = 0 /\ s8 = 0 /\ s9 = 0
  /\ s10 = 0 /\ s11 = 0 /\ s12 = 0 /\ s13 = 0

\* One encoder at rest, for the parts that are about something else.
OneEncoder == mode = "pull" /\ ~pushFlag /\ position = CHOOSE p \in Readings : TRUE

AllInit ==
  /\ Init /\ BoardInit /\ TransferInit /\ FiltersInit /\ CuiInit /\ reverse
  /\ \/ part \in {"wire", "life", "transfer", "filters", "cui"} /\ Unused
     \/ part = "wiimote" /\ Wiimote!Init
     \/ part = "emulated" /\ Emulated!Init /\ s1 = "POSITION_MODE"
  /\ part # "transfer" => conf = Conf("hico", FALSE, FALSE)
  /\ part # "filters" => driver = "disabled"
  /\ part # "cui" => OneEncoder

Others == UNCHANGED <<part, vars, boardVars, transferVars, filtersVars, cuiVars>>
AllNext ==
  \/ part = "wire" /\ Next /\ UNCHANGED <<part, boardVars, transferVars, filtersVars, cuiVars, slots>>
  \/ part = "life" /\ BoardNext /\ UNCHANGED <<part, vars, transferVars, filtersVars, cuiVars, slots>>
  \/ part = "transfer" /\ TransferNext /\ UNCHANGED <<part, vars, boardVars, filtersVars, cuiVars, slots>>
  \/ part = "filters" /\ FiltersNext /\ UNCHANGED <<part, vars, boardVars, transferVars, cuiVars, slots>>
  \/ part = "cui" /\ CuiNext /\ UNCHANGED <<part, vars, boardVars, transferVars, filtersVars, slots>>
  \/ part = "emulated" /\ Emulated!Next /\ Others
  \/ part = "wiimote" /\ Wiimote!Next /\ Others

\* The fairness of CanWriter, CanTransfer, EmulatedJoints, CuiEncoder and WiimoteSensor,
\* each in its part.
AllSpec ==
  /\ AllInit /\ [][AllNext]_allVars
  /\ WF_vars(part = "wire" /\ \E sent \in 1..BufferSize : FlushWrite(sent))
  /\ \A t \in {"reader", "writer"} :
       WF_transferVars(part = "transfer" /\ Within(t)) /\ SF_transferVars(part = "transfer" /\ Lock(t))
  /\ WF_slots(part = "emulated" /\ Emulated!Run) /\ WF_slots(part = "emulated" /\ Emulated!Proceed)
  /\ \A c \in Clients : WF_cuiVars(part = "cui" /\ Running(c))
  /\ WF_cuiVars(part = "cui" /\ Notifying) /\ WF_cuiVars(part = "cui" /\ (Receive \/ Miss))
  /\ WF_slots(part = "wiimote" /\ Wiimote!Thread) /\ WF_slots(part = "wiimote" /\ Wiimote!Close)

\* The type invariants of the modules.
TypesOK ==
  /\ TypeOK /\ BoardTypeOK /\ TransferTypeOK /\ FiltersTypeOK /\ CuiTypeOK
  /\ part = "emulated" => Emulated!TypeOK
  /\ part = "wiimote" => Wiimote!TypeOK

\* What is done and read is what was asked for and came: StopsInTime of EmulatedJoints,
\* PublishesWhatCame of WiimoteSensor.
MovesAndReadsAreTrue ==
  /\ part = "emulated" => Emulated!StopsInTime
  /\ part = "wiimote" => Wiimote!PublishesWhatCame

\* What waits, comes to its turn and ends: BothGetTheirTurn of CanTransfer, MovesEnd of
\* EmulatedJoints, RequestEnds of CuiEncoder and CloseEnds of WiimoteSensor.
WaitsEnd ==
  /\ BothGetTheirTurn
  /\ \A j \in 1..2 : (part = "emulated" /\ s11[j]) ~> (part # "emulated" \/ Emulated!MoveEnded(j))
  /\ RequestEnds
  /\ (part = "wiimote" /\ s1 = "closing" /\ (s5 \/ s4 # <<>>)) ~> (part # "wiimote" \/ s1 = "over")
=============================================================================
