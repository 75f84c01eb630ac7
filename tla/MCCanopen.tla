----------------------------- MODULE MCCanopen -----------------------------
(* What a CANopen node is made of. Part "observer": two waiters and two notifiers
   on one observer. Parts "alone" and "lateDrive": one controller against a drive
   that is in time, with two frames under way, and one that may be late. Part
   "pdo": configurations of both types, every choice of valid and rtr, none of the
   parameters, one, two and all of them, no mapping, a shorter one than the drive's
   and a longer one. Part "timely": transfers with replies in time, of two expedited
   objects and one of three segments (so that the toggle bit takes both values and one
   of them twice); part "lateSdo": with timeouts at any time. The part is chosen in the
   beginning and never changes; the modules this one does not extend keep their
   variables in s1 to s16. *)
EXTENDS StateObserver, PdoProtocol, SdoClient

CONSTANT Thread  \* the one that calls

VARIABLES part, s1, s2, s3, s4, s5, s6, s7, s8, s9, s10, s11, s12, s13, s14, s15, s16

Cia == INSTANCE Cia402
InTime == INSTANCE DriveStatusMachine WITH
  controlword <- s1, statusword <- s2, call <- s3, storage <- s4, result <- s5, alive <- s6, pc <- s7,
  goal <- s8, path <- s9, pending <- s10, drive <- s11, resetBit <- s12, toDrive <- s13, toHost <- s14,
  made <- s15, enableAsked <- s16, Controllers <- {Thread}, ModeThreads <- {},
  Goals <- {"SWITCH_ON_DISABLED", "SWITCHED_ON", "OPERATION_ENABLED"},
  Singles <- {Cia!QUICK_STOP, Cia!FAULT_RESET}, Timely <- TRUE, MaxFrames <- 2
Late == INSTANCE DriveStatusMachine WITH
  controlword <- s1, statusword <- s2, call <- s3, storage <- s4, result <- s5, alive <- s6, pc <- s7,
  goal <- s8, path <- s9, pending <- s10, drive <- s11, resetBit <- s12, toDrive <- s13, toHost <- s14,
  made <- s15, enableAsked <- s16, Controllers <- {Thread}, ModeThreads <- {},
  Goals <- {"OPERATION_ENABLED"}, Singles <- {Cia!QUICK_STOP, Cia!FAULT_RESET}, Timely <- FALSE, MaxFrames <- 1

Optional == {"unset", "yes", "no"}
PdoConfigurations ==
  [type : {"RPDO", "TPDO"}, valid : Optional, rtr : Optional,
   set : {{}, {"transmissionType"}, {"inhibitTime", "eventTimer"}, {"eventTimer", "syncStartValue"},
          {"transmissionType", "inhibitTime", "eventTimer", "syncStartValue"}},
   mappings : {<<>>, <<"a">>, <<"a", "b", "c">>}]

LateSdo == INSTANCE SdoClient WITH
  place <- s1, op <- s2, call <- s3, answer <- s4, answered <- s5, living <- s6, toServer <- s7, toClient <- s8,
  dict <- s9, session <- s10, Clients <- {Thread}, Expedited <- {"6040"},
  Segmented <- {"1008"}, Segments <- 2, Values <- {1}, Timely <- FALSE, Lossy <- TRUE, MaxFrames <- 2

rest10 == <<s11, s12, s13, s14, s15, s16>>
sdoSlots == <<s1, s2, s3, s4, s5, s6, s7, s8, s9, s10>>
slots == <<sdoSlots, rest10>>
allVars == <<part, vars, pdoVars, sdoVars, slots>>

Unused10 == s11 = 0 /\ s12 = 0 /\ s13 = 0 /\ s14 = 0 /\ s15 = 0 /\ s16 = 0
Unused ==
  /\ s1 = 0 /\ s2 = 0 /\ s3 = 0 /\ s4 = 0 /\ s5 = 0 /\ s6 = 0 /\ s7 = 0 /\ s8 = 0 /\ s9 = 0 /\ s10 = 0
  /\ Unused10

\* One configuration and drive, and one dictionary, for the parts that are about something else.
OnePdo == conf = (CHOOSE c \in Configurations : TRUE) /\ device = (CHOOSE d \in Devices : TRUE)
OneDictionary == dict = [o \in Objects |-> [i \in 1..Segments |-> CHOOSE v \in Values : TRUE]]

AllInit ==
  /\ Init /\ PdoInit /\ SdoInit
  /\ \/ part \in {"observer", "pdo", "timely"} /\ Unused
     \/ part = "alone" /\ InTime!Init
     \/ part = "lateDrive" /\ Late!Init
     \/ part = "lateSdo" /\ LateSdo!SdoInit /\ Unused10
  /\ part # "pdo" => OnePdo
  /\ part # "timely" => OneDictionary

Others == UNCHANGED <<part, vars, pdoVars, sdoVars>>
AllNext ==
  \/ part = "observer" /\ Next /\ UNCHANGED <<part, pdoVars, sdoVars, slots>>
  \/ part = "alone" /\ InTime!Next /\ Others
  \/ part = "lateDrive" /\ Late!Next /\ Others
  \/ part = "pdo" /\ PdoNext /\ UNCHANGED <<part, vars, sdoVars, slots>>
  \/ part = "timely" /\ SdoNext /\ UNCHANGED <<part, vars, pdoVars, slots>>
  \/ part = "lateSdo" /\ LateSdo!SdoNext /\ UNCHANGED rest10 /\ Others

\* The fairness of StateObserver, DriveStatusMachine and SdoClient, each in its part.
AllSpec ==
  /\ AllInit /\ [][AllNext]_allVars
  /\ \A w \in Waiters : WF_vars(part = "observer" /\ (
       \/ CheckInactive(w) \/ CheckActive(w) \/ Register(w) \/ SemWait(w)
       \/ SemWake(w) \/ SemTimeout(w) \/ Unregister(w)))
  /\ WF_slots(part = "lateDrive" /\ Late!DriveTakesWord) /\ WF_slots(part = "lateDrive" /\ Late!Update)
  /\ WF_slots(part = "lateDrive" /\ Late!ControllerStep(Thread)) /\ WF_slots(part = "lateDrive" /\ Late!ThreadStep(Thread))
  /\ WF_sdoSlots(part = "lateSdo" /\ LateSdo!ClientStep(Thread))

\* The type invariants of the modules.
TypesOK ==
  /\ TypeOK /\ PdoTypeOK /\ SdoTypeOK
  /\ part = "alone" => InTime!TypeOK
  /\ part = "lateDrive" => Late!TypeOK
  /\ part = "lateSdo" => LateSdo!SdoTypeOK

\* DriveStatusMachine: the tables are those of the drive, whatever is late; what is known
\* of a drive that is in time is true, SuccessIsFresh and StoredWordIsHarmless.
DriveIsKnown ==
  /\ part = "alone" => InTime!TablesMatchDrive /\ InTime!SuccessIsFresh /\ InTime!StoredWordIsHarmless
  /\ part = "lateDrive" => Late!TablesMatchDrive

\* RequestTerminates of DriveStatusMachine and OperationEnds of SdoClient, whatever is late.
CallsEnd ==
  /\ (part = "lateDrive" /\ s7[Thread] # "idle") ~> (part = "lateDrive" /\ s7[Thread] = "idle")
  /\ (part = "lateSdo" /\ s1[Thread] # "idle") ~> (part = "lateSdo" /\ s1[Thread] = "idle")
=============================================================================
