----------------------------- MODULE MCClients -----------------------------
(* Several threads at once, none of which is bound to go on. Part "drive": one
   controller, a thread that handles mode bits and the heartbeat monitor, with
   timeouts at any time. Part "targets": a client and the SYNC thread. Part
   "settings": a client, who makes two calls, and the monitor of a motor mounted in
   reverse, whose drive restarts once. Part "node": a mode of each kind, with the two
   ways to implement velocities and direct positions, and one mishap of each kind
   anywhere. Part "cyclic": setpoints of two drives, sent between two SYNC frames, for
   two periods and a queue that a period with some other traffic fills. Part
   "calls": a client that makes one call of each way to be forwarded,
   checkMotionDone and remote variables, beside one that moves a list of joints, on
   four devices: one with two axes and all interfaces, one that cannot be
   registered, one that moves, one that only measures; lists that are empty, come
   back to a device, repeat a joint and ask too much. Part "hand": two clients and
   the Dextra hand. Part "home": two clients home or park two
   joints, which one call of the device fails. Part "encoder": a client sets the
   position of a motor twice, of two units to the degree, among two frames. Part
   "replier": two connections, two nodes, three requests. Part "sensors": each of four
   devices, read four times.

   A part ends where its properties promise nothing any more. The part is chosen in the
   beginning and never changes; the modules this one does not
   extend keep their variables in s1 to s16. *)
EXTENDS IposTargets, IposSettings, DriveStatusMachine, SyncCycle, DextraHand, MotorInterfaces

VARIABLES part, s1, s2, s3, s4, s5, s6, s7, s8, s9, s10, s11, s12, s13, s14, s15, s16

Way(csv, ip) == [csv |-> csv, ip |-> ip]
Node == INSTANCE IposNode WITH
  conf <- s1, rpc <- s2, actualMode <- s3, requested <- s4, modes <- s5, sync <- s6, sw <- s7, beat <- s8, lastNmt <- s9,
  nodeCall <- s10, dr <- s11, nodeFrames <- s12, trouble <- s13, refused <- s14, masked <- s15, last <- s16,
  Modes <- {"TORQUE", "POSITION_DIRECT", "VELOCITY", "FORCE_IDLE"}, InitialMode <- "IDLE",
  Confs <- {Way(FALSE, FALSE), Way(TRUE, TRUE)}, Apart <- TRUE, PromptNode <- TRUE, MaxTrouble <- 1
TwoHandles == <<"left", "right">>

FourBoards ==
  <<[id |-> "id1", axes |-> 2, ifaces |-> {f.iface : f \in API}],
    [id |-> "id2", axes |-> 1, ifaces |-> {"IAxisInfo"}],
    [id |-> "id3", axes |-> 1, ifaces |-> {"IPositionControl", "IEncodersTimed", "IRemoteVariables"}],
    [id |-> "id4", axes |-> 1, ifaces |-> {"IEncodersTimed"}]>>
Alike(f, g) ==
  /\ f.kind = g.kind /\ f.every = g.every
  /\ \A i \in 1..Len(FourBoards) : f.iface \in FourBoards[i].ifaces <=> g.iface \in FourBoards[i].ifaces
Various == {CHOOSE g \in API : Alike(f, g) : f \in API}
             \cup {f \in API : f.name = "checkMotionDone"} \cup IRemoteVariables
Entry(k, w) == [key |-> k, wellFormed |-> w]

Board == INSTANCE Controlboard WITH
  workers <- s1, pc <- s2, job <- s3, log <- s4, outcome <- s5,
  Boards <- FourBoards, Clients <- {"c1", "c2"},
  Offered <- [c1 |-> Various, c2 |-> {f \in API : f.kind = "group" /\ f.name = "positionMove"}],
  Groups <- {<<>>, <<0, 2, 1>>, <<1, 1>>, <<2, 3>>}, Pools <- {0, 2},
  Requests <- {<<Entry("all", TRUE)>>, <<Entry("id1", TRUE)>>, <<Entry("id4", TRUE)>>,
               <<Entry("id1", TRUE), Entry("id3", TRUE)>>, <<Entry("id1", TRUE), Entry("id3", FALSE)>>,
               <<Entry("id1", TRUE), Entry("all", TRUE), Entry("id3", TRUE)>>}

TwoLists == {<<>>, <<1, 1>>}

Homed(p) == [pos |-> [j \in {0, 1} |-> p[j + 1]], vel |-> [j \in {0, 1} |-> 1], acc |-> [j \in {0, 1} |-> 1]]
Home == INSTANCE JointCalibrator WITH
  phase <- s1, specs <- s2, pos <- s3, target <- s4, refSpeed <- s5, refAcc <- s6, call <- s7, calls <- s8,
  failures <- s9, spoiled <- s10, crossed <- s11, Axes <- 2, Clients <- {"c1", "c2"}, Places <- {0, 1},
  Homing <- {Homed(<<0, 0>>)}, Parking <- {Homed(<<0, 1>>)}, Usual <- 2, MaxCalls <- 2, MaxFailures <- 1

Encoder == INSTANCE IposEncoder WITH
  reverse <- s1, last <- s2, call <- s3, drive <- s4, toHost <- s5, frames <- s6, calls <- s7, unsent <- s8,
  crossed <- s9, Clients <- {"c1"}, Degrees <- {0, 1}, Scale <- 2, Span <- 2, MaxFrames <- 2, MaxCalls <- 2

Replier == INSTANCE SdoReplier WITH
  sdoClient <- s1, clients <- s2, request <- s3, reader <- s4, made <- s5, frames <- s6, crashed <- s7, short <- s8,
  overlapped <- s9, tight <- s10, Connections <- {"p1", "p2"}, Nodes <- {"n1", "n2"}, MaxRequests <- 3, MaxFrames <- 2

Sensors == INSTANCE AnalogSensors WITH
  device <- s1, phase <- s2, m <- s3, world <- s4, happened <- s5, reads <- s6, reading <- s7, before <- s8,
  idle <- s9, Devices <- {"phidget", "leap", "navigator", "jr3"}, Hands <- {"h1", "h2"},
  MaxNoData <- 2, MaxWorld <- 3, MaxReads <- 4

rest12 == <<s13, s14, s15, s16>>
rest11 == <<s12, rest12>>
rest10 == <<s11, rest11>>
rest9 == <<s10, rest10>>
rest5 == <<s6, s7, s8, s9, rest9>>
slots == <<s1, s2, s3, s4, s5, rest5>>
allVars == <<part, targetsVars, settingsVars, vars, cycleVars, handVars, slots>>

Unused12 == s13 = 0 /\ s14 = 0 /\ s15 = 0 /\ s16 = 0
Unused11 == s12 = 0 /\ Unused12
Unused10 == s11 = 0 /\ Unused11
Unused9 == s10 = 0 /\ Unused10
Unused5 == s6 = 0 /\ s7 = 0 /\ s8 = 0 /\ s9 = 0 /\ Unused9
Unused == s1 = 0 /\ s2 = 0 /\ s3 = 0 /\ s4 = 0 /\ s5 = 0 /\ Unused5

\* One way to begin, of several that differ in numbers only.
OneSetting == maxVel = 2 /\ scale = 1 /\ stored.refSpeed = 1 /\ stored.refAcceleration = 1 /\ reverse

AllInit ==
  /\ TargetsInit /\ Init /\ CycleInit /\ SettingsInit /\ OneSetting /\ HandInit
  /\ \/ part \in {"targets", "settings", "drive", "cyclic", "hand"} /\ Unused
     \/ part = "node" /\ Node!NodeInit
     \/ part = "calls" /\ Board!Init /\ Unused5
     \/ part = "home" /\ Home!Init /\ Unused11
     \/ part = "encoder" /\ Encoder!Init /\ Unused9
     \/ part = "replier" /\ Replier!Init /\ Unused10
     \/ part = "sensors" /\ Sensors!Init /\ Unused9
  /\ part # "hand" => link = "serial"

Others == UNCHANGED <<part, targetsVars, settingsVars, vars, cycleVars, handVars>>
PartNext ==
  \/ part = "drive" /\ Next /\ UNCHANGED <<part, targetsVars, settingsVars, cycleVars, handVars, slots>>
  \/ part = "settings" /\ SettingsNext /\ UNCHANGED <<part, targetsVars, vars, cycleVars, handVars, slots>>
  \/ part = "node" /\ Node!NodeNext /\ Others
  \/ part = "cyclic" /\ CycleNext /\ UNCHANGED <<part, targetsVars, settingsVars, vars, handVars, slots>>
  \/ part = "calls" /\ Board!Next /\ UNCHANGED rest5 /\ Others
  \/ part = "targets" /\ TargetsNext /\ UNCHANGED <<part, settingsVars, vars, cycleVars, handVars, slots>>
  \/ part = "hand" /\ HandNext /\ UNCHANGED <<part, targetsVars, settingsVars, vars, cycleVars, slots>>
  \/ part = "home" /\ Home!Next /\ UNCHANGED rest11 /\ Others
  \/ part = "encoder" /\ Encoder!Next /\ UNCHANGED rest9 /\ Others
  \/ part = "replier" /\ Replier!Next /\ UNCHANGED rest10 /\ Others
  \/ part = "sensors" /\ Sensors!Next /\ UNCHANGED rest9 /\ Others

\* Nothing is promised any more: somebody asked for enabling, threads mixed their settings,
\* or two procedures had a joint in common.
Excused ==
  \/ part = "drive" /\ enableAsked
  \/ part = "settings" /\ mixed
  \/ part = "home" /\ s11
AllNext == \/ ~Excused /\ PartNext
           \/ Excused /\ UNCHANGED allVars

AllSpec == AllInit /\ [][AllNext]_allVars

\* The type invariants of the modules.
TypesOK ==
  /\ part = "targets" => TargetsTypeOK
  /\ part = "drive" => TypeOK
  /\ part = "cyclic" => CycleTypeOK
  /\ part = "settings" => SettingsTypeOK
  /\ part = "hand" => HandTypeOK
  /\ part = "node" => Node!NodeTypeOK
  /\ part = "calls" => Board!TypeOK
  /\ part = "home" => Home!TypeOK
  /\ part = "encoder" => Encoder!TypeOK
  /\ part = "replier" => Replier!TypeOK
  /\ part = "sensors" => Sensors!TypeOK

\* IposNode: what callers are told of the mode, which one is shown, and what cyclic setpoints
\* are sent in it.
ModesAreTrue == part = "node" => Node!ModeIsShown /\ Node!SuccessMeansSelected /\ Node!SyncMatchesMap

\* What callers are told. Controlboard: what a call that returns true has done and what a
\* motion that is done means. JointCalibrator: joints said to be home are,
\* with their own speeds again. IposEncoder:
\* positions are those of the drive, their times are not before them. SdoReplier: each
\* request has one reply, which is not more than was done, and finds a client to do it.
\* AnalogSensors: readings are whole, recent and of one hand.
AnswersAreTrue ==
  /\ part = "calls" => Board!TrueMeansReached /\ Board!DoneMeansAllDone
  /\ part = "home" => Home!HomedIsHome /\ Home!SpeedsComeBack
  /\ part = "encoder" => Encoder!PositionIsDrives /\ Encoder!TimeNotBefore
  /\ part = "replier" => Replier!NothingDangling /\ Replier!OneReplyEach
  /\ part = "sensors" => Sensors!ReadingsAreTrue
=============================================================================
