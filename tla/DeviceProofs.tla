---------------------------- MODULE DeviceProofs ----------------------------
(***************************************************************************)
(* Proofs about two devices, for any values of their constants.            *)
(*                                                                         *)
(* AmorArm: an order writes a vector of all joints that it has read before,*)
(* so that the vectors that clients hold must be known for what nobody     *)
(* asked for, too.                                                         *)
(*                                                                         *)
(* IposNode: what getControlMode returns is what the last TPDO has told,   *)
(* so that the proof follows what is under way from the drive. Whether the *)
(* drive is prompt, how calls interleave and what is lost do not matter.   *)
(*                                                                         *)
(* IposNode: what a call that returns well has done follows from how far   *)
(* it is (Stage), with what is on the wire meanwhile (Wire), as long as    *)
(* nothing has gone wrong (last.clean).                                    *)
(***************************************************************************)
EXTENDS AmorArm, IposNode, SequenceTheorems, TLAPS

-----------------------------------------------------------------------------
(* AmorArm *)

\* Vectors of all joints, whatever they are of.
IsVector(v) == v = [j \in ArmJoints |-> v[j]]
Measured(m) ==
  /\ m = [positions |-> m.positions, velocities |-> m.velocities, currents |-> m.currents]
  /\ IsVector(m.positions) /\ IsVector(m.velocities) /\ IsVector(m.currents)

Shaped ==
  /\ Measured(actual) /\ Measured(req)
  /\ DOMAIN call = Clients
  /\ \A c \in Clients :
       /\ call[c] = [at |-> call[c].at, order |-> call[c].order, local |-> call[c].local]
       /\ call[c].order.quantity \in Quantities

\* What is about to be written is still, or shows that nobody has written it.
LocalStays ==
  \A c \in Clients : call[c].at = "write" =>
    \A j \in ArmJoints \ asked : call[c].local[j] \in {Garbage, Still[call[c].order.quantity][j]}

\* Nothing was made of a joint that nobody asked for.
ArmStays ==
  \A q \in Quantities, j \in ArmJoints \ asked : actual[q][j] = Still[q][j] /\ req[q][j] = Still[q][j]

IInv == Shaped /\ (~wild => LocalStays /\ ArmStays)

\* The arm stands still and nobody has asked.
LEMMA InitIInv == Init => IInv
<1> SUFFICES ASSUME Init PROVE IInv
  OBVIOUS
<1>1. Measured(Still)
  BY DEF Measured, IsVector, Still
<1>2. actual = Still /\ req = Still /\ call = [c \in Clients |-> NoCall]
  BY DEF Init
<1>3. NoCall.order.quantity = "positions" /\ NoCall.at = "idle"
      /\ NoCall = [at |-> NoCall.at, order |-> NoCall.order, local |-> NoCall.local]
  BY DEF NoCall, Order
<1>4. Shaped
  BY <1>1, <1>2, <1>3 DEF Shaped, Quantities
<1> QED BY <1>2, <1>3, <1>4 DEF IInv, LocalStays, ArmStays

\* A call asks for joints before it touches the arm.
LEMMA CallKeeps ==
  ASSUME IInv, NEW c \in Clients, NEW order \in Orders, Call(c, order)
  PROVE  IInv'
<1>1. order.quantity \in Quantities
  <2>1. PICK q \in Quantities : order \in OrdersToOne(q) \/ order \in OrdersToAll(q) \/ order \in OrdersToList(q)
    BY DEF Orders
  <2>2. CASE order \in OrdersToOne(q)
    BY <2>2 DEF OrdersToOne, Order
  <2>3. CASE order \in OrdersToAll(q)
    BY <2>3 DEF OrdersToAll, Order
  <2>4. CASE order \in OrdersToList(q)
    BY <2>4 DEF OrdersToList, Order
  <2> QED BY <2>1, <2>2, <2>3, <2>4
<1>2. CASE call' = call
  BY <1>2 DEF Call, IInv, Shaped, Measured, LocalStays, ArmStays, arm
<1>3. CASE call' = [call EXCEPT ![c] = [at |-> IF ReadsActual(order) THEN "read" ELSE "write",
                                        order |-> order, local |-> Unwritten]]
  <2>1. \A d \in Clients \ {c} : call'[d] = call[d]
    BY <1>3 DEF IInv, Shaped
  <2>2. call'[c].order = order /\ call'[c].local = Unwritten /\ DOMAIN call' = Clients
        /\ call'[c] = [at |-> call'[c].at, order |-> call'[c].order, local |-> call'[c].local]
    BY <1>3 DEF IInv, Shaped
  <2>3. Shaped'
    BY <1>1, <2>1, <2>2 DEF Call, IInv, Shaped, Measured, arm
  <2>4. ~wild => LocalStays'
    BY <2>1, <2>2 DEF Call, IInv, LocalStays, Unwritten
  <2> QED BY <2>3, <2>4 DEF Call, IInv, ArmStays, arm
<1> QED BY <1>2, <1>3 DEF Call

\* A call reads a joint that nobody asked for as it stands still.
LEMMA ReadKeeps ==
  ASSUME IInv, NEW c \in Clients, Read(c)
  PROVE  IInv'
<1>1. CASE call' = [call EXCEPT ![c].at = "write", ![c].local = actual[call[c].order.quantity]]
  <2>1. \A d \in Clients \ {c} : call'[d] = call[d]
    BY <1>1 DEF IInv, Shaped
  <2>2. /\ DOMAIN call' = Clients
        /\ call'[c] = [at |-> "write", order |-> call[c].order, local |-> actual[call[c].order.quantity]]
    <3> DEFINE old == call[c]
    <3>1. old = [at |-> old.at, order |-> old.order, local |-> old.local] /\ DOMAIN call = Clients
      BY DEF IInv, Shaped
    <3>2. call'[c] = [[old EXCEPT !.at = "write"] EXCEPT !.local = actual[old.order.quantity]]
      BY <1>1, <3>1
    <3> HIDE DEF old
    <3>3. call'[c] = [at |-> "write", order |-> old.order, local |-> actual[old.order.quantity]]
      BY <3>1, <3>2
    <3> QED BY <1>1, <3>1, <3>3 DEF old
  <2>3. Shaped'
    BY <2>1, <2>2 DEF Read, IInv, Shaped, Measured, arm
  <2>4. ~wild => LocalStays'
    BY <2>1, <2>2 DEF Read, IInv, Shaped, LocalStays, ArmStays, ghosts
  <2> QED BY <2>3, <2>4 DEF Read, IInv, ArmStays, arm, ghosts
<1>2. CASE call' = [call EXCEPT ![c] = NoCall]
  <2>1. \A d \in Clients \ {c} : call'[d] = call[d]
    BY <1>2 DEF IInv, Shaped
  <2>2. DOMAIN call' = Clients /\ call'[c] = NoCall
    BY <1>2 DEF IInv, Shaped
  <2>3. Shaped'
    BY <2>1, <2>2 DEF Read, IInv, Shaped, Measured, arm, NoCall, Order, Quantities
  <2> QED BY <2>1, <2>2, <2>3 DEF Read, IInv, LocalStays, ArmStays, arm, ghosts, NoCall
<1> QED BY <1>1, <1>2 DEF Read

\* What is written of such a joint is what it had.
LEMMA WriteKeeps ==
  ASSUME IInv, NEW c \in Clients, Write(c)
  PROVE  IInv'
<1> DEFINE order == call[c].order
           vector == Changed(order, call[c].local)
<1>1. \A d \in Clients \ {c} : call'[d] = call[d]
  BY DEF Write, IInv, Shaped
<1>2. DOMAIN call' = Clients /\ call'[c] = NoCall /\ order.quantity \in Quantities
  BY DEF Write, IInv, Shaped
<1>3. CASE /\ req' = [req EXCEPT ![order.quantity] = vector] /\ follows' = order.quantity
           /\ asked' = asked \cup Elements(order.list)
           /\ wild' = (wild \/ \E j \in ArmJoints : vector[j] = Garbage)
  <2>1. IsVector(vector) /\ \A j \in ArmJoints : j \notin Elements(order.list) => vector[j] = call[c].local[j]
    BY DEF IsVector, Changed
  <2>2. Measured(req')
    BY <1>2, <1>3, <2>1 DEF IInv, Shaped, Measured, Quantities
  <2>3. Shaped'
    BY <1>1, <1>2, <2>2 DEF Write, IInv, Shaped, NoCall, Order, Quantities
  <2>4. ASSUME ~wild' PROVE LocalStays' /\ ArmStays'
    <3>1. ~wild /\ \A j \in ArmJoints : vector[j] # Garbage
      BY <1>3, <2>4
    <3>2. \A j \in ArmJoints \ asked' : j \notin asked /\ vector[j] = Still[order.quantity][j]
      BY <1>3, <2>1, <3>1 DEF Write, IInv, LocalStays
    <3>3. LocalStays'
      BY <1>1, <1>2, <1>3, <3>1 DEF IInv, LocalStays, NoCall
    <3>4. \A q \in Quantities : req'[q] = IF q = order.quantity THEN vector ELSE req[q]
      BY <1>2, <1>3 DEF IInv, Shaped, Measured, Quantities
    <3>5. ArmStays'
      BY <1>3, <3>1, <3>2, <3>4 DEF Write, IInv, ArmStays
    <3> QED BY <3>3, <3>5
  <2> QED BY <2>3, <2>4 DEF IInv
<1>4. CASE UNCHANGED <<req, follows, asked, wild>>
  <2>1. Shaped'
    BY <1>1, <1>2, <1>4 DEF Write, IInv, Shaped, Measured, NoCall, Order, Quantities
  <2>2. actual' = actual
    BY DEF Write
  <2>3. NoCall.at # "write"
    BY DEF NoCall
  <2>4. ~wild' => LocalStays'
    BY <1>1, <1>2, <1>4, <2>3 DEF IInv, LocalStays
  <2>5. ~wild' => ArmStays'
    BY <1>4, <2>2 DEF IInv, ArmStays
  <2> QED BY <2>1, <2>4, <2>5 DEF IInv
<1> QED BY <1>3, <1>4 DEF Write

\* The arm follows: a joint that was never told another value stays.
LEMMA TravelKeeps ==
  ASSUME IInv, NEW j \in ArmJoints, Travel(j)
  PROVE  IInv'
<1>1. Measured(actual') /\ \A q \in Quantities, k \in ArmJoints \ {j} : actual'[q][k] = actual[q][k]
  BY DEF Travel, IInv, Shaped, Measured, IsVector, Quantities
<1>2. Shaped'
  BY <1>1 DEF Travel, IInv, Shaped, Measured
<1>3. ASSUME j \notin asked PROVE \A q \in Quantities : actual'[q][j] = Still[q][j]
  <2>1. \A q \in Quantities : actual[q][j] = Still[q][j] /\ req[q][j] = Still[q][j]
    BY <1>3 DEF Travel, IInv, ArmStays
  <2>2. Still.positions[j] = 0 /\ Still.velocities[j] = 0 /\ Still.currents[j] = 1
    BY DEF Still
  <2>3. Bounded(0) = 0 /\ Toward(0, 0) = 0
    BY TopAssumption DEF Bounded, Toward
  <2>4. actual.positions[j] = 0 /\ actual.velocities[j] = 0 /\ actual.currents[j] = 1
        /\ req.positions[j] = 0 /\ req.velocities[j] = 0 /\ req.currents[j] = 1
    BY <2>1, <2>2 DEF Quantities
  <2>5. CASE follows = "positions"
    BY <2>2, <2>3, <2>4, <2>5 DEF Travel, IInv, Shaped, Measured, IsVector, Quantities
  <2>6. CASE follows = "velocities"
    <3>1. actual' = [[actual EXCEPT !.velocities[j] = req.velocities[j]]
                       EXCEPT !.positions[j] = Bounded(@ + req.velocities[j])]
      BY <2>6 DEF Travel
    <3>2. /\ actual'.velocities[j] = req.velocities[j] /\ actual'.currents[j] = actual.currents[j]
          /\ actual'.positions[j] = Bounded(actual.positions[j] + req.velocities[j])
      BY <3>1 DEF IInv, Shaped, Measured, IsVector
    <3> QED BY <2>2, <2>3, <2>4, <3>2 DEF Quantities
  <2>7. CASE follows = "currents"
    BY <2>2, <2>4, <2>7 DEF Travel, IInv, Shaped, Measured, IsVector, Quantities
  <2> QED BY <2>5, <2>6, <2>7 DEF Travel, Quantities
<1>4. UNCHANGED <<req, call, asked, wild>>
  BY DEF Travel, ghosts
<1>5. ~wild => LocalStays'
  BY <1>4 DEF IInv, LocalStays
<1>6. ~wild => ArmStays'
  BY <1>1, <1>3, <1>4 DEF IInv, ArmStays
<1> QED BY <1>2, <1>4, <1>5, <1>6 DEF IInv

\* No call breaks it.
LEMMA Inductive == Spec => []IInv
<1>1. IInv /\ [Next]_vars => IInv'
  <2> SUFFICES ASSUME IInv, [Next]_vars PROVE IInv'
    OBVIOUS
  <2>1. ASSUME NEW c \in Clients, Read(c) \/ Write(c) \/ \E order \in Orders : Call(c, order) PROVE IInv'
    BY <2>1, CallKeeps, ReadKeeps, WriteKeeps
  <2>2. ASSUME NEW j \in ArmJoints, Travel(j) PROVE IInv'
    BY <2>2, TravelKeeps
  <2>3. CASE Hold
    <3>1. Shaped'
      BY <2>3 DEF Hold, IInv, Shaped, Measured
    <3> QED BY <2>3, <3>1 DEF Hold, IInv, Shaped, Measured, LocalStays, ArmStays, ghosts, Quantities, Still
  <2>4. CASE \/ Connect \/ Close \/ Over \/ Stop \/ AskJointInfo \/ NotAvailable
             \/ \E mode \in {"POSITION", "VELOCITY"} : setControlMode(mode)
    BY <2>4 DEF Connect, Close, Over, Stop, AskJointInfo, NotAvailable, setControlMode, vars, arm, ghosts,
                IInv, Shaped, Measured, LocalStays, ArmStays
  <2>5. CASE UNCHANGED vars
    BY <2>5 DEF vars, arm, ghosts, IInv, Shaped, Measured, LocalStays, ArmStays
  <2> QED BY <2>1, <2>2, <2>3, <2>4, <2>5 DEF Next
<1> QED BY InitIInv, <1>1, PTL DEF Spec

\* For any joints, clients and orders: a joint that no order was about stays where it was
\* and is told to, as long as no order is made of memory that was never written.
THEOREM Undisturbed == Spec => []UnaskedStays
<1>1. IInv => UnaskedStays
  BY DEF IInv, ArmStays, UnaskedStays, Quantities, getEncoders, getTargetPositions, getEncoderSpeeds,
         getRefVelocities, getCurrents, getRefCurrents
<1> QED BY Inductive, <1>1, PTL
-----------------------------------------------------------------------------
(* IposNode: types of what is under way *)

\* What a call is made of: only the monitor resets the node.
ClientSteps ==
  [k : {"setup", "heartbeat", "start", "booted", "configured", "confirm", "unvelocity", "unfault", "faultreset"},
   v : {"none"}]
    \cup [k : {"state"}, v : {"SWITCHED_ON", "OPERATION_ENABLED"}]
    \cup [k : {"select"}, v : DriveModes] \cup [k : {"map"}, v : Objects]
    \cup [k : {"word"}, v : {"4", "5", "6", "reset"}]
    \cup [k : {"mode"}, v : ModeNames] \cup [k : {"await"}, v : Motion \cup {"IDLE"}]
StepsOf(t) == IF t = "client" THEN ClientSteps ELSE ClientSteps \cup [k : {"wipe", "resetnode"}, v : {"none"}]

Frames ==
  [t : {"tpdo"}, st : DriveStates \ {"NOT_READY_TO_SWITCH_ON"}, disp : DriveModes, to : {"all"}]
    \cup [t : {"boot"}, st : {"none"}, disp : {"none"}, to : {"all"}]
    \cup [t : {"reply"}, st : {"none"}, disp : {"none"}, to : Threads]

CallTyped(c, t) ==
  /\ c \in [pc : {"idle", "next", "asked", "opening", "waiting", "woken"}, todo : Seq(StepsOf(t)), init : BOOLEAN]
  /\ c.pc \notin {"idle", "next"} => c.todo # <<>>
CallsTyped ==
  /\ DOMAIN nodeCall = Threads /\ nodeCall = [t \in Threads |-> nodeCall[t]]
  /\ \A t \in Threads : CallTyped(nodeCall[t], t)

AtObserver == {"waiting", "woken"}
OneWaits == ~(nodeCall["client"].pc \in AtObserver /\ nodeCall["monitor"].pc \in AtObserver)

DriveRecords ==
  [st : DriveStates \ {"NOT_READY_TO_SWITCH_ON"}, sel : DriveModes, disp : DriveModes, map : Objects,
   nmt : {"PRE_OPERATIONAL", "OPERATIONAL"}, hb : BOOLEAN]
DriveTyped == dr \in DriveRecords

NodeTyped ==
  /\ conf \in Confs /\ (rpc = <<>> \/ (DOMAIN rpc = {1} /\ rpc[1] \in Confs))
  /\ actualMode \in ControlModes \/ "written" \in masked
  /\ modes \in DriveModes /\ sw \in DriveStates /\ requested \in ModeNames \cup {"none"}
  /\ {sync, beat, refused} \subseteq BOOLEAN /\ masked \subseteq {"written", "wiped"}
  /\ DriveTyped /\ nodeFrames \in Seq(Frames) /\ trouble \in 0..MaxTrouble

\* The mode of the drive that a mode of motion stands for.
Shows(mode, disp) ==
  /\ mode = "POSITION" => disp = "pp"
  /\ mode = "VELOCITY" => disp \in {"pv", "csp"}
  /\ mode \in External => disp = "torque"
  /\ mode = "POSITION_DIRECT" => disp \in {"csp", "ip"}

\* The last TPDO under way tells what the drive is in.
NoneUnderWay(frames) == \A i \in 1..Len(frames) : frames[i].t # "tpdo"
LastOne(frames, i) ==
  /\ i \in 1..Len(frames) /\ frames[i].t = "tpdo"
  /\ \A j \in 1..Len(frames) : j > i => frames[j].t # "tpdo"
LastTells(frames, d) == \A i \in 1..Len(frames) : LastOne(frames, i) => frames[i].st = d.st /\ frames[i].disp = d.disp

Told ==
  /\ dr.nmt = "OPERATIONAL" => LastTells(nodeFrames, dr)
  /\ masked = {} => Shows(actualMode, modes)
  /\ dr.nmt = "OPERATIONAL" /\ NoneUnderWay(nodeFrames) /\ masked = {} =>
       Shows(actualMode, dr.disp) /\ (dr.st = "FAULT" => actualMode = "HW_FAULT")

NodeInv == CallsTyped /\ OneWaits /\ NodeTyped /\ Told

-----------------------------------------------------------------------------
(* The lists of steps *)

LEMMA OneStep ==
  ASSUME NEW kind, NEW value, [k |-> kind, v |-> value] \in ClientSteps
  PROVE  Do(kind, value) \in Seq(ClientSteps)
BY DEF Do

LEMMA TwoLists ==
  ASSUME NEW t \in Threads, NEW a \in Seq(StepsOf(t)), NEW b \in Seq(StepsOf(t))
  PROVE  a \o b \in Seq(StepsOf(t))
BY ConcatProperties

\* What a client may be asked for, the monitor may.
LEMMA AnyThread ==
  ASSUME NEW t \in Threads, NEW a \in Seq(ClientSteps)
  PROVE  a \in Seq(StepsOf(t))
BY DEF StepsOf

\* Each step that a call is made of.
LEMMA StepsKnown ==
  /\ \A v \in {"SWITCHED_ON", "OPERATION_ENABLED"} : Do("state", v) \in Seq(ClientSteps)
  /\ \A v \in DriveModes : Do("select", v) \in Seq(ClientSteps)
  /\ \A v \in Objects : Do("map", v) \in Seq(ClientSteps)
  /\ \A v \in {"4", "5", "6", "reset"} : Do("word", v) \in Seq(ClientSteps)
  /\ \A v \in ModeNames : Do("mode", v) \in Seq(ClientSteps)
  /\ \A v \in Motion \cup {"IDLE"} : Do("await", v) \in Seq(ClientSteps)
  /\ \A k \in {"setup", "heartbeat", "start", "booted", "configured", "confirm", "unvelocity", "unfault",
               "faultreset"} : Do(k, "none") \in Seq(ClientSteps)
  /\ <<>> \in Seq(ClientSteps)
<1>1. \A v \in {"SWITCHED_ON", "OPERATION_ENABLED"} : Do("state", v) \in Seq(ClientSteps)
  BY OneStep DEF ClientSteps
<1>2. \A v \in DriveModes : Do("select", v) \in Seq(ClientSteps)
  BY OneStep DEF ClientSteps
<1>3. \A v \in Objects : Do("map", v) \in Seq(ClientSteps)
  BY OneStep DEF ClientSteps
<1>4. \A v \in {"4", "5", "6", "reset"} : Do("word", v) \in Seq(ClientSteps)
  BY OneStep DEF ClientSteps
<1>5. \A v \in ModeNames : Do("mode", v) \in Seq(ClientSteps)
  BY OneStep DEF ClientSteps
<1>6. \A v \in Motion \cup {"IDLE"} : Do("await", v) \in Seq(ClientSteps)
  BY OneStep DEF ClientSteps
<1>7. \A k \in {"setup", "heartbeat", "start", "booted", "configured", "confirm", "unvelocity", "unfault",
                "faultreset"} : Do(k, "none") \in Seq(ClientSteps)
  BY OneStep DEF ClientSteps
<1>8. QED
  BY <1>1, <1>2, <1>3, <1>4, <1>5, <1>6, <1>7

\* What setControlModeRaw does for a mode.
LEMMA ModeSteps ==
  ASSUME NEW mode \in ModeNames, conf.csv \in BOOLEAN, conf.ip \in BOOLEAN
  PROVE  Steps(mode) \in Seq(ClientSteps) /\ Awaited(mode) \in Seq(ClientSteps)
<1>1. Awaited(mode) \in Seq(ClientSteps)
  BY StepsKnown DEF Awaited
<1>2. \A a, b \in Seq(ClientSteps) : a \o b \in Seq(ClientSteps)
  BY ConcatProperties
<1>3. CASE mode = "POSITION"
  BY <1>1, <1>2, <1>3, StepsKnown DEF Steps, DriveModes, External
<1>4. CASE mode = "VELOCITY"
  <2>1. CASE conf.csv
    BY <1>1, <1>2, <1>4, <2>1, StepsKnown DEF Steps, DriveModes, Objects
  <2>2. CASE ~conf.csv
    BY <1>1, <1>2, <1>4, <2>2, StepsKnown DEF Steps, DriveModes, Objects
  <2>3. QED
    BY <2>1, <2>2
<1>5. CASE mode \in External
  BY <1>1, <1>2, <1>5, StepsKnown DEF Steps, DriveModes, Objects, External
<1>6. CASE mode = "POSITION_DIRECT"
  <2>1. CASE conf.ip
    BY <1>1, <1>2, <1>6, <2>1, StepsKnown DEF Steps, DriveModes, Objects, External
  <2>2. CASE ~conf.ip
    BY <1>1, <1>2, <1>6, <2>2, StepsKnown DEF Steps, DriveModes, Objects, External
  <2>3. QED
    BY <2>1, <2>2
<1>7. CASE mode = "FORCE_IDLE"
  BY <1>1, <1>2, <1>7, StepsKnown DEF Steps, DriveModes, External
<1>8. CASE mode = "IDLE"
  BY <1>1, <1>2, <1>8, StepsKnown DEF Steps, DriveModes, External
<1>9. QED
  BY <1>3, <1>4, <1>5, <1>6, <1>7, <1>8 DEF ModeNames, Motion, External

LEMMA InitializeSteps == Initialize \in Seq(ClientSteps) /\ Initialize # <<>>
<1>1. \A a, b \in Seq(ClientSteps) : a \o b \in Seq(ClientSteps)
  BY ConcatProperties
<1>2. InitialMode \in ModeNames
  BY NodeAssumption
<1>3. Initialize \in Seq(ClientSteps)
  BY <1>1, <1>2, StepsKnown DEF Initialize
<1>4. Initialize # <<>>
  BY <1>1, <1>2, StepsKnown, ConcatProperties, SMTT(30) DEF Initialize, Do
<1>5. QED
  BY <1>3, <1>4

-----------------------------------------------------------------------------
(* How calls go on *)

\* The thread's own call, when only that changes.
LEMMA OneCallChanges ==
  ASSUME CallsTyped, NEW t \in Threads, NEW c, CallTyped(c, t), nodeCall' = [nodeCall EXCEPT ![t] = c]
  PROVE  /\ CallsTyped'
         /\ OneWaits /\ c.pc \notin AtObserver => OneWaits'
<1>1. \A u \in Threads : nodeCall'[u] = IF u = t THEN c ELSE nodeCall[u]
  BY DEF CallsTyped
<1>2. CallsTyped'
  BY <1>1 DEF CallsTyped
<1>3. ASSUME OneWaits, c.pc \notin AtObserver PROVE OneWaits'
  BY <1>1, <1>3 DEF OneWaits, Threads
<1>4. QED
  BY <1>2, <1>3

LEMMA StartsTyped ==
  ASSUME NEW t \in Threads, NEW todo \in Seq(StepsOf(t)), NEW init \in BOOLEAN
  PROVE  CallTyped(Starts(todo, init), t) /\ Starts(todo, init).pc = "next"
BY DEF CallTyped, Starts

LEMMA IdleTyped == \A t \in Threads : CallTyped(Idle, t) /\ Idle.pc = "idle"
BY DEF CallTyped, Idle

LEMMA ProceedsTyped ==
  ASSUME CallsTyped, OneWaits, NEW t \in Threads, NEW todo \in Seq(StepsOf(t)), Proceeds(t, todo)
  PROVE  CallsTyped' /\ OneWaits'
<1>1. CASE todo = <<>>
  <2>1. nodeCall' = [nodeCall EXCEPT ![t] = Idle]
    BY <1>1 DEF Proceeds
  <2>2. QED
    BY <2>1, OneCallChanges, IdleTyped DEF AtObserver
<1>2. CASE todo # <<>>
  <2> DEFINE c == [nodeCall[t] EXCEPT !.pc = "next", !.todo = todo]
  <2>1. nodeCall' = [nodeCall EXCEPT ![t] = c]
    BY <1>2 DEF Proceeds
  <2>2. CallTyped(c, t) /\ c.pc = "next"
    BY DEF CallsTyped, CallTyped
  <2>3. QED
    BY <2>1, <2>2, OneCallChanges DEF AtObserver
<1>3. QED
  BY <1>1, <1>2

LEMMA FailsTyped ==
  ASSUME CallsTyped, OneWaits, NEW t \in Threads, Fails(t)
  PROVE  CallsTyped' /\ OneWaits'
<1> DEFINE again == t = "monitor" /\ nodeCall[t].init
           c == IF again THEN Starts(Do("resetnode", "none"), FALSE) ELSE Idle
<1>1. nodeCall' = [nodeCall EXCEPT ![t] = c]
  BY DEF Fails, CallsTyped
<1>2. CallTyped(c, t) /\ c.pc \in {"next", "idle"}
  <2>1. CASE again
    <3>1. Do("resetnode", "none") \in Seq(StepsOf(t))
      BY <2>1 DEF Do, StepsOf
    <3>2. QED
      BY <2>1, <3>1, StartsTyped
  <2>2. CASE ~again
    BY <2>2, IdleTyped
  <2>3. QED
    BY <2>1, <2>2
<1>3. QED
  BY <1>1, <1>2, OneCallChanges DEF AtObserver

\* What is left of a call.
LEMMA AtTyped ==
  ASSUME CallsTyped, NEW t \in Threads, nodeCall[t].todo # <<>>
  PROVE  /\ Head(nodeCall[t].todo) \in StepsOf(t) /\ Arg(t) = Head(nodeCall[t].todo).v
         /\ Remaining(t) \in Seq(StepsOf(t)) /\ Remaining(t) = Tail(nodeCall[t].todo)
         /\ CallTyped(nodeCall[t], t)
BY HeadTailProperties DEF CallsTyped, CallTyped, Arg, Remaining

-----------------------------------------------------------------------------
(* Types *)

TypedInv == CallsTyped /\ OneWaits /\ NodeTyped

LEMMA NodeInitTyped == NodeInit => TypedInv
<1> SUFFICES ASSUME NodeInit PROVE TypedInv
  OBVIOUS
<1>1. CallTyped(Starts(Initialize, TRUE), "client") /\ Starts(Initialize, TRUE).pc = "next"
  BY InitializeSteps, StartsTyped, AnyThread DEF Threads
<1>2. CallsTyped /\ OneWaits
  BY <1>1, IdleTyped DEF NodeInit, CallsTyped, OneWaits, Threads, AtObserver
<1>3. DriveTyped
  BY DEF NodeInit, DriveTyped, DriveRecords, Booted, DriveStates, DriveModes, Objects
<1>4. trouble \in 0..MaxTrouble
  BY NodeAssumption DEF NodeInit
<1>5. nodeFrames \in Seq(Frames) /\ conf \in Confs /\ rpc = <<>>
  BY DEF NodeInit
<1>6. modes \in DriveModes /\ sw \in DriveStates /\ requested \in ModeNames \cup {"none"} /\ actualMode \in ControlModes
  BY DEF NodeInit, DriveStates, DriveModes, ControlModes
<1>7. {sync, beat, refused} \subseteq BOOLEAN /\ masked \subseteq {"written", "wiped"}
  BY DEF NodeInit
<1>8. QED
  BY <1>2, <1>3, <1>4, <1>5, <1>6, <1>7 DEF TypedInv, NodeTyped

LEMMA FramesKnown ==
  /\ \A st \in DriveStates \ {"NOT_READY_TO_SWITCH_ON"}, disp \in DriveModes : Tpdo(st, disp) \in Seq(Frames)
  /\ Boot \in Seq(Frames) /\ \A t \in Threads : Reply(t) \in Seq(Frames)
  /\ \A a, b \in Seq(Frames) : a \o b \in Seq(Frames)
<1>1. \A st \in DriveStates \ {"NOT_READY_TO_SWITCH_ON"}, disp \in DriveModes :
         [t |-> "tpdo", st |-> st, disp |-> disp, to |-> "all"] \in Frames
  BY DEF Frames
<1>2. [t |-> "boot", st |-> "none", disp |-> "none", to |-> "all"] \in Frames
  BY DEF Frames
<1>3. \A t \in Threads : [t |-> "reply", st |-> "none", disp |-> "none", to |-> t] \in Frames
  BY DEF Frames
<1>4. QED
  BY <1>1, <1>2, <1>3, ConcatProperties DEF Tpdo, Boot, Reply

LEMMA TroubleCounted == NodeTyped /\ (Trouble \/ UNCHANGED trouble) => trouble' \in 0..MaxTrouble
BY NodeAssumption DEF NodeTyped, Trouble

\* Steps that the drive and the mode take no notice of.
LEMMA QuietTyped ==
  ASSUME NodeTyped, UNCHANGED <<conf, rpc, actualMode, modes, sw, dr, nodeFrames, refused, masked>>,
         sync' \in BOOLEAN, beat' \in BOOLEAN, requested' \in ModeNames \cup {"none"}, Trouble \/ UNCHANGED trouble
  PROVE  NodeTyped'
<1>1. trouble' \in 0..MaxTrouble
  BY TroubleCounted
<1>2. QED
  BY <1>1 DEF NodeTyped, DriveTyped

LEMMA ProceedingTyped ==
  ASSUME TypedInv, NEW t \in Threads, Proceeds(t, Remaining(t)) \/ Fails(t), nodeCall[t].todo # <<>>
  PROVE  CallsTyped' /\ OneWaits'
<1>1. CASE Proceeds(t, Remaining(t))
  BY <1>1, AtTyped, ProceedsTyped DEF TypedInv
<1>2. CASE Fails(t)
  BY <1>2, FailsTyped DEF TypedInv
<1>3. QED
  BY <1>1, <1>2

\* What a step asks for.
LEMMA AtArg ==
  ASSUME TypedInv, NEW t \in Threads, NEW kind, At(t, kind)
  PROVE  /\ nodeCall[t].todo # <<>> /\ nodeCall[t].pc = "next"
         /\ Head(nodeCall[t].todo) = [k |-> kind, v |-> Arg(t)] /\ Head(nodeCall[t].todo) \in StepsOf(t)
         /\ Remaining(t) \in Seq(StepsOf(t))
<1>1. nodeCall[t].todo # <<>> /\ nodeCall[t].pc = "next" /\ Head(nodeCall[t].todo).k = kind
  BY DEF At
<1>2. Head(nodeCall[t].todo) \in StepsOf(t) /\ Arg(t) = Head(nodeCall[t].todo).v /\ Remaining(t) \in Seq(StepsOf(t))
  BY <1>1, AtTyped DEF TypedInv
<1>3. Head(nodeCall[t].todo) = [k |-> Head(nodeCall[t].todo).k, v |-> Head(nodeCall[t].todo).v]
  BY <1>2 DEF StepsOf, ClientSteps
<1>4. QED
  BY <1>1, <1>2, <1>3

LEMMA EnterTyped == ASSUME TypedInv, NEW t \in Threads, Enter(t) PROVE TypedInv'
<1> DEFINE again == Arg(t) = actualMode \/ (actualMode \in External /\ Arg(t) \in External)
           through == Do("word", "reset") \o (IF actualMode \in External THEN Do("select", "homing") ELSE <<>>)
                        \o Steps(Arg(t)) \o Awaited(Arg(t))
<1>1. At(t, "mode")
  BY DEF Enter
<1>2. Arg(t) \in ModeNames
  <2>1. [k |-> "mode", v |-> Arg(t)] \in StepsOf(t)
    BY <1>1, AtArg
  <2>2. QED
    BY <2>1 DEF StepsOf, ClientSteps
<1>3. conf.csv \in BOOLEAN /\ conf.ip \in BOOLEAN
  BY NodeAssumption DEF TypedInv, NodeTyped
<1>4. through \in Seq(StepsOf(t))
  <2>1. Do("word", "reset") \in Seq(ClientSteps) /\ Do("select", "homing") \in Seq(ClientSteps)
    BY StepsKnown DEF DriveModes
  <2>2. Steps(Arg(t)) \in Seq(ClientSteps) /\ Awaited(Arg(t)) \in Seq(ClientSteps)
    BY <1>2, <1>3, ModeSteps
  <2>3. \A a, b \in Seq(ClientSteps) : a \o b \in Seq(ClientSteps)
    BY ConcatProperties
  <2>4. through \in Seq(ClientSteps)
    BY <2>1, <2>2, <2>3
  <2>5. QED
    BY <2>4, AnyThread
<1>5. Do("confirm", "none") \in Seq(StepsOf(t))
  BY StepsKnown, AnyThread
<1>6. CallsTyped' /\ OneWaits'
  <2>1. Proceeds(t, IF again THEN Do("confirm", "none") ELSE through)
    BY DEF Enter
  <2>2. QED
    BY <1>4, <1>5, <2>1, ProceedsTyped DEF TypedInv
<1>7. NodeTyped'
  BY <1>2, QuietTyped DEF Enter, TypedInv, NodeTyped, watch
<1>8. QED
  BY <1>6, <1>7 DEF TypedInv

LEMMA ConfirmTyped == ASSUME TypedInv, NEW t \in Threads, Confirm(t) PROVE TypedInv'
<1>1. CallsTyped' /\ OneWaits'
  BY ProceedingTyped DEF Confirm, At
<1>2. actualMode' \in ControlModes \/ "written" \in masked'
  BY DEF Confirm, TypedInv, NodeTyped, ControlModes, External, Motion
<1>3. NodeTyped'
  BY <1>2 DEF Confirm, TypedInv, NodeTyped, DriveTyped, watch
<1>4. QED
  BY <1>1, <1>3 DEF TypedInv

\* Steps that ask the drive for nothing and go on, or fail.
LEMMA SmallStepsTyped ==
  ASSUME TypedInv, NEW t \in Threads,
         \/ LeaveVelocity(t) \/ LeaveFault(t) \/ WriteWord(t) \/ AlreadyThere(t) \/ NoWay(t) \/ NodeStarted(t)
         \/ NodeSilent(t) \/ NoReply(t) \/ ModeIsThere(t) \/ ModeChanged(t) \/ Expire(t)
  PROVE  TypedInv'
<1>1. NodeTyped'
  <2>1. /\ UNCHANGED <<conf, rpc, node, dr, nodeFrames, refused, masked, beat>>
        /\ Trouble \/ UNCHANGED trouble
    BY DEF LeaveVelocity, LeaveFault, WriteWord, AlreadyThere, NoWay, NodeStarted, NodeSilent, NoReply, ModeIsThere,
           ModeChanged, Expire, watch
  <2>2. QED
    BY <2>1, QuietTyped DEF TypedInv, NodeTyped, node
<1>2. CallsTyped' /\ OneWaits'
  <2>1. CASE \/ WriteWord(t) \/ AlreadyThere(t) \/ NoWay(t) \/ NodeStarted(t) \/ NodeSilent(t) \/ ModeIsThere(t)
    <3>1. nodeCall[t].todo # <<>> /\ (Proceeds(t, Remaining(t)) \/ Fails(t))
      BY <2>1 DEF WriteWord, AlreadyThere, NoWay, NodeStarted, NodeSilent, ModeIsThere, At
    <3>2. QED
      BY <3>1, ProceedingTyped
  <2>2. CASE NoReply(t) \/ ModeChanged(t) \/ Expire(t)
    <3>1. nodeCall[t].pc \notin {"idle", "next"} /\ (Proceeds(t, Remaining(t)) \/ Fails(t))
      BY <2>2 DEF NoReply, ModeChanged, Expire
    <3>2. nodeCall[t].todo # <<>>
      BY <3>1 DEF TypedInv, CallsTyped, CallTyped
    <3>3. QED
      BY <3>1, <3>2, ProceedingTyped
  <2>3. CASE LeaveVelocity(t)
    <3> DEFINE todo == (IF actualMode = "VELOCITY" /\ ~conf.csv THEN Do("select", "homing") ELSE <<>>) \o Remaining(t)
    <3>1. Remaining(t) \in Seq(StepsOf(t)) /\ Proceeds(t, todo)
      BY <2>3, AtArg DEF LeaveVelocity
    <3>2. Do("select", "homing") \in Seq(StepsOf(t)) /\ <<>> \in Seq(StepsOf(t))
      BY StepsKnown, AnyThread DEF DriveModes
    <3>3. todo \in Seq(StepsOf(t))
      BY <3>1, <3>2, TwoLists
    <3>4. QED
      BY <3>1, <3>3, ProceedsTyped DEF TypedInv
  <2>4. CASE LeaveFault(t)
    <3> DEFINE todo == (IF actualMode = "HW_FAULT" THEN Do("faultreset", "none") ELSE <<>>) \o Remaining(t)
    <3>1. Remaining(t) \in Seq(StepsOf(t)) /\ Proceeds(t, todo)
      BY <2>4, AtArg DEF LeaveFault
    <3>2. Do("faultreset", "none") \in Seq(StepsOf(t)) /\ <<>> \in Seq(StepsOf(t))
      BY StepsKnown, AnyThread
    <3>3. todo \in Seq(StepsOf(t))
      BY <3>1, <3>2, TwoLists
    <3>4. QED
      BY <3>1, <3>3, ProceedsTyped DEF TypedInv
  <2>5. QED
    BY <2>1, <2>2, <2>3, <2>4
<1>3. QED
  BY <1>1, <1>2 DEF TypedInv

\* Steps that only wait: for a reply, for the observer, and for the mode.
LEMMA WaitsTyped ==
  ASSUME TypedInv, NEW t \in Threads, ModeIsNot(t) \/ OpenWindow(t)
  PROVE  TypedInv'
<1> DEFINE c(pc) == [nodeCall[t] EXCEPT !.pc = pc]
<1>1. NodeTyped'
  BY QuietTyped DEF ModeIsNot, OpenWindow, TypedInv, NodeTyped, node, watch, nodeGhosts
<1>2. CASE ModeIsNot(t)
  <2>1. nodeCall' = [nodeCall EXCEPT ![t] = c("opening")]
    BY <1>2 DEF ModeIsNot
  <2>2. CallTyped(c("opening"), t) /\ c("opening").pc = "opening"
    BY <1>2 DEF ModeIsNot, At, TypedInv, CallsTyped, CallTyped
  <2>3. QED
    BY <1>1, <2>1, <2>2, OneCallChanges DEF AtObserver, TypedInv
<1>3. CASE OpenWindow(t)
  <2>1. nodeCall' = [nodeCall EXCEPT ![t] = c("waiting")]
    BY <1>3 DEF OpenWindow
  <2>2. CallTyped(c("waiting"), t)
    BY <1>3 DEF OpenWindow, TypedInv, CallsTyped, CallTyped
  <2>3. CallsTyped'
    BY <2>1, <2>2, OneCallChanges DEF TypedInv
  <2>4. \A u \in Threads \ {t} : nodeCall'[u].pc \notin AtObserver
    BY <1>3, <2>1 DEF OpenWindow, TypedInv, CallsTyped, AtObserver
  <2>5. OneWaits'
    BY <2>4 DEF OneWaits, Threads
  <2>6. QED
    BY <1>1, <2>3, <2>5 DEF TypedInv
<1>4. QED
  BY <1>2, <1>3

LEMMA ConfiguredTyped == ASSUME TypedInv, NEW t \in Threads, Configured(t) PROVE TypedInv'
<1> DEFINE c == [nodeCall[t] EXCEPT !.todo = Remaining(t), !.init = FALSE]
<1>1. Remaining(t) \in Seq(StepsOf(t)) /\ nodeCall[t].pc = "next" /\ CallTyped(nodeCall[t], t)
  BY AtArg DEF Configured, TypedInv, CallsTyped
<1>2. CallTyped(c, t) /\ c.pc = "next"
  BY <1>1 DEF CallTyped
<1>3. nodeCall' = [nodeCall EXCEPT ![t] = c]
  BY DEF Configured, Remaining, TypedInv, CallsTyped
<1>4. CallsTyped' /\ OneWaits'
  BY <1>2, <1>3, OneCallChanges DEF AtObserver, TypedInv
<1>5. NodeTyped'
  BY DEF Configured, TypedInv, NodeTyped, DriveTyped, ControlModes
<1>6. QED
  BY <1>4, <1>5 DEF TypedInv

\* The states that requestState passes, in their order, and the last of them.
LEMMA Ranks ==
  /\ Rank("SWITCH_ON_DISABLED") = 1 /\ Rank("SWITCHED_ON") = 2 /\ Rank("OPERATION_ENABLED") = 3
  /\ Rank("FAULT") = 0
<1>1. Chain[1] = "SWITCH_ON_DISABLED" /\ Chain[2] = "SWITCHED_ON" /\ Chain[3] = "OPERATION_ENABLED"
  BY DEF Chain
<1>2. Rank("SWITCH_ON_DISABLED") = 1
  BY <1>1 DEF Rank
<1>3. Rank("SWITCHED_ON") = 2
  BY <1>1 DEF Rank
<1>4. Rank("OPERATION_ENABLED") = 3
  BY <1>1 DEF Rank
<1>5. Rank("FAULT") = 0
  BY <1>1 DEF Rank
<1>6. QED
  BY <1>2, <1>3, <1>4, <1>5

Powered == DriveStates \ {"NOT_READY_TO_SWITCH_ON"}

LEMMA WayEnds ==
  ASSUME NEW from \in Powered, NEW to \in Powered
  PROVE  /\ Way(from, to) \in Seq(Powered) /\ Len(Way(from, to)) > 0
         /\ Way(from, to)[Len(Way(from, to))] = to
<1> DEFINE n == IF Rank(from) < Rank(to) THEN Rank(to) - Rank(from) ELSE 1
<1>1. Powered = {"FAULT", "SWITCH_ON_DISABLED", "SWITCHED_ON", "OPERATION_ENABLED"}
  BY DEF Powered, DriveStates
<1>2. Rank(from) \in 0..3 /\ Rank(to) \in 0..3 /\ (Rank(to) > 0 => Chain[Rank(to)] = to)
  BY <1>1, Ranks DEF Chain
<1>3. \A k \in 1..3 : Chain[k] \in Powered
  BY <1>1 DEF Chain
<1>4. n \in 1..3
  BY <1>2
<1>5. Way(from, to) = [k \in 1..n |-> IF Rank(from) < Rank(to) THEN Chain[Rank(from) + k] ELSE to]
  BY DEF Way
<1> HIDE DEF n
<1>6. \A k \in 1..n : Way(from, to)[k] \in Powered
  BY <1>2, <1>3, <1>4, <1>5 DEF n
<1>7. Way(from, to) \in Seq(Powered) /\ Len(Way(from, to)) = n
  BY <1>4, <1>5, <1>6
<1>8. Way(from, to)[n] = to
  <2>1. Way(from, to)[n] = IF Rank(from) < Rank(to) THEN Chain[Rank(from) + n] ELSE to
    BY <1>4, <1>5
  <2>2. Rank(from) < Rank(to) => Rank(from) + n = Rank(to) /\ Rank(to) > 0
    BY <1>2 DEF n
  <2>3. QED
    BY <1>2, <2>1, <2>2
<1>9. QED
  BY <1>4, <1>7, <1>8

\* What a drive that obeys sends, and the last thing it tells by that.
Obeyable == {"state", "faultreset", "select", "map", "heartbeat", "start", "setup"}
Tells(sent, d) ==
  \/ sent = <<>> /\ d.st = dr.st /\ d.disp = dr.disp /\ d.nmt = dr.nmt
  \/ ~NoneUnderWay(sent) /\ LastTells(sent, d)

LEMMA ObeyedTells ==
  ASSUME DriveTyped, NEW r \in ClientSteps, r.k \in Obeyable
  PROVE  /\ Obeyed(r) \in DriveRecords /\ Sent(r) \in Seq(Frames)
         /\ Tells(Sent(r), Obeyed(r))
<1> USE DEF DriveTyped
<1>1. dr.st \in Powered /\ dr.disp \in DriveModes
  BY DEF DriveRecords, Powered
<1>2. \A st \in Powered, disp \in DriveModes : Tpdo(st, disp) \in Seq(Frames) /\ ~NoneUnderWay(Tpdo(st, disp))
        /\ \A d : d.st = st /\ d.disp = disp => LastTells(Tpdo(st, disp), d)
  <2> SUFFICES ASSUME NEW st \in Powered, NEW disp \in DriveModes
               PROVE  /\ Tpdo(st, disp) \in Seq(Frames) /\ ~NoneUnderWay(Tpdo(st, disp))
                      /\ \A d : d.st = st /\ d.disp = disp => LastTells(Tpdo(st, disp), d)
    OBVIOUS
  <2>1. Tpdo(st, disp) \in Seq(Frames)
    BY FramesKnown DEF Powered
  <2>2. /\ Len(Tpdo(st, disp)) = 1 /\ Tpdo(st, disp)[1].t = "tpdo"
        /\ Tpdo(st, disp)[1].st = st /\ Tpdo(st, disp)[1].disp = disp
    BY DEF Tpdo
  <2>3. QED
    BY <2>1, <2>2 DEF NoneUnderWay, LastTells, LastOne
<1>3. CASE r.k = "state"
  <2>1. r.v \in {"SWITCHED_ON", "OPERATION_ENABLED"} /\ r.v \in Powered
    BY <1>3 DEF ClientSteps, Powered, DriveStates
  <2>2. Obeyed(r) = [dr EXCEPT !.st = r.v]
    BY <1>3 DEF Obeyed
  <2>3. CASE dr.st = r.v
    <3>1. Sent(r) = <<>>
      BY <1>3, <2>3 DEF Sent
    <3>2. QED
      BY <2>1, <2>2, <2>3, <3>1 DEF Tells, DriveRecords, Powered
  <2>4. CASE dr.st # r.v
    <3> DEFINE way == Way(dr.st, r.v)
    <3>1. way \in Seq(Powered) /\ Len(way) > 0 /\ way[Len(way)] = r.v
      BY <1>1, <2>1, WayEnds
    <3>2. Sent(r) = [k \in 1..Len(way) |-> [t |-> "tpdo", st |-> way[k], disp |-> dr.disp, to |-> "all"]]
      BY <1>3, <2>4, <3>1 DEF Sent, Tpdo
    <3>3. \A k \in 1..Len(way) : [t |-> "tpdo", st |-> way[k], disp |-> dr.disp, to |-> "all"] \in Frames
      BY <1>1, <3>1 DEF Frames, Powered
    <3>4. Sent(r) \in Seq(Frames) /\ Len(Sent(r)) = Len(way)
      BY <3>1, <3>2, <3>3
    <3>5. ~NoneUnderWay(Sent(r)) /\ LastTells(Sent(r), Obeyed(r))
      <4>1. \A k \in 1..Len(way) : Sent(r)[k].t = "tpdo" /\ Sent(r)[k].st = way[k] /\ Sent(r)[k].disp = dr.disp
        BY <3>2
      <4>2. Len(way) \in 1..Len(way) /\ Len(way) \in Nat
        BY <3>1
      <4>3. \A i : LastOne(Sent(r), i) => i = Len(way)
        BY <3>4, <4>1, <4>2 DEF LastOne
      <4>4. Obeyed(r).st = r.v /\ Obeyed(r).disp = dr.disp
        BY <2>2 DEF DriveRecords
      <4>5. QED
        BY <3>1, <3>4, <4>1, <4>2, <4>3, <4>4 DEF NoneUnderWay, LastTells
    <3>6. QED
      BY <2>1, <2>2, <3>4, <3>5 DEF Tells, DriveRecords, Powered
  <2>5. QED
    BY <2>3, <2>4
<1>4. CASE r.k = "faultreset"
  <2>1. Obeyed(r) = [dr EXCEPT !.st = "SWITCH_ON_DISABLED"] /\ Sent(r) = Tpdo("SWITCH_ON_DISABLED", dr.disp)
    BY <1>4 DEF Obeyed, Sent
  <2>2. "SWITCH_ON_DISABLED" \in Powered
    BY DEF Powered, DriveStates
  <2>3. QED
    BY <1>1, <1>2, <2>1, <2>2 DEF Tells, DriveRecords, Powered
<1>5. CASE r.k = "start"
  <2>1. Obeyed(r) = [dr EXCEPT !.nmt = "OPERATIONAL"] /\ Sent(r) = Tpdo(dr.st, dr.disp)
    BY <1>5 DEF Obeyed, Sent
  <2>2. QED
    BY <1>1, <1>2, <2>1 DEF Tells, DriveRecords
<1>6. CASE r.k \in {"select", "map", "heartbeat", "setup"}
  <2>1. Sent(r) = <<>> /\ Sent(r) \in Seq(Frames)
    BY <1>6 DEF Sent
  <2>2. r.k = "select" => r.v \in DriveModes
    BY DEF ClientSteps
  <2>3. r.k = "map" => r.v \in Objects
    BY DEF ClientSteps
  <2>4. \/ r.k = "select" /\ Obeyed(r) = [dr EXCEPT !.sel = r.v]
        \/ r.k = "map" /\ Obeyed(r) = [dr EXCEPT !.map = r.v]
        \/ r.k = "heartbeat" /\ Obeyed(r) = [dr EXCEPT !.hb = TRUE]
        \/ r.k = "setup" /\ Obeyed(r) = dr
    BY <1>6 DEF Obeyed
  <2>5. QED
    BY <2>1, <2>2, <2>3, <2>4 DEF Tells, DriveRecords
<1>7. QED
  BY <1>3, <1>4, <1>5, <1>6 DEF Obeyable

\* Requests are among what a drive can obey.
LEMMA RequestArg ==
  ASSUME TypedInv, NEW t \in Threads, Request(t) \/ StartNode(t)
  PROVE  /\ nodeCall[t].pc = "next" /\ nodeCall[t].todo # <<>> /\ Remaining(t) \in Seq(StepsOf(t))
         /\ Head(nodeCall[t].todo) \in ClientSteps /\ Head(nodeCall[t].todo).k \in Obeyable
<1>1. PICK kind \in Obeyable : At(t, kind)
  BY DEF Request, StartNode, Obeyable
<1>2. Head(nodeCall[t].todo).k = kind
  BY <1>1 DEF At
<1>3. Head(nodeCall[t].todo) \in ClientSteps
  BY <1>1, <1>2, AtArg DEF StepsOf, Obeyable
<1>4. QED
  BY <1>1, <1>2, <1>3, AtArg

LEMMA RequestTyped == ASSUME TypedInv, NEW t \in Threads, Request(t) PROVE TypedInv'
<1> DEFINE r == Head(nodeCall[t].todo)
           c == [nodeCall[t] EXCEPT !.pc = "asked"]
<1>1. r \in ClientSteps /\ r.k \in Obeyable /\ nodeCall[t].todo # <<>> /\ CallTyped(nodeCall[t], t)
  BY RequestArg DEF TypedInv, CallsTyped
<1>2. CallTyped(c, t) /\ c.pc = "asked"
  BY <1>1 DEF CallTyped
<1>3. nodeCall' = [nodeCall EXCEPT ![t] = c]
  BY DEF Request
<1>4. CallsTyped' /\ OneWaits'
  BY <1>2, <1>3, OneCallChanges DEF TypedInv, AtObserver
<1>5. Obeyed(r) \in DriveRecords /\ Sent(r) \in Seq(Frames) /\ Reply(t) \in Seq(Frames)
  BY <1>1, ObeyedTells, FramesKnown DEF TypedInv, NodeTyped
<1>6. DriveTyped' /\ nodeFrames' \in Seq(Frames)
  <2>1. nodeFrames \in Seq(Frames) /\ dr \in DriveRecords
    BY DEF TypedInv, NodeTyped, DriveTyped
  <2>2. nodeFrames \o Sent(r) \in Seq(Frames)
    BY <1>5, <2>1, FramesKnown
  <2>3. nodeFrames \o Sent(r) \o Reply(t) \in Seq(Frames)
    BY <1>5, <2>2, FramesKnown
  <2>4. /\ dr' \in {dr, Obeyed(r)}
        /\ nodeFrames' \in {nodeFrames, nodeFrames \o Sent(r), nodeFrames \o Sent(r) \o Reply(t)}
    BY DEF Request
  <2>5. QED
    BY <1>5, <2>1, <2>2, <2>3, <2>4 DEF DriveTyped
<1>7. trouble' \in 0..MaxTrouble
  BY TroubleCounted DEF Request, TypedInv
<1>8. NodeTyped'
  BY <1>6, <1>7 DEF Request, TypedInv, NodeTyped, node, watch
<1>9. QED
  BY <1>4, <1>8 DEF TypedInv

LEMMA StartNodeTyped == ASSUME TypedInv, NEW t \in Threads, StartNode(t) PROVE TypedInv'
<1> DEFINE r == Head(nodeCall[t].todo)
<1>1. r \in ClientSteps /\ r.k \in Obeyable /\ nodeCall[t].todo # <<>>
  BY RequestArg
<1>2. CallsTyped' /\ OneWaits'
  BY <1>1, ProceedingTyped DEF StartNode
<1>3. Obeyed(r) \in DriveRecords /\ Sent(r) \in Seq(Frames)
  BY <1>1, ObeyedTells DEF TypedInv, NodeTyped
<1>4. DriveTyped' /\ nodeFrames' \in Seq(Frames)
  BY <1>3, FramesKnown DEF StartNode, TypedInv, NodeTyped, DriveTyped
<1>5. trouble' \in 0..MaxTrouble
  BY TroubleCounted DEF StartNode, TypedInv
<1>6. NodeTyped'
  BY <1>4, <1>5 DEF StartNode, TypedInv, NodeTyped, node, watch
<1>7. QED
  BY <1>2, <1>6 DEF TypedInv

\* The first frame is handled.
LEMMA FirstFrame ==
  ASSUME NodeTyped, nodeFrames # <<>>
  PROVE  /\ Head(nodeFrames) \in Frames /\ Tail(nodeFrames) \in Seq(Frames) /\ Head(nodeFrames) = nodeFrames[1]
         /\ Len(nodeFrames) > 0 /\ Len(Tail(nodeFrames)) = Len(nodeFrames) - 1
         /\ \A i \in 1..Len(Tail(nodeFrames)) : Tail(nodeFrames)[i] = nodeFrames[i + 1]
BY HeadTailProperties DEF NodeTyped

LEMMA ReadTyped == ASSUME TypedInv, ReadNext PROVE TypedInv'
<1> DEFINE f == Head(nodeFrames)
<1>1. f \in Frames /\ nodeFrames' \in Seq(Frames)
  BY FirstFrame DEF ReadNext, TypedInv
<1>2. CASE f.t = "tpdo" /\ handleTpdo1(f)
  <2>1. f.st \in DriveStates /\ f.disp \in DriveModes
    BY <1>1, <1>2 DEF Frames
  <2>2. Shown(f.disp) \in ControlModes
    BY DEF Shown, ControlModes, Motion
  <2>3. actualMode' \in ControlModes \/ "written" \in masked'
    BY <1>2, <2>2 DEF handleTpdo1, AfterStatus, AfterModes, TypedInv, NodeTyped, ControlModes
  <2>4. sync' \in BOOLEAN
    BY <1>2, NodeAssumption DEF handleTpdo1, Enables, TypedInv, NodeTyped
  <2>5. NodeTyped'
    BY <1>1, <1>2, <2>1, <2>3, <2>4 DEF ReadNext, handleTpdo1, TypedInv, NodeTyped, DriveTyped, watch
  <2>6. CASE f.disp = modes
    BY <1>2, <2>5, <2>6 DEF handleTpdo1, TypedInv, CallsTyped, OneWaits
  <2>7. CASE f.disp # modes
    <3>1. \A t \in Threads : nodeCall'[t] =
            IF nodeCall[t].pc = "waiting" THEN [nodeCall[t] EXCEPT !.pc = "woken"] ELSE nodeCall[t]
      BY <1>2, <2>7 DEF handleTpdo1
    <3>2. \A t \in Threads : CallTyped(nodeCall'[t], t)
      <4> SUFFICES ASSUME NEW t \in Threads PROVE CallTyped(nodeCall'[t], t)
        OBVIOUS
      <4>1. CallTyped(nodeCall[t], t)
        BY DEF TypedInv, CallsTyped
      <4>2. CASE nodeCall[t].pc = "waiting"
        <5>1. nodeCall'[t] = [nodeCall[t] EXCEPT !.pc = "woken"]
          BY <3>1, <4>2
        <5>2. QED
          BY <4>1, <4>2, <5>1 DEF CallTyped
      <4>3. CASE nodeCall[t].pc # "waiting"
        BY <3>1, <4>1, <4>3
      <4>4. QED
        BY <4>2, <4>3
    <3>3. \A t \in Threads : nodeCall'[t].pc \in AtObserver => nodeCall[t].pc \in AtObserver
      BY <3>1 DEF AtObserver
    <3>4. DOMAIN nodeCall' = Threads /\ nodeCall' = [t \in Threads |-> nodeCall'[t]]
      BY <1>2, <2>7 DEF handleTpdo1
    <3>5. CallsTyped' /\ OneWaits'
      BY <3>2, <3>3, <3>4 DEF TypedInv, CallsTyped, OneWaits, Threads
    <3>6. QED
      BY <2>5, <3>5 DEF TypedInv
  <2>8. QED
    BY <2>6, <2>7
<1>3. CASE f.t = "boot" /\ handleNmt("BOOTUP") /\ UNCHANGED <<actualMode, modes, sync, sw, nodeCall, masked, last>>
  BY <1>1, <1>3 DEF ReadNext, handleNmt, TypedInv, NodeTyped, DriveTyped, CallsTyped, OneWaits
<1>4. CASE f.t = "reply" /\ UNCHANGED <<actualMode, modes, sync, sw, watch, masked>>
            /\ IF nodeCall[f.to].pc = "asked" THEN Proceeds(f.to, Remaining(f.to)) ELSE UNCHANGED <<nodeCall, last>>
  <2>1. NodeTyped'
    BY <1>1, <1>4 DEF ReadNext, TypedInv, NodeTyped, DriveTyped, watch
  <2>2. f.to \in Threads
    BY <1>1, <1>4 DEF Frames
  <2>3. CASE nodeCall[f.to].pc = "asked"
    <3>1. nodeCall[f.to].todo # <<>>
      BY <2>2, <2>3 DEF TypedInv, CallsTyped, CallTyped
    <3>2. QED
      BY <1>4, <2>1, <2>2, <2>3, <3>1, ProceedingTyped DEF TypedInv
  <2>4. CASE nodeCall[f.to].pc # "asked"
    BY <1>4, <2>1, <2>4 DEF TypedInv, CallsTyped, OneWaits
  <2>5. QED
    BY <2>3, <2>4
<1>5. QED
  BY <1>2, <1>3, <1>4 DEF ReadNext

-----------------------------------------------------------------------------

LEMMA ResetTyped ==
  ASSUME NodeTyped, ResetNode
  PROVE  DriveTyped' /\ nodeFrames' \in Seq(Frames) /\ refused' \in BOOLEAN
<1>1. Booted \in DriveRecords
  BY DEF Booted, DriveRecords, DriveStates, DriveModes, Objects
<1>2. QED
  BY <1>1, FramesKnown DEF ResetNode, NodeTyped, DriveTyped

\* The monitor begins something.
LEMMA MonitorStarts ==
  ASSUME TypedInv, NEW todo \in Seq(StepsOf("monitor")), NEW init \in BOOLEAN,
         nodeCall' = [nodeCall EXCEPT !["monitor"] = Starts(todo, init)]
  PROVE  CallsTyped' /\ OneWaits'
BY StartsTyped, OneCallChanges DEF TypedInv, AtObserver, Threads

LEMMA LookTyped == ASSUME TypedInv, NEW late \in BOOLEAN, Look(late) PROVE beat' = FALSE /\ trouble' \in 0..MaxTrouble
BY TroubleCounted DEF Look, TypedInv

LEMMA MonitorTyped == ASSUME TypedInv, Monitor PROVE TypedInv'
<1>1. CASE Lost
  <2>1. DriveTyped' /\ nodeFrames' \in Seq(Frames) /\ refused' \in BOOLEAN
    BY <1>1, ResetTyped DEF Lost, TypedInv
  <2>2. beat' = FALSE /\ trouble' \in 0..MaxTrouble
    BY <1>1, LookTyped DEF Lost
  <2>3. NodeTyped'
    BY <1>1, <2>1, <2>2 DEF Lost, TypedInv, NodeTyped, ControlModes
  <2>4. Do("wipe", "none") \in Seq(StepsOf("monitor"))
    BY DEF Do, StepsOf
  <2>5. CallsTyped' /\ OneWaits'
    BY <1>1, <2>4, MonitorStarts DEF Lost
  <2>6. QED
    BY <2>3, <2>5 DEF TypedInv
<1>2. CASE Wipe
  <2>1. NodeTyped'
    BY <1>2 DEF Wipe, TypedInv, NodeTyped, DriveTyped, DriveStates, DriveModes, watch
  <2>2. Proceeds("monitor", <<>>) /\ <<>> \in Seq(StepsOf("monitor"))
    BY <1>2 DEF Wipe
  <2>3. QED
    BY <2>1, <2>2, ProceedsTyped DEF TypedInv, Threads
<1>3. CASE Reinitialize
  <2>1. CallsTyped' /\ OneWaits'
    BY <1>3, InitializeSteps, AnyThread, MonitorStarts DEF Reinitialize, Threads
  <2>2. NodeTyped'
    BY <1>3, LookTyped DEF Reinitialize, TypedInv, NodeTyped, DriveTyped, node, nodeGhosts
  <2>3. QED
    BY <2>1, <2>2 DEF TypedInv
<1>4. CASE AllWell
  BY <1>4, LookTyped DEF AllWell, TypedInv, NodeTyped, DriveTyped, node, nodeGhosts, CallsTyped, OneWaits
<1>5. CASE ResetAgain
  <2>1. DriveTyped' /\ nodeFrames' \in Seq(Frames) /\ refused' \in BOOLEAN
    BY <1>5, ResetTyped DEF ResetAgain, TypedInv
  <2>2. NodeTyped'
    BY <1>5, <2>1 DEF ResetAgain, TypedInv, NodeTyped, node, watch
  <2>3. Proceeds("monitor", <<>>) /\ <<>> \in Seq(StepsOf("monitor"))
    BY <1>5 DEF ResetAgain
  <2>4. QED
    BY <2>2, <2>3, ProceedsTyped DEF TypedInv, Threads
<1>6. QED
  BY <1>1, <1>2, <1>3, <1>4, <1>5 DEF Monitor

LEMMA DriveStepsTyped == ASSUME TypedInv, Adopt \/ Fault \/ Reboot PROVE TypedInv'
<1>1. dr \in DriveRecords /\ nodeFrames \in Seq(Frames)
  BY DEF TypedInv, NodeTyped, DriveTyped
<1>2. dr.st \in Powered /\ dr.sel \in DriveModes /\ dr.disp \in DriveModes /\ "FAULT" \in Powered
  BY <1>1 DEF DriveRecords, Powered, DriveStates
<1>3. /\ \A st \in Powered, disp \in DriveModes : nodeFrames \o Tpdo(st, disp) \in Seq(Frames)
      /\ nodeFrames \o Boot \in Seq(Frames)
  BY <1>1, FramesKnown DEF Powered
<1>4. nodeFrames' \in Seq(Frames)
  BY <1>1, <1>2, <1>3 DEF Adopt, Fault, Reboot
<1>5. DriveTyped'
  <2>1. Booted \in DriveRecords
    BY DEF Booted, DriveRecords, DriveStates, DriveModes, Objects
  <2>2. QED
    BY <1>1, <1>2, <2>1 DEF Adopt, Fault, Reboot, DriveTyped, DriveRecords, Powered
<1>6. trouble' \in 0..MaxTrouble
  BY TroubleCounted DEF Adopt, Fault, Reboot, TypedInv
<1>7. QED
  BY <1>4, <1>5, <1>6
     DEF Adopt, Fault, Reboot, TypedInv, NodeTyped, node, watch, nodeGhosts, CallsTyped, OneWaits

\* Every step keeps the types.
LEMMA TypedStep == TypedInv /\ [NodeNext]_nodeVars => TypedInv'
<1> SUFFICES ASSUME TypedInv, [NodeNext]_nodeVars PROVE TypedInv'
  OBVIOUS
<1>1. CASE UNCHANGED nodeVars
  BY <1>1 DEF nodeVars, node, watch, nodeGhosts, TypedInv, NodeTyped, DriveTyped, CallsTyped, OneWaits
<1>2. ASSUME NEW mode \in Modes, SetControlMode(mode) PROVE TypedInv'
  <2>1. Do("mode", mode) \in Seq(StepsOf("client"))
    BY NodeAssumption, StepsKnown, AnyThread DEF Threads
  <2>2. CallsTyped' /\ OneWaits'
    BY <1>2, <2>1, StartsTyped, OneCallChanges DEF SetControlMode, TypedInv, AtObserver, Threads
  <2>3. NodeTyped'
    BY <1>2 DEF SetControlMode, TypedInv, NodeTyped, DriveTyped, node, watch
  <2>4. QED
    BY <2>2, <2>3 DEF TypedInv
<1>3. ASSUME NEW t \in Threads, Step(t) PROVE TypedInv'
  BY <1>3, EnterTyped, ConfirmTyped, SmallStepsTyped, WaitsTyped, ConfiguredTyped, RequestTyped, StartNodeTyped DEF Step
<1>4. CASE ReadNext
  BY <1>4, ReadTyped
<1>5. CASE ReadHeartbeat
  BY <1>5 DEF ReadHeartbeat, handleNmt, node, nodeGhosts, TypedInv, NodeTyped, DriveTyped, CallsTyped, OneWaits
<1>6. CASE Monitor
  BY <1>6, MonitorTyped
<1>7. ASSUME NEW c \in Confs, CheckConf(c) PROVE TypedInv'
  BY <1>7 DEF CheckConf, node, watch, nodeGhosts, TypedInv, NodeTyped, DriveTyped, CallsTyped, OneWaits
<1>8. CASE ApplyConf
  BY <1>8 DEF ApplyConf, node, watch, nodeGhosts, TypedInv, NodeTyped, DriveTyped, CallsTyped, OneWaits
<1>9. CASE Adopt \/ Fault \/ Reboot
  BY <1>9, DriveStepsTyped
<1>10. QED
  BY <1>1, <1>2, <1>3, <1>4, <1>5, <1>6, <1>7, <1>8, <1>9 DEF NodeNext

LEMMA TypesSuffice == TypedInv => NodeTypeOK
<1> SUFFICES ASSUME TypedInv PROVE NodeTypeOK
  OBVIOUS
<1>1. nodeCall["client"].todo = <<>> \/ Head(nodeCall["client"].todo).k \notin {"wipe", "resetnode"}
  BY AtTyped DEF TypedInv, Threads, StepsOf, ClientSteps
<1>2. \E t \in Threads : \A u \in Threads \ {t} : nodeCall[u].pc \notin {"waiting", "woken"}
  BY DEF TypedInv, OneWaits, AtObserver, Threads
<1>3. QED
  BY <1>1, <1>2 DEF NodeTypeOK, TypedInv, NodeTyped, DriveTyped, DriveRecords

\* Everything is of its kind (NodeTypeOK), whatever is lost, refused or late.
THEOREM NodeIsTyped == NodeSpec => []NodeTypeOK
<1>1. NodeSpec => []TypedInv
  BY NodeInitTyped, TypedStep, PTL DEF NodeSpec
<1>2. QED
  BY <1>1, TypesSuffice, PTL

-----------------------------------------------------------------------------
(* What is shown *)

\* Frames that come after others.
LEMMA FramesAfter ==
  ASSUME NEW a \in Seq(Frames), NEW b \in Seq(Frames), NEW d
  PROVE  /\ NoneUnderWay(a \o b) <=> NoneUnderWay(a) /\ NoneUnderWay(b)
         /\ NoneUnderWay(b) /\ LastTells(a, d) => LastTells(a \o b, d)
         /\ ~NoneUnderWay(b) /\ LastTells(b, d) => LastTells(a \o b, d)
<1>1. /\ Len(a) \in Nat /\ Len(b) \in Nat /\ Len(a \o b) = Len(a) + Len(b)
      /\ \A i \in 1..Len(a) : (a \o b)[i] = a[i]
      /\ \A i \in 1..Len(b) : (a \o b)[Len(a) + i] = b[i]
  BY ConcatProperties
<1>2. NoneUnderWay(a \o b) <=> NoneUnderWay(a) /\ NoneUnderWay(b)
  <2>1. ASSUME NoneUnderWay(a \o b) PROVE NoneUnderWay(a) /\ NoneUnderWay(b)
    <3>1. \A i \in 1..Len(a) : i \in 1..Len(a \o b)
      BY <1>1
    <3>2. \A i \in 1..Len(b) : Len(a) + i \in 1..Len(a \o b)
      BY <1>1
    <3>3. QED
      BY <1>1, <2>1, <3>1, <3>2 DEF NoneUnderWay
  <2>2. ASSUME NoneUnderWay(a), NoneUnderWay(b) PROVE NoneUnderWay(a \o b)
    <3> SUFFICES ASSUME NEW i \in 1..Len(a \o b) PROVE (a \o b)[i].t # "tpdo"
      BY DEF NoneUnderWay
    <3>1. CASE i <= Len(a)
      BY <1>1, <2>2, <3>1 DEF NoneUnderWay
    <3>2. CASE i > Len(a)
      <4>1. i - Len(a) \in 1..Len(b) /\ i = Len(a) + (i - Len(a))
        BY <1>1, <3>2
      <4>2. QED
        BY <1>1, <2>2, <4>1 DEF NoneUnderWay
    <3>3. QED
      BY <1>1, <3>1, <3>2
  <2>3. QED
    BY <2>1, <2>2
<1>3. ASSUME NoneUnderWay(b), LastTells(a, d) PROVE LastTells(a \o b, d)
  <2> SUFFICES ASSUME NEW i \in 1..Len(a \o b), LastOne(a \o b, i)
               PROVE  (a \o b)[i].st = d.st /\ (a \o b)[i].disp = d.disp
    BY DEF LastTells
  <2>1. i \in 1..Len(a)
    <3> SUFFICES ASSUME i > Len(a) PROVE FALSE
      BY <1>1
    <3>1. i - Len(a) \in 1..Len(b) /\ i = Len(a) + (i - Len(a))
      BY <1>1
    <3>2. QED
      BY <1>1, <1>3, <3>1 DEF NoneUnderWay, LastOne
  <2>2. LastOne(a, i)
    BY <1>1, <2>1 DEF LastOne
  <2>3. QED
    BY <1>1, <1>3, <2>1, <2>2 DEF LastTells
<1>4. ASSUME ~NoneUnderWay(b), LastTells(b, d) PROVE LastTells(a \o b, d)
  <2> SUFFICES ASSUME NEW i \in 1..Len(a \o b), LastOne(a \o b, i)
               PROVE  (a \o b)[i].st = d.st /\ (a \o b)[i].disp = d.disp
    BY DEF LastTells
  <2>1. PICK j \in 1..Len(b) : b[j].t = "tpdo"
    BY <1>4 DEF NoneUnderWay
  <2>2. i > Len(a)
    <3> SUFFICES ASSUME i <= Len(a) PROVE FALSE
      BY <1>1
    <3>1. Len(a) + j \in 1..Len(a \o b) /\ Len(a) + j > i /\ (a \o b)[Len(a) + j].t = "tpdo"
      BY <1>1, <2>1
    <3>2. QED
      BY <3>1 DEF LastOne
  <2> DEFINE k == i - Len(a)
  <2>3. k \in 1..Len(b) /\ i = Len(a) + k /\ (a \o b)[i] = b[k]
    BY <1>1, <2>2
  <2>4. LastOne(b, k)
    <3>1. ASSUME NEW m \in 1..Len(b), m > k PROVE b[m].t # "tpdo"
      <4>1. Len(a) + m \in 1..Len(a \o b) /\ Len(a) + m > i
        BY <1>1, <2>3, <3>1
      <4>2. QED
        BY <1>1, <4>1 DEF LastOne
    <3>2. QED
      BY <2>3, <3>1 DEF LastOne
  <2>5. QED
    BY <1>4, <2>3, <2>4 DEF LastTells
<1>5. QED
  BY <1>2, <1>3, <1>4

LEMMA FramesFirst ==
  ASSUME NodeTyped, nodeFrames # <<>>, NEW d
  PROVE  /\ LastTells(nodeFrames, d) => LastTells(Tail(nodeFrames), d)
         /\ NoneUnderWay(Tail(nodeFrames)) /\ Head(nodeFrames).t # "tpdo" => NoneUnderWay(nodeFrames)
         /\ NoneUnderWay(Tail(nodeFrames)) /\ Head(nodeFrames).t = "tpdo" /\ LastTells(nodeFrames, d) =>
              Head(nodeFrames).st = d.st /\ Head(nodeFrames).disp = d.disp
<1> DEFINE fs == nodeFrames
           n == Len(fs)
<1>1. /\ n \in Nat /\ n > 0 /\ Len(Tail(fs)) = n - 1 /\ Head(fs) = fs[1]
      /\ \A i \in 1..(n - 1) : Tail(fs)[i] = fs[i + 1]
  BY FirstFrame DEF NodeTyped
<1>2. \A i \in 2..n : i - 1 \in 1..(n - 1) /\ Tail(fs)[i - 1] = fs[i]
  BY <1>1
<1>3. ASSUME LastTells(fs, d) PROVE LastTells(Tail(fs), d)
  <2> SUFFICES ASSUME NEW i \in 1..(n - 1), LastOne(Tail(fs), i)
               PROVE  Tail(fs)[i].st = d.st /\ Tail(fs)[i].disp = d.disp
    BY <1>1 DEF LastTells
  <2>1. LastOne(fs, i + 1)
    <3>1. ASSUME NEW j \in 1..n, j > i + 1 PROVE fs[j].t # "tpdo"
      <4>1. j - 1 \in 1..(n - 1) /\ j - 1 > i /\ Tail(fs)[j - 1] = fs[j]
        BY <1>1, <1>2, <3>1
      <4>2. QED
        BY <1>1, <4>1 DEF LastOne
    <3>2. QED
      BY <1>1, <3>1 DEF LastOne
  <2>2. QED
    BY <1>1, <1>3, <2>1 DEF LastTells
<1>4. ASSUME NoneUnderWay(Tail(fs)) PROVE \A i \in 2..n : fs[i].t # "tpdo"
  BY <1>1, <1>2, <1>4 DEF NoneUnderWay
<1>5. ASSUME NoneUnderWay(Tail(fs)), Head(fs).t # "tpdo" PROVE NoneUnderWay(fs)
  BY <1>1, <1>4, <1>5 DEF NoneUnderWay
<1>6. ASSUME NoneUnderWay(Tail(fs)), Head(fs).t = "tpdo", LastTells(fs, d)
      PROVE  Head(fs).st = d.st /\ Head(fs).disp = d.disp
  BY <1>1, <1>4, <1>6 DEF LastOne, LastTells
<1>7. QED
  BY <1>3, <1>5, <1>6

\* The drive tells what becomes of it, or starts again.
LEMMA ToldMore ==
  ASSUME NodeTyped, Told, NEW sent \in Seq(Frames), nodeFrames' = nodeFrames \o sent,
         UNCHANGED <<actualMode, modes, masked>>,
         \/ NoneUnderWay(sent) /\ dr'.st = dr.st /\ dr'.disp = dr.disp /\ dr'.nmt = dr.nmt
         \/ ~NoneUnderWay(sent) /\ LastTells(sent, dr')
         \/ dr'.nmt # "OPERATIONAL"
  PROVE  Told'
<1>1. nodeFrames \in Seq(Frames)
  BY DEF NodeTyped
<1>2. dr'.nmt = "OPERATIONAL" => LastTells(nodeFrames', dr')
  <2>1. CASE NoneUnderWay(sent) /\ dr'.st = dr.st /\ dr'.disp = dr.disp /\ dr'.nmt = dr.nmt
    <3>1. LastTells(nodeFrames, dr) => LastTells(nodeFrames, dr')
      BY <2>1 DEF LastTells
    <3>2. QED
      BY <1>1, <2>1, <3>1, FramesAfter DEF Told
  <2>2. CASE ~NoneUnderWay(sent) /\ LastTells(sent, dr')
    BY <1>1, <2>2, FramesAfter
  <2>3. QED
    BY <2>1, <2>2
<1>3. NoneUnderWay(nodeFrames') <=> NoneUnderWay(nodeFrames) /\ NoneUnderWay(sent)
  BY <1>1, FramesAfter
<1>4. QED
  BY <1>2, <1>3 DEF Told, Shows, LastTells, LastOne, NoneUnderWay

LEMMA NothingTold == ASSUME Told, UNCHANGED <<actualMode, modes, masked, dr, nodeFrames>> PROVE Told'
BY DEF Told, Shows, LastTells, LastOne, NoneUnderWay

LEMMA ReplyTellsNothing ==
  /\ NoneUnderWay(<<>>) /\ NoneUnderWay(Boot) /\ \A t \in Threads : NoneUnderWay(Reply(t))
BY DEF NoneUnderWay, Boot, Reply

LEMMA RequestTold == ASSUME TypedInv, Told, NEW t \in Threads, Request(t) \/ StartNode(t) PROVE Told'
<1> DEFINE r == Head(nodeCall[t].todo)
<1>1. r \in ClientSteps /\ r.k \in Obeyable
  BY RequestArg
<1>2. DriveTyped /\ NodeTyped /\ nodeFrames \in Seq(Frames)
  BY DEF TypedInv, NodeTyped
<1>3. Obeyed(r) \in DriveRecords /\ Sent(r) \in Seq(Frames) /\ Tells(Sent(r), Obeyed(r))
  BY <1>1, <1>2, ObeyedTells
<1>4. Reply(t) \in Seq(Frames) /\ NoneUnderWay(Reply(t))
  BY FramesKnown, ReplyTellsNothing
<1>5. UNCHANGED <<actualMode, modes, masked>>
  BY DEF Request, StartNode, node
<1>6. CASE UNCHANGED <<dr, nodeFrames>>
  BY <1>5, <1>6, NothingTold
<1>7. ASSUME NEW after \in Seq(Frames), NoneUnderWay(after), dr' = Obeyed(r),
             nodeFrames' = nodeFrames \o (Sent(r) \o after)
      PROVE  Told'
  <2>1. Sent(r) \o after \in Seq(Frames)
    BY <1>3, <1>7, FramesKnown
  <2>2. NoneUnderWay(Sent(r) \o after) <=> NoneUnderWay(Sent(r))
    BY <1>3, <1>7, FramesAfter
  <2>3. CASE Sent(r) = <<>> /\ dr'.st = dr.st /\ dr'.disp = dr.disp /\ dr'.nmt = dr.nmt
    BY <1>2, <1>5, <1>7, <2>1, <2>2, <2>3, ToldMore, ReplyTellsNothing
  <2>4. CASE ~NoneUnderWay(Sent(r)) /\ LastTells(Sent(r), dr')
    <3>1. LastTells(Sent(r) \o after, dr')
      BY <1>3, <1>7, <2>4, FramesAfter
    <3>2. QED
      BY <1>2, <1>5, <1>7, <2>1, <2>2, <2>4, <3>1, ToldMore
  <2>5. QED
    BY <1>3, <1>7, <2>3, <2>4 DEF Tells
<1>8. CASE dr' = Obeyed(r) /\ nodeFrames' = nodeFrames \o Sent(r)
  <2>1. Sent(r) \o <<>> = Sent(r) /\ <<>> \in Seq(Frames)
    BY <1>3, ConcatEmptySeq
  <2>2. QED
    BY <1>7, <1>8, <2>1, ReplyTellsNothing
<1>9. CASE dr' = Obeyed(r) /\ nodeFrames' = nodeFrames \o Sent(r) \o Reply(t)
  <2>1. nodeFrames \o Sent(r) \o Reply(t) = nodeFrames \o (Sent(r) \o Reply(t))
    BY <1>2, <1>3, <1>4, ConcatAssociative
  <2>2. QED
    BY <1>4, <1>7, <1>9, <2>1
<1>10. QED
  BY <1>6, <1>8, <1>9 DEF Request, StartNode

\* The drive starts again, whoever made it.
LEMMA BootTold ==
  ASSUME TypedInv, Told, dr' = Booted, nodeFrames' = nodeFrames \o Boot, UNCHANGED <<actualMode, modes, masked>>
  PROVE  Told'
<1>1. dr'.nmt # "OPERATIONAL" /\ Boot \in Seq(Frames)
  BY FramesKnown DEF Booted
<1>2. QED
  BY <1>1, ToldMore DEF TypedInv

LEMMA DriveStepsTold == ASSUME TypedInv, Told, Adopt \/ Fault \/ Reboot PROVE Told'
<1>1. UNCHANGED <<actualMode, modes, masked>>
  BY DEF Adopt, Fault, Reboot, node, nodeGhosts
<1>2. CASE Reboot
  BY <1>1, <1>2, BootTold DEF Reboot
<1>3. CASE Adopt \/ Fault
  <2>1. dr \in DriveRecords /\ dr' \in DriveRecords /\ NodeTyped
    BY <1>3, DriveStepsTyped DEF TypedInv, NodeTyped, DriveTyped
  <2>2. dr'.nmt = dr.nmt
    BY <1>3, <2>1 DEF Adopt, Fault, DriveRecords
  <2>3. CASE dr.nmt # "OPERATIONAL"
    <3>1. nodeFrames' = nodeFrames \o <<>> /\ <<>> \in Seq(Frames)
      BY <1>3, <2>1, <2>3, ConcatEmptySeq DEF Adopt, Fault, NodeTyped
    <3>2. QED
      BY <1>1, <2>1, <2>2, <2>3, <3>1, ToldMore
  <2>4. CASE dr.nmt = "OPERATIONAL"
    <3>1. nodeFrames' = nodeFrames \o Tpdo(dr'.st, dr'.disp)
      BY <1>3, <2>1, <2>4 DEF Adopt, Fault, DriveRecords
    <3>2. Tpdo(dr'.st, dr'.disp) \in Seq(Frames)
      BY <2>1, FramesKnown DEF DriveRecords
    <3>3. ~NoneUnderWay(Tpdo(dr'.st, dr'.disp)) /\ LastTells(Tpdo(dr'.st, dr'.disp), dr')
      BY DEF Tpdo, NoneUnderWay, LastTells, LastOne
    <3>4. QED
      BY <1>1, <2>1, <3>1, <3>2, <3>3, ToldMore
  <2>5. QED
    BY <2>3, <2>4
<1>4. QED
  BY <1>2, <1>3

\* The mode shown is written over.
LEMMA WritingTold ==
  ASSUME TypedInv, Told, UNCHANGED <<modes, dr, nodeFrames>>, masked \subseteq masked',
         \/ masked' # {}
         \/ actualMode' \notin Motion /\ actualMode # "HW_FAULT"
         \/ UNCHANGED actualMode
         \/ {actualMode, actualMode'} \subseteq External
  PROVE  Told'
<1>1. LastTells(nodeFrames, dr)' <=> LastTells(nodeFrames, dr)
  BY DEF LastTells, LastOne
<1>2. NoneUnderWay(nodeFrames)' <=> NoneUnderWay(nodeFrames)
  BY DEF NoneUnderWay
<1>3. \A disp : Shows(actualMode, disp) /\ masked' = {} => Shows(actualMode', disp)
  BY DEF Shows, External, Motion
<1>4. masked' = {} /\ actualMode = "HW_FAULT" => actualMode' = "HW_FAULT"
  BY DEF External
<1>5. QED
  BY <1>1, <1>2, <1>3, <1>4 DEF Told

\* A TPDO is handled: the statusword has the last word.
LEMMA TpdoTold ==
  ASSUME TypedInv, Told, ReadNext, Head(nodeFrames).t = "tpdo", handleTpdo1(Head(nodeFrames))
  PROVE  Told'
<1> DEFINE f == Head(nodeFrames)
<1>1. nodeFrames # <<>> /\ nodeFrames' = Tail(nodeFrames) /\ dr' = dr /\ NodeTyped
  BY DEF ReadNext, TypedInv
<1>2. dr.nmt = "OPERATIONAL" =>
        /\ LastTells(nodeFrames', dr')
        /\ NoneUnderWay(nodeFrames') => f.st = dr.st /\ f.disp = dr.disp
  BY <1>1, FramesFirst DEF Told
<1>3. modes' = f.disp /\ actualMode' = AfterStatus(f, AfterModes(f, actualMode))
  BY DEF handleTpdo1
<1>4. Shows(Shown(f.disp), f.disp)
  BY DEF Shows, Shown, External
<1>5. ASSUME masked' = {} PROVE Shows(actualMode', f.disp)
  <2>1. CASE f.st \in {"FAULT", "SWITCHED_ON"}
    BY <1>3, <2>1 DEF AfterStatus, Shows, External
  <2>2. CASE f.st \notin {"FAULT", "SWITCHED_ON"} /\ f.disp # modes
    BY <1>3, <1>4, <2>2 DEF AfterStatus, AfterModes
  <2>3. CASE f.st \notin {"FAULT", "SWITCHED_ON"} /\ f.disp = modes
    <3>1. actualMode' = actualMode
      BY <1>3, <2>3 DEF AfterStatus, AfterModes
    <3>2. masked = {}
      BY <1>5, <3>1 DEF handleTpdo1
    <3>3. QED
      BY <2>3, <3>1, <3>2 DEF Told
  <2>4. QED
    BY <2>1, <2>2, <2>3
<1>6. f.st = "FAULT" => actualMode' = "HW_FAULT"
  BY <1>3 DEF AfterStatus
<1>7. QED
  BY <1>1, <1>2, <1>3, <1>5, <1>6 DEF Told

LEMMA ReadTold == ASSUME TypedInv, Told, ReadNext PROVE Told'
<1>1. CASE Head(nodeFrames).t = "tpdo" /\ handleTpdo1(Head(nodeFrames))
  BY <1>1, TpdoTold
<1>2. CASE Head(nodeFrames).t # "tpdo" /\ UNCHANGED <<actualMode, modes, masked>>
  <2>1. nodeFrames # <<>> /\ nodeFrames' = Tail(nodeFrames) /\ dr' = dr /\ NodeTyped
    BY DEF ReadNext, TypedInv
  <2>2. /\ LastTells(nodeFrames, dr) => LastTells(nodeFrames', dr')
        /\ NoneUnderWay(nodeFrames') => NoneUnderWay(nodeFrames)
    BY <1>2, <2>1, FramesFirst
  <2>3. QED
    BY <1>2, <2>1, <2>2 DEF Told, Shows
<1>3. QED
  BY <1>1, <1>2 DEF ReadNext

LEMMA MonitorTold == ASSUME TypedInv, Told, Monitor PROVE Told'
<1>1. CASE Lost
  <2>1. actualMode' = "NOT_CONFIGURED" /\ modes' = modes /\ masked \subseteq masked'
        /\ (actualMode = "HW_FAULT" => masked' # {})
    BY <1>1 DEF Lost
  <2>2. CASE UNCHANGED <<dr, nodeFrames>>
    BY <2>1, <2>2, WritingTold DEF Motion
  <2>3. CASE dr' = Booted /\ nodeFrames' = nodeFrames \o Boot
    <3>1. dr'.nmt # "OPERATIONAL"
      BY <2>3 DEF Booted
    <3>2. QED
      BY <2>1, <3>1 DEF Told, Shows, External
  <2>4. QED
    BY <1>1, <2>2, <2>3 DEF Lost, ResetNode
<1>2. CASE Wipe
  <2>1. UNCHANGED <<actualMode, dr, nodeFrames>> /\ masked \subseteq masked'
        /\ (actualMode \in Motion => masked' # {})
    BY <1>2 DEF Wipe
  <2>2. masked' = {} => masked = {} /\ \A disp : Shows(actualMode, disp)
    BY <2>1 DEF Shows, External, Motion
  <2>3. QED
    BY <2>1, <2>2 DEF Told, LastTells, LastOne, NoneUnderWay, Shows
<1>3. CASE Reinitialize
  BY <1>3, NothingTold DEF Reinitialize, node, nodeGhosts
<1>4. CASE AllWell
  BY <1>4, NothingTold DEF AllWell, node, nodeGhosts
<1>5. CASE ResetAgain
  <2>1. UNCHANGED <<actualMode, modes, masked>>
    BY <1>5 DEF ResetAgain, node
  <2>2. QED
    BY <1>5, <2>1, NothingTold, BootTold DEF ResetAgain, ResetNode
<1>6. QED
  BY <1>1, <1>2, <1>3, <1>4, <1>5 DEF Monitor

LEMMA StepTold == ASSUME TypedInv, Told, NEW t \in Threads, Step(t) PROVE Told'
<1>1. CASE Confirm(t)
  <2>1. UNCHANGED <<modes, dr, nodeFrames>> /\ masked \subseteq masked' /\ actualMode' = requested
        /\ (masked' = {} => actualMode = requested \/ {actualMode, requested} \subseteq External)
    BY <1>1 DEF Confirm
  <2>2. QED
    BY <2>1, WritingTold
<1>2. CASE Configured(t)
  <2>1. UNCHANGED <<modes, dr, nodeFrames>> /\ masked \subseteq masked' /\ actualMode' = "CONFIGURED"
        /\ (actualMode = "HW_FAULT" => masked' # {})
    BY <1>2 DEF Configured
  <2>2. QED
    BY <2>1, WritingTold DEF Motion
<1>3. CASE Request(t) \/ StartNode(t)
  BY <1>3, RequestTold
<1>4. CASE \/ Enter(t) \/ LeaveVelocity(t) \/ LeaveFault(t) \/ WriteWord(t) \/ AlreadyThere(t) \/ NoWay(t)
           \/ NodeStarted(t) \/ NodeSilent(t) \/ NoReply(t) \/ ModeIsThere(t) \/ ModeIsNot(t) \/ OpenWindow(t)
           \/ ModeChanged(t) \/ Expire(t)
  <2>1. UNCHANGED <<actualMode, modes, masked, dr, nodeFrames>>
    BY <1>4 DEF Enter, LeaveVelocity, LeaveFault, WriteWord, AlreadyThere, NoWay, NodeStarted, NodeSilent, NoReply,
                ModeIsThere, ModeIsNot, OpenWindow, ModeChanged, Expire, node, nodeGhosts
  <2>2. QED
    BY <2>1, NothingTold
<1>5. QED
  BY <1>1, <1>2, <1>3, <1>4 DEF Step

LEMMA ToldStep == TypedInv /\ Told /\ [NodeNext]_nodeVars => Told'
<1> SUFFICES ASSUME TypedInv, Told, [NodeNext]_nodeVars PROVE Told'
  OBVIOUS
<1>1. CASE UNCHANGED nodeVars
  BY <1>1, NothingTold DEF nodeVars, node, nodeGhosts
<1>2. ASSUME NEW mode \in Modes, SetControlMode(mode) PROVE Told'
  BY <1>2, NothingTold DEF SetControlMode, node
<1>3. ASSUME NEW t \in Threads, Step(t) PROVE Told'
  BY <1>3, StepTold
<1>4. CASE ReadNext
  BY <1>4, ReadTold
<1>5. CASE ReadHeartbeat
  BY <1>5, NothingTold DEF ReadHeartbeat, node, nodeGhosts
<1>6. CASE Monitor
  BY <1>6, MonitorTold
<1>7. ASSUME NEW c \in Confs, CheckConf(c) PROVE Told'
  BY <1>7, NothingTold DEF CheckConf, node, nodeGhosts
<1>8. CASE ApplyConf
  BY <1>8, NothingTold DEF ApplyConf, node, nodeGhosts
<1>9. CASE Adopt \/ Fault \/ Reboot
  BY <1>9, DriveStepsTold
<1>10. QED
  BY <1>1, <1>2, <1>3, <1>4, <1>5, <1>6, <1>7, <1>8, <1>9 DEF NodeNext

LEMMA InitTold == NodeInit => Told
BY DEF NodeInit, Told, Shows, External, Booted

\* The mode that getControlMode returns is the one the drive is in (ModeIsShown).
THEOREM ModesAreShown == NodeSpec => []ModeIsShown
<1>1. NodeSpec => [](TypedInv /\ Told)
  BY NodeInitTyped, InitTold, TypedStep, ToldStep, PTL DEF NodeSpec
<1>2. TypedInv /\ Told => ModeIsShown
  <2> SUFFICES ASSUME TypedInv, Told, Reported, masked = {} PROVE ModeIsShown
    BY DEF ModeIsShown
  <2>1. NoneUnderWay(nodeFrames) /\ dr.nmt = "OPERATIONAL" /\ dr.disp = dr.sel
    BY DEF Reported, NoneUnderWay
  <2>2. QED
    BY <2>1 DEF Told, Shows, ModeIsShown
<1>3. QED
  BY <1>1, <1>2, PTL

-----------------------------------------------------------------------------
(* IposNode: a call that returns well *)

\* What a call has still to ask for, and to wait for; what is asked for already is under
\* way to the client as its reply.
Pending == IF nodeCall["client"].pc = "asked" THEN Tail(nodeCall["client"].todo) ELSE nodeCall["client"].todo

\* The parts that setControlModeRaw is made of, from the last to the first.
SelOf(m) == IF m \in Motion THEN DriveMode(m) ELSE "none"
GoalOf(m) == IF m \in Motion THEN "OPERATION_ENABLED" ELSE "SWITCHED_ON"
WordOf(m) ==
  CASE m = "POSITION" -> Do("word", "5")
    [] m = "VELOCITY" /\ conf.csv -> Do("word", "6")
    [] m \in External -> Do("word", "4")
    [] OTHER -> <<>>
MapOf(m) == IF m \in Motion \ {"POSITION"} THEN Do("map", Mapped(m)) ELSE <<>>
FirstOf(m) ==
  CASE m = "POSITION_DIRECT" /\ ~conf.ip -> Do("unvelocity", "none")
    [] m = "FORCE_IDLE" -> Do("unfault", "none")
    [] OTHER -> <<>>
ToWord(m) == WordOf(m) \o Awaited(m)
ToSelect(m) == Do("select", SelOf(m)) \o ToWord(m)
ToMap(m) == MapOf(m) \o ToSelect(m)
ToState(m) == Do("state", GoalOf(m)) \o ToMap(m)
ToBegin(m) == FirstOf(m) \o ToState(m)
Homing == Do("select", "homing")
Beginnings(m) ==
  {Do("word", "reset") \o (Homing \o ToBegin(m)), Do("word", "reset") \o ToBegin(m), Homing \o ToBegin(m), ToBegin(m),
   Homing \o ToState(m), ToState(m)}

\* Those of initialize.
FromMode == Do("mode", InitialMode)
FromAwait == Do("await", "IDLE") \o FromMode
FromState == Do("state", "SWITCHED_ON") \o FromAwait
FromConfigured == Do("configured", "none") \o FromState
FromBooted == Do("booted", "none") \o FromConfigured
FromStart == Do("start", "none") \o FromBooted
FromHeartbeat == Do("heartbeat", "none") \o FromStart
FromSetup == Do("setup", "none") \o FromHeartbeat

\* Nothing went wrong: no fault and no boot-up message, and the monitor has nothing to do.
Calm ==
  /\ nodeCall["monitor"].pc = "idle"
  /\ dr.st # "FAULT" /\ sw # "FAULT" /\ actualMode # "HW_FAULT"
  /\ \A k \in 1..Len(nodeFrames) :
       nodeFrames[k].t \in {"tpdo", "reply"} /\ nodeFrames[k].to # "monitor" /\ nodeFrames[k].st # "FAULT"
  /\ actualMode = "NOT_CONFIGURED" /\ beat => lastNmt # "BOOTUP"
  /\ sw = "SWITCHED_ON" => actualMode = "IDLE"
  /\ nodeCall["client"].pc = "idle" => nodeCall["client"].todo = <<>>
  /\ nodeCall["client"].pc \in {"opening", "waiting", "woken"} => Head(nodeCall["client"].todo).k = "await"

\* The statusword that is known when all frames up to here are read.
Heard(st) == st \in {dr.st, "NOT_READY_TO_SWITCH_ON"}
Ahead(k) == \E r \in 1..Len(nodeFrames) : nodeFrames[r].t = "reply" /\ k <= r
Wire ==
  /\ nodeCall["client"].pc = "asked" => \E r \in 1..Len(nodeFrames) : nodeFrames[r].t = "reply"
  /\ \A r \in 1..Len(nodeFrames) : nodeFrames[r].t = "reply" =>
       /\ nodeCall["client"].pc = "asked"
       /\ \A k \in 1..Len(nodeFrames) : nodeFrames[k].t = "reply" => k = r
       /\ IF r = 1 THEN Heard(sw) ELSE nodeFrames[r - 1].st = dr.st
  /\ \A k \in 1..Len(nodeFrames) : ~Ahead(k) =>
       nodeFrames[k].st = dr.st /\ nodeFrames[k].disp = dr.disp /\ dr.disp = dr.sel
  /\ nodeCall["client"].pc # "asked" => Heard(sw)
ModesKnown == NoneUnderWay(nodeFrames) => modes = dr.disp

RpcHeld ==
  rpc # <<>> =>
    /\ nodeCall["client"].pc = "idle" /\ nodeFrames = <<>> /\ dr.disp = dr.sel
    /\ rpc[1].ip # conf.ip => actualMode # "POSITION_DIRECT"
    /\ rpc[1].csv # conf.csv => actualMode # "VELOCITY"

\* Its setpoints are those of the mode.
MapRight(m) == m \in Motion \ {"POSITION"} => dr.map = Mapped(m)
SyncRight(m) == sync = (m # "POSITION" /\ SelOf(m) # "ip")

\* The drive is in the mode, and no other one is under way.
Settled(m) ==
  /\ dr.st = GoalOf(m) /\ dr.sel = SelOf(m) /\ MapRight(m)
  /\ m \in Motion => modes = SelOf(m) /\ SyncRight(m)

\* What the drive shows is what the program makes of it.
Fits(d) == (d = "csp" => conf.csv \/ ~conf.ip) /\ (d = "ip" => conf.ip)
Plain ==
  /\ Fits(dr.sel) /\ Fits(dr.disp) /\ Fits(modes)
  /\ \A k \in 1..Len(nodeFrames) : nodeFrames[k].t = "tpdo" => Fits(nodeFrames[k].disp)

\* The mode, if it is shown, was told by the drive, and its setpoints go out.
ShownRight(m) == m \in Motion /\ actualMode = m => modes = SelOf(m) /\ SyncRight(m)

Started ==
  /\ requested = "none" /\ last.goal = "none" /\ dr.sel = "none" /\ dr.disp = "none" /\ modes = "none"
  /\ \A k \in 1..Len(nodeFrames) : nodeFrames[k].disp = "none"
  /\ nodeCall["client"].pc # "woken"
Known == sw # "NOT_READY_TO_SWITCH_ON" /\ dr.nmt = "OPERATIONAL"

Starting ==
  /\ Started
  /\ \/ Pending \in {FromSetup, FromHeartbeat, FromStart} /\ dr.st = "SWITCH_ON_DISABLED"
     \/ Pending = FromBooted /\ dr.st = "SWITCH_ON_DISABLED" /\ dr.nmt = "OPERATIONAL"
     \/ Pending \in {FromConfigured, FromState} /\ dr.st = "SWITCH_ON_DISABLED" /\ Known
     \/ Pending = FromAwait /\ dr.st = "SWITCHED_ON" /\ Known

\* The call is about to be made.
Asking ==
  nodeCall["client"].pc = "next" /\ \E m \in ModeNames :
    /\ Pending = Do("mode", m) /\ last.goal \in {m, "none"} /\ Known /\ Settled(requested)
    /\ requested \in Motion => actualMode = requested

Agreed == Known /\ requested \in ModeNames /\ last.goal \in {requested, "none"}
Confirming ==
  /\ nodeCall["client"].pc = "next" /\ Pending = Do("confirm", "none") /\ Agreed /\ Settled(requested)
  /\ actualMode = requested \/ {actualMode, requested} \subseteq External
  /\ requested = "IDLE" => actualMode = "IDLE"

Unselected ==
  /\ Agreed /\ ShownRight(requested)
  /\ \/ Pending \in Beginnings(requested)
     \/ Pending = ToMap(requested) /\ dr.st = GoalOf(requested)
     \/ Pending = ToSelect(requested) /\ dr.st = GoalOf(requested) /\ MapRight(requested)

\* It is waited for, and shown by the time that the wait ends.
Turning(m) ==
  /\ ShownRight(m)
  /\ m \in Motion =>
       IF nodeCall["client"].pc = "asked" THEN Pending # <<>>
       ELSE nodeCall["client"].pc = "woken" \/ Pending = <<>> => actualMode = m
Selected ==
  /\ Agreed /\ Pending \in {ToWord(requested), Awaited(requested), <<>>}
  /\ dr.st = GoalOf(requested) /\ dr.sel = SelOf(requested) /\ MapRight(requested) /\ Turning(requested)

Stage == Starting \/ Asking \/ Confirming \/ Unselected \/ Selected
Well == Calm /\ Wire /\ ModesKnown /\ RpcHeld /\ Stage

LastTyped ==
  /\ last = [goal |-> last.goal, ok |-> last.ok, clean |-> last.clean, torn |-> last.torn]
  /\ last.clean \in BOOLEAN
CleanInv == LastTyped /\ (last.clean => Well)
PlainInv == last.clean => Plain

-----------------------------------------------------------------------------
(* Lists of steps *)

LEMMA FirstOfList ==
  ASSUME NEW kind, NEW value, NEW rest \in Seq(ClientSteps), [k |-> kind, v |-> value] \in ClientSteps
  PROVE  LET list == Do(kind, value) \o rest
         IN  /\ list \in Seq(ClientSteps) /\ list # <<>> /\ Tail(list) = rest
             /\ Head(list) = [k |-> kind, v |-> value]
<1> DEFINE one == <<[k |-> kind, v |-> value]>>
<1>1. one \in Seq(ClientSteps) /\ Do(kind, value) = one /\ Len(one) = 1
  BY DEF Do
<1> HIDE DEF one
<1>2. /\ one \o rest \in Seq(ClientSteps) /\ Len(one \o rest) = 1 + Len(rest) /\ Len(rest) \in Nat
      /\ \A i \in 1..1 + Len(rest) : (one \o rest)[i] = IF i <= 1 THEN one[i] ELSE rest[i - 1]
  <2>1. Len(rest) \in Nat
    BY LenProperties
  <2>2. /\ one \o rest \in Seq(ClientSteps) /\ Len(one \o rest) = Len(one) + Len(rest)
        /\ \A i \in 1..Len(one) + Len(rest) : (one \o rest)[i] = IF i <= Len(one) THEN one[i] ELSE rest[i - Len(one)]
    BY <1>1, ConcatProperties, Zenon
  <2>3. QED
    BY <1>1, <2>1, <2>2
<1>3. one[1] = [k |-> kind, v |-> value]
  BY DEF one
<1>4. one \o rest # <<>> /\ Head(one \o rest) = one[1]
  BY <1>2, EmptySeq
<1>5. Tail(one \o rest) = rest
  <2>1. /\ Tail(one \o rest) \in Seq(ClientSteps) /\ Len(Tail(one \o rest)) = Len(rest)
        /\ \A i \in 1..Len(rest) : Tail(one \o rest)[i] = (one \o rest)[i + 1]
    BY <1>2, <1>4, HeadTailProperties
  <2>2. QED
    BY <1>2, <2>1, SeqEqual
<1>6. QED
  BY <1>1, <1>2, <1>3, <1>4, <1>5

\* The last step.
LEMMA OnlyOfList ==
  ASSUME NEW kind, NEW value, [k |-> kind, v |-> value] \in ClientSteps
  PROVE  LET list == Do(kind, value)
         IN  /\ list \in Seq(ClientSteps) /\ list # <<>> /\ Tail(list) = <<>>
             /\ Head(list) = [k |-> kind, v |-> value]
<1>1. Do(kind, value) \o <<>> = Do(kind, value) /\ <<>> \in Seq(ClientSteps)
  BY OneStep, ConcatEmptySeq, StepsKnown
<1>2. LET list == Do(kind, value) \o <<>>
      IN  /\ list \in Seq(ClientSteps) /\ list # <<>> /\ Tail(list) = <<>>
          /\ Head(list) = [k |-> kind, v |-> value]
  BY <1>1, FirstOfList
<1>3. QED
  BY <1>1, <1>2, Zenon

LEMMA ConfKnown == NodeTyped => conf.csv \in BOOLEAN /\ conf.ip \in BOOLEAN
BY NodeAssumption DEF NodeTyped

LEMMA ModeKnown ==
  ASSUME NodeTyped, NEW m \in ModeNames \cup {"none"}
  PROVE  /\ SelOf(m) \in DriveModes /\ GoalOf(m) \in {"SWITCHED_ON", "OPERATION_ENABLED"}
         /\ m \in Motion \ {"POSITION"} => Mapped(m) \in Objects
         /\ (m = "POSITION_DIRECT" \/ m = "VELOCITY" \/ m \in External \/ m = "POSITION") <=> m \in Motion
<1>1. conf.csv \in BOOLEAN /\ conf.ip \in BOOLEAN
  BY ConfKnown
<1>2. (m = "POSITION_DIRECT" \/ m = "VELOCITY" \/ m \in External \/ m = "POSITION") <=> m \in Motion
  BY DEF Motion, External
<1>3. m \in Motion => DriveMode(m) \in DriveModes
  BY <1>1, <1>2 DEF DriveMode, DriveModes, External
<1>4. m \in Motion \ {"POSITION"} => Mapped(m) \in Objects
  BY <1>1, <1>2 DEF Mapped, Objects, External
<1>5. QED
  BY <1>2, <1>3, <1>4 DEF SelOf, GoalOf, DriveModes

\* The end of a change of mode: its word and its wait.
LEMMA Ends ==
  ASSUME NodeTyped, NEW m \in ModeNames
  PROVE  /\ Awaited(m) \in Seq(ClientSteps) /\ ToWord(m) \in Seq(ClientSteps)
         /\ IF m \in Motion
            THEN Awaited(m) # <<>> /\ Head(Awaited(m)) = [k |-> "await", v |-> m] /\ Tail(Awaited(m)) = <<>>
            ELSE Awaited(m) = <<>> /\ ToWord(m) = <<>>
         /\ \/ ToWord(m) = Awaited(m)
            \/ m \in Motion /\ ToWord(m) # <<>> /\ Head(ToWord(m)).k = "word" /\ Tail(ToWord(m)) = Awaited(m)
<1>1. Awaited(m) \in Seq(ClientSteps)
  BY ModeSteps, ConfKnown
<1>2. IF m \in Motion
      THEN Awaited(m) # <<>> /\ Head(Awaited(m)) = [k |-> "await", v |-> m] /\ Tail(Awaited(m)) = <<>>
      ELSE Awaited(m) = <<>>
  <2>1. m \in Motion => [k |-> "await", v |-> m] \in ClientSteps
    BY DEF ClientSteps
  <2>2. QED
    BY <2>1, OnlyOfList DEF Awaited
<1>3. CASE WordOf(m) = <<>>
  <2>1. ToWord(m) = Awaited(m)
    BY <1>1, <1>3, ConcatEmptySeq DEF ToWord
  <2>2. QED
    BY <1>1, <1>2, <2>1
<1>4. CASE WordOf(m) # <<>>
  <2>1. PICK value \in {"4", "5", "6"} : WordOf(m) = Do("word", value)
    BY <1>4 DEF WordOf
  <2>2. [k |-> "word", v |-> value] \in ClientSteps
    BY DEF ClientSteps
  <2>3. m \in Motion
    BY <1>4 DEF WordOf, Motion, External
  <2>4. QED
    BY <1>1, <1>2, <2>1, <2>2, <2>3, FirstOfList DEF ToWord
<1>5. QED
  BY <1>3, <1>4

\* ... and what comes before them.
LEMMA Middles ==
  ASSUME NodeTyped, NEW m \in ModeNames
  PROVE  /\ {ToSelect(m), ToMap(m), ToState(m)} \subseteq Seq(ClientSteps) \ {<<>>}
         /\ Head(ToSelect(m)) = [k |-> "select", v |-> SelOf(m)] /\ Tail(ToSelect(m)) = ToWord(m)
         /\ IF m \in Motion \ {"POSITION"}
            THEN Head(ToMap(m)) = [k |-> "map", v |-> Mapped(m)] /\ Tail(ToMap(m)) = ToSelect(m)
            ELSE ToMap(m) = ToSelect(m)
         /\ Head(ToState(m)) = [k |-> "state", v |-> GoalOf(m)] /\ Tail(ToState(m)) = ToMap(m)
<1>1. ToWord(m) \in Seq(ClientSteps)
  BY Ends
<1>2. [k |-> "select", v |-> SelOf(m)] \in ClientSteps /\ [k |-> "state", v |-> GoalOf(m)] \in ClientSteps
      /\ (m \in Motion \ {"POSITION"} => [k |-> "map", v |-> Mapped(m)] \in ClientSteps)
  BY ModeKnown DEF ClientSteps
<1>3. /\ ToSelect(m) \in Seq(ClientSteps) /\ ToSelect(m) # <<>>
      /\ Head(ToSelect(m)) = [k |-> "select", v |-> SelOf(m)] /\ Tail(ToSelect(m)) = ToWord(m)
  BY <1>1, <1>2, FirstOfList DEF ToSelect
<1>4. /\ ToMap(m) \in Seq(ClientSteps) /\ ToMap(m) # <<>>
      /\ IF m \in Motion \ {"POSITION"}
         THEN Head(ToMap(m)) = [k |-> "map", v |-> Mapped(m)] /\ Tail(ToMap(m)) = ToSelect(m)
         ELSE ToMap(m) = ToSelect(m)
  <2>1. CASE m \in Motion \ {"POSITION"}
    BY <1>2, <1>3, <2>1, FirstOfList DEF ToMap, MapOf
  <2>2. CASE m \notin Motion \ {"POSITION"}
    BY <1>3, <2>2, ConcatEmptySeq DEF ToMap, MapOf
  <2>3. QED
    BY <2>1, <2>2
<1>5. /\ ToState(m) \in Seq(ClientSteps) /\ ToState(m) # <<>>
      /\ Head(ToState(m)) = [k |-> "state", v |-> GoalOf(m)] /\ Tail(ToState(m)) = ToMap(m)
  BY <1>2, <1>4, FirstOfList DEF ToState
<1>6. QED
  BY <1>3, <1>4, <1>5

LEMMA BeginningsKnown ==
  ASSUME NodeTyped, NEW m \in ModeNames
  PROVE  /\ ToBegin(m) \in Seq(ClientSteps)
         /\ {ToBegin(m), ToState(m), Homing \o ToState(m)} \subseteq Beginnings(m)
         /\ \A list \in Beginnings(m) :
              /\ list # <<>>
              /\ \/ Head(list).k = "word" /\ Tail(list) \in Beginnings(m)
                 \/ Head(list) = [k |-> "select", v |-> "homing"] /\ Tail(list) \in Beginnings(m)
                 \/ Head(list).k \in {"unvelocity", "unfault"} /\ Tail(list) = ToState(m)
                 \/ Head(list) = [k |-> "state", v |-> GoalOf(m)] /\ Tail(list) = ToMap(m)
<1>1. ToState(m) \in Seq(ClientSteps)
  BY Middles
<1>2. /\ ToBegin(m) \in Seq(ClientSteps) /\ ToBegin(m) # <<>>
      /\ \/ ToBegin(m) = ToState(m)
         \/ Head(ToBegin(m)).k \in {"unvelocity", "unfault"} /\ Tail(ToBegin(m)) = ToState(m)
  <2>1. CASE FirstOf(m) = <<>>
    BY <1>1, <2>1, Middles, ConcatEmptySeq DEF ToBegin
  <2>2. CASE FirstOf(m) # <<>>
    <3>1. PICK kind \in {"unvelocity", "unfault"} : FirstOf(m) = Do(kind, "none")
      BY <2>2 DEF FirstOf
    <3>2. [k |-> kind, v |-> "none"] \in ClientSteps
      BY DEF ClientSteps
    <3>3. QED
      BY <1>1, <3>1, <3>2, FirstOfList DEF ToBegin
  <2>3. QED
    BY <2>1, <2>2
<1>3. [k |-> "select", v |-> "homing"] \in ClientSteps /\ [k |-> "word", v |-> "reset"] \in ClientSteps
  BY DEF ClientSteps, DriveModes
<1>4. \A rest \in Seq(ClientSteps) :
        /\ Homing \o rest \in Seq(ClientSteps) /\ Homing \o rest # <<>> /\ Tail(Homing \o rest) = rest
        /\ Head(Homing \o rest) = [k |-> "select", v |-> "homing"]
  BY <1>3, FirstOfList DEF Homing
<1>5. \A rest \in Seq(ClientSteps) :
        LET list == Do("word", "reset") \o rest
        IN  list # <<>> /\ Tail(list) = rest /\ Head(list) = [k |-> "word", v |-> "reset"]
  BY <1>3, FirstOfList
<1>6. \A list \in Beginnings(m) :
        /\ list # <<>>
        /\ \/ Head(list).k = "word" /\ Tail(list) \in Beginnings(m)
           \/ Head(list) = [k |-> "select", v |-> "homing"] /\ Tail(list) \in Beginnings(m)
           \/ Head(list).k \in {"unvelocity", "unfault"} /\ Tail(list) = ToState(m)
           \/ Head(list) = [k |-> "state", v |-> GoalOf(m)] /\ Tail(list) = ToMap(m)
  <2> SUFFICES ASSUME NEW list \in Beginnings(m)
               PROVE  /\ list # <<>>
                      /\ \/ Head(list).k = "word" /\ Tail(list) \in Beginnings(m)
                         \/ Head(list) = [k |-> "select", v |-> "homing"] /\ Tail(list) \in Beginnings(m)
                         \/ Head(list).k \in {"unvelocity", "unfault"} /\ Tail(list) = ToState(m)
                         \/ Head(list) = [k |-> "state", v |-> GoalOf(m)] /\ Tail(list) = ToMap(m)
    OBVIOUS
  <2>1. CASE list \in {Do("word", "reset") \o (Homing \o ToBegin(m)), Do("word", "reset") \o ToBegin(m)}
    <3>1. PICK rest \in {Homing \o ToBegin(m), ToBegin(m)} : list = Do("word", "reset") \o rest
      BY <2>1
    <3>2. rest \in Seq(ClientSteps) /\ rest \in Beginnings(m)
      BY <1>2, <1>4, <3>1 DEF Beginnings
    <3>3. list # <<>> /\ Tail(list) = rest /\ Head(list) = [k |-> "word", v |-> "reset"]
      BY <1>5, <3>1, <3>2, Zenon
    <3>4. Head(list).k = "word"
      BY <3>3
    <3>5. Tail(list) \in Beginnings(m)
      BY <3>2, <3>3
    <3>6. QED
      BY <3>3, <3>4, <3>5
  <2>2. CASE list \in {Homing \o ToBegin(m), Homing \o ToState(m)}
    BY <1>1, <1>2, <1>4, <2>2 DEF Beginnings
  <2>3. CASE list \in {ToBegin(m), ToState(m)}
    BY <1>2, <2>3, Middles
  <2>4. QED
    BY <2>1, <2>2, <2>3 DEF Beginnings
<1>7. QED
  BY <1>2, <1>6 DEF Beginnings

LEMMA ListsJoin ==
  /\ \A a, b \in Seq(ClientSteps) : a \o b \in Seq(ClientSteps)
  /\ \A a \in Seq(ClientSteps) : a \o <<>> = a /\ <<>> \o a = a
BY ConcatProperties, ConcatEmptySeq

LEMMA ListsRegroup == \A a, b, c \in Seq(ClientSteps) : (a \o b) \o c = a \o (b \o c)
BY ConcatAssociative

LEMMA SixLists ==
  ASSUME NEW a \in Seq(ClientSteps), NEW b \in Seq(ClientSteps), NEW c \in Seq(ClientSteps),
         NEW d \in Seq(ClientSteps), NEW e \in Seq(ClientSteps), NEW f \in Seq(ClientSteps)
  PROVE  ((((a \o b) \o c) \o d) \o e) \o f = a \o (b \o (c \o (d \o (e \o f))))
<1>1. a \o b \in Seq(ClientSteps)
  BY ListsJoin, Zenon
<1>2. (a \o b) \o c \in Seq(ClientSteps)
  BY <1>1, ListsJoin, Zenon
<1>3. ((a \o b) \o c) \o d \in Seq(ClientSteps)
  BY <1>2, ListsJoin, Zenon
<1>4. e \o f \in Seq(ClientSteps)
  BY ListsJoin, Zenon
<1>5. d \o (e \o f) \in Seq(ClientSteps)
  BY <1>4, ListsJoin, Zenon
<1>6. c \o (d \o (e \o f)) \in Seq(ClientSteps)
  BY <1>5, ListsJoin, Zenon
<1>7. ((((a \o b) \o c) \o d) \o e) \o f = (((a \o b) \o c) \o d) \o (e \o f)
  <2>1. \A y, z \in Seq(ClientSteps) : ((((a \o b) \o c) \o d) \o y) \o z = (((a \o b) \o c) \o d) \o (y \o z)
    BY <1>3, ListsRegroup, Zenon
  <2>2. QED
    BY <2>1, Zenon
<1>8. (((a \o b) \o c) \o d) \o (e \o f) = ((a \o b) \o c) \o (d \o (e \o f))
  <2>1. \A y, z \in Seq(ClientSteps) : (((a \o b) \o c) \o y) \o z = ((a \o b) \o c) \o (y \o z)
    BY <1>2, ListsRegroup, Zenon
  <2>2. QED
    BY <1>4, <2>1, Zenon
<1>9. ((a \o b) \o c) \o (d \o (e \o f)) = (a \o b) \o (c \o (d \o (e \o f)))
  <2>1. \A y, z \in Seq(ClientSteps) : ((a \o b) \o y) \o z = (a \o b) \o (y \o z)
    BY <1>1, ListsRegroup, Zenon
  <2>2. QED
    BY <1>5, <2>1, Zenon
<1>10. (a \o b) \o (c \o (d \o (e \o f))) = a \o (b \o (c \o (d \o (e \o f))))
  <2>1. \A y, z \in Seq(ClientSteps) : (a \o y) \o z = a \o (y \o z)
    BY ListsRegroup, Zenon
  <2>2. QED
    BY <1>6, <2>1, Zenon
<1>11. QED
  BY <1>7, <1>8, <1>9, <1>10, Zenon

\* What setControlModeRaw does is made of these parts.
LEMMA StepsAreParts ==
  ASSUME NodeTyped, NEW m \in ModeNames
  PROVE  Steps(m) \o Awaited(m) = ToBegin(m)
<1> DEFINE begin == FirstOf(m)
           state == Do("state", GoalOf(m))
           map == MapOf(m)
           select == Do("select", SelOf(m))
           word == WordOf(m)
           wait == Awaited(m)
<1>1. conf.csv \in BOOLEAN /\ conf.ip \in BOOLEAN /\ wait \in Seq(ClientSteps)
  BY ConfKnown, ModeSteps
<1>2. begin \in Seq(ClientSteps) /\ word \in Seq(ClientSteps)
  BY StepsKnown DEF FirstOf, WordOf
<1>3. map \in Seq(ClientSteps) /\ state \in Seq(ClientSteps) /\ select \in Seq(ClientSteps)
  BY ModeKnown, StepsKnown DEF MapOf
<1>4. ToBegin(m) = begin \o (state \o (map \o (select \o (word \o wait))))
  BY DEF ToBegin, ToState, ToMap, ToSelect, ToWord
<1> HIDE DEF begin, state, map, select, word, wait
<1>5. ((((begin \o state) \o map) \o select) \o word) \o wait = ToBegin(m)
  <2>1. ((((begin \o state) \o map) \o select) \o word) \o wait
          = begin \o (state \o (map \o (select \o (word \o wait))))
    <3>1. wait \in Seq(ClientSteps)
      BY <1>1
    <3>2. begin \in Seq(ClientSteps) /\ state \in Seq(ClientSteps) /\ map \in Seq(ClientSteps)
      BY <1>2, <1>3
    <3>3. select \in Seq(ClientSteps) /\ word \in Seq(ClientSteps)
      BY <1>2, <1>3
    <3>4. \A c, d, e, f \in Seq(ClientSteps) :
            ((((begin \o state) \o c) \o d) \o e) \o f = begin \o (state \o (c \o (d \o (e \o f))))
      BY <3>2, SixLists, Zenon
    <3>5. \A e, f \in Seq(ClientSteps) :
            ((((begin \o state) \o map) \o select) \o e) \o f = begin \o (state \o (map \o (select \o (e \o f))))
      BY <3>2, <3>3, <3>4, Zenon
    <3>6. QED
      BY <3>1, <3>3, <3>5, Zenon
  <2>2. QED
    BY <1>4, <2>1, Zenon
<1>6. Steps(m) = (((begin \o state) \o map) \o select) \o word
  <2> DEFINE parts == (((begin \o state) \o map) \o select) \o word
  <2>1. begin \o state \in Seq(ClientSteps) /\ state \o map \in Seq(ClientSteps) /\ state \o select \in Seq(ClientSteps)
    BY <1>2, <1>3, ListsJoin
  <2>2. ((begin \o state) \o map) \in Seq(ClientSteps) /\ ((begin \o state) \o select) \in Seq(ClientSteps)
        /\ ((state \o map) \o select) \in Seq(ClientSteps)
    BY <1>2, <1>3, <2>1, ListsJoin
  <2>3. (((begin \o state) \o map) \o select) \in Seq(ClientSteps)
    BY <1>2, <1>3, <2>2, ListsJoin
  <2> USE <1>2, <1>3, <2>1, <2>2, <2>3, ListsJoin DEF Steps
  <2>4. begin = <<>> /\ map = <<>> => parts = (state \o select) \o word
    OBVIOUS
  <2>5. begin = <<>> => parts = ((state \o map) \o select) \o word
    OBVIOUS
  <2>6. map = <<>> /\ word = <<>> => parts = (begin \o state) \o select
    OBVIOUS
  <2>7. word = <<>> => parts = ((begin \o state) \o map) \o select
    OBVIOUS
  <2> HIDE <1>2, <1>3, <2>1, <2>2, <2>3, ListsJoin
  <2> USE DEF begin, state, map, select, word, SelOf, GoalOf, FirstOf, MapOf, WordOf, Motion, External
  <2>8. CASE m = "POSITION"
    BY <2>4, <2>8 DEF DriveMode
  <2>9. CASE (m = "VELOCITY" /\ conf.csv) \/ m \in External
    <3>1. begin = <<>> /\ Steps(m) = ((state \o map) \o select) \o word
      <4>1. CASE m = "VELOCITY" /\ conf.csv
        BY <4>1 DEF DriveMode, Mapped
      <4>2. CASE m \in External
        BY <4>2 DEF DriveMode, Mapped
      <4>3. QED
        BY <2>9, <4>1, <4>2
    <3> HIDE DEF begin, state, map, select, word
    <3>2. QED
      BY <2>5, <3>1
  <2>10. CASE (m = "VELOCITY" /\ ~conf.csv) \/ (m = "POSITION_DIRECT" /\ conf.ip)
    <3>1. begin = <<>> /\ word = <<>> /\ Steps(m) = (state \o map) \o select
      BY <2>10 DEF DriveMode, Mapped
    <3> HIDE DEF begin, state, map, select, word
    <3>2. (((state \o map) \o select) \o word) = ((state \o map) \o select)
      BY <2>2, <3>1, ListsJoin
    <3>3. QED
      BY <2>5, <3>1, <3>2
  <2>11. CASE m = "POSITION_DIRECT" /\ ~conf.ip
    BY <2>7, <2>11 DEF DriveMode, Mapped
  <2>12. CASE m = "FORCE_IDLE"
    BY <2>6, <2>12
  <2>13. CASE m = "IDLE"
    <3>1. begin = <<>> /\ word = <<>> /\ map = <<>> /\ Steps(m) = state \o select
      BY <2>13
    <3> HIDE DEF begin, state, map, select, word
    <3>2. (state \o select) \o word = state \o select
      BY <2>1, <3>1, ListsJoin
    <3>3. QED
      BY <2>4, <3>1, <3>2
  <2> HIDE DEF begin, state, map, select, word, Steps, SelOf, GoalOf, FirstOf, MapOf, WordOf
  <2>14. m \in {"POSITION", "VELOCITY", "POSITION_DIRECT", "FORCE_IDLE", "IDLE"} \/ m \in External
    BY DEF ModeNames
  <2>15. QED
    BY <2>8, <2>9, <2>10, <2>11, <2>12, <2>13, <2>14, Zenon
<1>7. QED
  BY <1>5, <1>6 DEF wait

\* What initialize is made of.
LEMMA FromKnown ==
  /\ {FromSetup, FromHeartbeat, FromStart, FromBooted, FromConfigured, FromState, FromAwait, FromMode}
       \subseteq Seq(ClientSteps) \ {<<>>}
  /\ Head(FromSetup) = [k |-> "setup", v |-> "none"] /\ Tail(FromSetup) = FromHeartbeat
  /\ Head(FromHeartbeat) = [k |-> "heartbeat", v |-> "none"] /\ Tail(FromHeartbeat) = FromStart
  /\ Head(FromStart) = [k |-> "start", v |-> "none"] /\ Tail(FromStart) = FromBooted
  /\ Head(FromBooted) = [k |-> "booted", v |-> "none"] /\ Tail(FromBooted) = FromConfigured
  /\ Head(FromConfigured) = [k |-> "configured", v |-> "none"] /\ Tail(FromConfigured) = FromState
  /\ Head(FromState) = [k |-> "state", v |-> "SWITCHED_ON"] /\ Tail(FromState) = FromAwait
  /\ Head(FromAwait) = [k |-> "await", v |-> "IDLE"] /\ Tail(FromAwait) = FromMode
<1>1. InitialMode \in ModeNames
  BY NodeAssumption
<1>2. /\ [k |-> "mode", v |-> InitialMode] \in ClientSteps /\ [k |-> "await", v |-> "IDLE"] \in ClientSteps
      /\ [k |-> "state", v |-> "SWITCHED_ON"] \in ClientSteps
      /\ [k |-> "setup", v |-> "none"] \in ClientSteps /\ [k |-> "heartbeat", v |-> "none"] \in ClientSteps
      /\ [k |-> "start", v |-> "none"] \in ClientSteps /\ [k |-> "booted", v |-> "none"] \in ClientSteps
      /\ [k |-> "configured", v |-> "none"] \in ClientSteps
  BY <1>1 DEF ClientSteps
<1>3. FromMode \in Seq(ClientSteps) /\ FromMode # <<>>
  BY <1>2, OnlyOfList DEF FromMode
<1>4. /\ FromAwait \in Seq(ClientSteps) /\ FromAwait # <<>>
      /\ Head(FromAwait) = [k |-> "await", v |-> "IDLE"] /\ Tail(FromAwait) = FromMode
  BY <1>2, <1>3, FirstOfList DEF FromAwait
<1>5. /\ FromState \in Seq(ClientSteps) /\ FromState # <<>>
      /\ Head(FromState) = [k |-> "state", v |-> "SWITCHED_ON"] /\ Tail(FromState) = FromAwait
  BY <1>2, <1>4, FirstOfList DEF FromState
<1>6. /\ FromConfigured \in Seq(ClientSteps) /\ FromConfigured # <<>>
      /\ Head(FromConfigured) = [k |-> "configured", v |-> "none"] /\ Tail(FromConfigured) = FromState
  BY <1>2, <1>5, FirstOfList DEF FromConfigured
<1>7. /\ FromBooted \in Seq(ClientSteps) /\ FromBooted # <<>>
      /\ Head(FromBooted) = [k |-> "booted", v |-> "none"] /\ Tail(FromBooted) = FromConfigured
  BY <1>2, <1>6, FirstOfList DEF FromBooted
<1>8. /\ FromStart \in Seq(ClientSteps) /\ FromStart # <<>>
      /\ Head(FromStart) = [k |-> "start", v |-> "none"] /\ Tail(FromStart) = FromBooted
  BY <1>2, <1>7, FirstOfList DEF FromStart
<1>9. /\ FromHeartbeat \in Seq(ClientSteps) /\ FromHeartbeat # <<>>
      /\ Head(FromHeartbeat) = [k |-> "heartbeat", v |-> "none"] /\ Tail(FromHeartbeat) = FromStart
  BY <1>2, <1>8, FirstOfList DEF FromHeartbeat
<1>10. /\ FromSetup \in Seq(ClientSteps) /\ FromSetup # <<>>
       /\ Head(FromSetup) = [k |-> "setup", v |-> "none"] /\ Tail(FromSetup) = FromHeartbeat
  BY <1>2, <1>9, FirstOfList DEF FromSetup
<1>11. QED
  BY <1>3, <1>4, <1>5, <1>6, <1>7, <1>8, <1>9, <1>10

LEMMA InitializeIsParts == Initialize = FromSetup
<1> DEFINE a == Do("setup", "none")
           b == Do("heartbeat", "none")
           c == Do("start", "none")
           d == Do("booted", "none")
           e == Do("configured", "none")
           f == Do("state", "SWITCHED_ON")
           g == Do("await", "IDLE")
           l1 == a \o b
           l2 == l1 \o c
           l3 == l2 \o d
           l4 == l3 \o e
           l5 == l4 \o f
<1>1. /\ a \in Seq(ClientSteps) /\ b \in Seq(ClientSteps) /\ c \in Seq(ClientSteps) /\ d \in Seq(ClientSteps)
      /\ e \in Seq(ClientSteps) /\ f \in Seq(ClientSteps) /\ g \in Seq(ClientSteps)
  BY StepsKnown
<1>2. /\ FromHeartbeat \in Seq(ClientSteps) /\ FromStart \in Seq(ClientSteps) /\ FromBooted \in Seq(ClientSteps)
      /\ FromConfigured \in Seq(ClientSteps) /\ FromState \in Seq(ClientSteps) /\ FromAwait \in Seq(ClientSteps)
      /\ FromMode \in Seq(ClientSteps)
  BY FromKnown
<1>3. Initialize = (l5 \o g) \o FromMode
  BY DEF Initialize, FromMode
<1>4. /\ FromSetup = a \o FromHeartbeat /\ FromHeartbeat = b \o FromStart /\ FromStart = c \o FromBooted
      /\ FromBooted = d \o FromConfigured /\ FromConfigured = e \o FromState /\ FromState = f \o FromAwait
      /\ FromAwait = g \o FromMode
  BY DEF FromSetup, FromHeartbeat, FromStart, FromBooted, FromConfigured, FromState, FromAwait
<1> HIDE DEF a, b, c, d, e, f, g
<1>5. l1 \in Seq(ClientSteps)
  BY <1>1, ListsJoin
<1> HIDE DEF l1
<1>6. l2 \in Seq(ClientSteps)
  BY <1>1, <1>5, ListsJoin
<1> HIDE DEF l2
<1>7. l3 \in Seq(ClientSteps)
  BY <1>1, <1>6, ListsJoin
<1> HIDE DEF l3
<1>8. l4 \in Seq(ClientSteps)
  BY <1>1, <1>7, ListsJoin
<1> HIDE DEF l4
<1>9. l5 \in Seq(ClientSteps)
  BY <1>1, <1>8, ListsJoin
<1> HIDE DEF l5
<1>10. (l5 \o g) \o FromMode = l5 \o (g \o FromMode)
  <2>1. l5 \in Seq(ClientSteps) /\ g \in Seq(ClientSteps) /\ FromMode \in Seq(ClientSteps)
    BY <1>1, <1>2, <1>9
  <2>2. QED
    BY <2>1, ListsRegroup
<1>11. (l4 \o f) \o FromAwait = l4 \o (f \o FromAwait)
  <2>1. l4 \in Seq(ClientSteps) /\ f \in Seq(ClientSteps) /\ FromAwait \in Seq(ClientSteps)
    BY <1>1, <1>2, <1>8
  <2>2. QED
    BY <2>1, ListsRegroup
<1>12. (l3 \o e) \o FromState = l3 \o (e \o FromState)
  <2>1. l3 \in Seq(ClientSteps) /\ e \in Seq(ClientSteps) /\ FromState \in Seq(ClientSteps)
    BY <1>1, <1>2, <1>7
  <2>2. QED
    BY <2>1, ListsRegroup
<1>13. (l2 \o d) \o FromConfigured = l2 \o (d \o FromConfigured)
  <2>1. l2 \in Seq(ClientSteps) /\ d \in Seq(ClientSteps) /\ FromConfigured \in Seq(ClientSteps)
    BY <1>1, <1>2, <1>6
  <2>2. QED
    BY <2>1, ListsRegroup
<1>14. (l1 \o c) \o FromBooted = l1 \o (c \o FromBooted)
  <2>1. l1 \in Seq(ClientSteps) /\ c \in Seq(ClientSteps) /\ FromBooted \in Seq(ClientSteps)
    BY <1>1, <1>2, <1>5
  <2>2. QED
    BY <2>1, ListsRegroup
<1>15. (a \o b) \o FromStart = a \o (b \o FromStart)
  <2>1. a \in Seq(ClientSteps) /\ b \in Seq(ClientSteps) /\ FromStart \in Seq(ClientSteps)
    BY <1>1, <1>2
  <2>2. QED
    BY <2>1, ListsRegroup
<1>16. QED
  BY <1>3, <1>4, <1>10, <1>11, <1>12, <1>13, <1>14, <1>15 DEF l1, l2, l3, l4, l5

\* What the client does next, and what is true by then.
Menu(h, rest) ==
  \/ /\ Started /\ dr.st = "SWITCH_ON_DISABLED"
     /\ \/ h.k = "setup" /\ rest = FromHeartbeat
        \/ h.k = "heartbeat" /\ rest = FromStart
        \/ h.k = "start" /\ rest = FromBooted
        \/ h.k = "booted" /\ rest = FromConfigured /\ dr.nmt = "OPERATIONAL"
        \/ h.k = "configured" /\ rest = FromState /\ Known
        \/ h = [k |-> "state", v |-> "SWITCHED_ON"] /\ rest = FromAwait /\ Known
  \/ Started /\ dr.st = "SWITCHED_ON" /\ Known /\ h = [k |-> "await", v |-> "IDLE"] /\ rest = FromMode
  \/ Asking /\ h.k = "mode" /\ rest = <<>>
  \/ Confirming /\ h.k = "confirm" /\ rest = <<>>
  \/ /\ Agreed /\ ShownRight(requested)
     /\ \/ h.k = "word" /\ rest \in Beginnings(requested)
        \/ h = [k |-> "select", v |-> "homing"] /\ rest \in Beginnings(requested)
        \/ h.k \in {"unvelocity", "unfault"} /\ rest = ToState(requested)
        \/ h = [k |-> "state", v |-> GoalOf(requested)] /\ rest = ToMap(requested)
        \/ /\ dr.st = GoalOf(requested) /\ requested \in Motion \ {"POSITION"}
           /\ h = [k |-> "map", v |-> Mapped(requested)] /\ rest = ToSelect(requested)
        \/ /\ dr.st = GoalOf(requested) /\ MapRight(requested)
           /\ h = [k |-> "select", v |-> SelOf(requested)] /\ rest = ToWord(requested)
  \/ /\ Selected
     /\ \/ h.k = "word" /\ rest = Awaited(requested) /\ rest # <<>>
        \/ requested \in Motion /\ h = [k |-> "await", v |-> requested] /\ rest = <<>>

LEMMA MenuKnown ==
  ASSUME NodeTyped, Stage, Pending # <<>>
  PROVE  Menu(Head(Pending), Tail(Pending))
<1>1. CASE Starting
  <2> DEFINE h == Head(Pending)
             rest == Tail(Pending)
  <2>1. Started
    BY <1>1 DEF Starting
  <2>2. /\ Pending = FromSetup => h.k = "setup" /\ rest = FromHeartbeat
        /\ Pending = FromHeartbeat => h.k = "heartbeat" /\ rest = FromStart
        /\ Pending = FromStart => h.k = "start" /\ rest = FromBooted
        /\ Pending = FromBooted => h.k = "booted" /\ rest = FromConfigured
        /\ Pending = FromConfigured => h.k = "configured" /\ rest = FromState
        /\ Pending = FromState => h = [k |-> "state", v |-> "SWITCHED_ON"] /\ rest = FromAwait
        /\ Pending = FromAwait => h = [k |-> "await", v |-> "IDLE"] /\ rest = FromMode
    <3>1. Pending = FromSetup => h.k = "setup" /\ rest = FromHeartbeat
      BY FromKnown
    <3>2. Pending = FromHeartbeat => h.k = "heartbeat" /\ rest = FromStart
      BY FromKnown
    <3>3. Pending = FromStart => h.k = "start" /\ rest = FromBooted
      BY FromKnown
    <3>4. Pending = FromBooted => h.k = "booted" /\ rest = FromConfigured
      BY FromKnown
    <3>5. Pending = FromConfigured => h.k = "configured" /\ rest = FromState
      BY FromKnown
    <3>6. /\ Pending = FromState => h = [k |-> "state", v |-> "SWITCHED_ON"] /\ rest = FromAwait
          /\ Pending = FromAwait => h = [k |-> "await", v |-> "IDLE"] /\ rest = FromMode
      BY FromKnown
    <3>7. QED
      BY <3>1, <3>2, <3>3, <3>4, <3>5, <3>6
  <2> HIDE DEF h, rest
  <2>3. CASE Pending \in {FromSetup, FromHeartbeat, FromStart} /\ dr.st = "SWITCH_ON_DISABLED"
    BY <2>1, <2>2, <2>3 DEF Menu, h, rest
  <2>4. CASE Pending = FromBooted /\ dr.st = "SWITCH_ON_DISABLED" /\ dr.nmt = "OPERATIONAL"
    BY <2>1, <2>2, <2>4 DEF Menu, h, rest
  <2>5. CASE Pending \in {FromConfigured, FromState} /\ dr.st = "SWITCH_ON_DISABLED" /\ Known
    BY <2>1, <2>2, <2>5 DEF Menu, h, rest
  <2>6. CASE Pending = FromAwait /\ dr.st = "SWITCHED_ON" /\ Known
    BY <2>1, <2>2, <2>6 DEF Menu, h, rest
  <2>7. QED
    BY <1>1, <2>3, <2>4, <2>5, <2>6 DEF Starting
<1>2. CASE Asking
  <2>1. PICK m \in ModeNames : Pending = Do("mode", m)
    BY <1>2 DEF Asking
  <2>2. [k |-> "mode", v |-> m] \in ClientSteps
    BY DEF ClientSteps
  <2>3. Head(Pending) = [k |-> "mode", v |-> m] /\ Tail(Pending) = <<>>
    BY <2>1, <2>2, OnlyOfList
  <2>4. QED
    BY <1>2, <2>3 DEF Menu
<1>3. CASE Confirming
  <2>1. [k |-> "confirm", v |-> "none"] \in ClientSteps
    BY DEF ClientSteps
  <2>2. Head(Pending) = [k |-> "confirm", v |-> "none"] /\ Tail(Pending) = <<>>
    BY <1>3, <2>1, OnlyOfList DEF Confirming
  <2>3. QED
    BY <1>3, <2>2 DEF Menu
<1>4. CASE Unselected
  <2>1. requested \in ModeNames /\ Agreed /\ ShownRight(requested)
    BY <1>4 DEF Unselected, Agreed
  <2>2. CASE Pending \in Beginnings(requested)
    BY <2>1, <2>2, BeginningsKnown DEF Menu
  <2>3. CASE Pending = ToSelect(requested) /\ dr.st = GoalOf(requested) /\ MapRight(requested)
    BY <2>1, <2>3, Middles DEF Menu
  <2>4. CASE Pending = ToMap(requested) /\ dr.st = GoalOf(requested)
    <3>1. CASE requested \in Motion \ {"POSITION"}
      BY <2>1, <2>4, <3>1, Middles DEF Menu
    <3>2. CASE requested \notin Motion \ {"POSITION"}
      <4>1. Pending = ToSelect(requested) /\ MapRight(requested)
        BY <2>1, <2>4, <3>2, Middles DEF MapRight
      <4>2. QED
        BY <2>3, <2>4, <4>1
    <3>3. QED
      BY <3>1, <3>2
  <2>5. QED
    BY <1>4, <2>2, <2>3, <2>4 DEF Unselected
<1>5. CASE Selected
  <2>1. requested \in ModeNames /\ Pending \in {ToWord(requested), Awaited(requested)}
    BY <1>5 DEF Selected, Agreed
  <2>2. QED
    BY <1>5, <2>1, Ends DEF Menu
<1>6. QED
  BY <1>1, <1>2, <1>3, <1>4, <1>5 DEF Stage

\* A call that has nothing left to do.
LEMMA NothingLeft ==
  ASSUME NodeTyped, Stage, Pending = <<>>, nodeCall["client"].pc # "asked"
  PROVE  Selected /\ (requested \in Motion => modes = SelOf(requested) /\ actualMode = requested /\ SyncRight(requested))
<1>1. ~Starting
  BY FromKnown DEF Starting
<1>2. ~Asking
  <2> SUFFICES ASSUME NEW m \in ModeNames, Pending = Do("mode", m) PROVE FALSE
    BY DEF Asking
  <2>1. [k |-> "mode", v |-> m] \in ClientSteps
    BY DEF ClientSteps
  <2>2. QED
    BY <2>1, OnlyOfList
<1>3. ~Confirming
  <2>1. [k |-> "confirm", v |-> "none"] \in ClientSteps
    BY DEF ClientSteps
  <2>2. QED
    BY <2>1, OnlyOfList DEF Confirming
<1>4. ~Unselected
  BY BeginningsKnown, Middles DEF Unselected, Agreed
<1>5. QED
  BY <1>1, <1>2, <1>3, <1>4 DEF Stage, Selected, Turning, ShownRight

LEMMA PartsStay ==
  ASSUME UNCHANGED <<conf, requested>>
  PROVE  /\ SelOf(requested)' = SelOf(requested) /\ GoalOf(requested)' = GoalOf(requested)
         /\ Beginnings(requested)' = Beginnings(requested) /\ ToState(requested)' = ToState(requested)
         /\ ToMap(requested)' = ToMap(requested) /\ ToSelect(requested)' = ToSelect(requested)
         /\ ToWord(requested)' = ToWord(requested) /\ Awaited(requested)' = Awaited(requested)
         /\ Mapped(requested)' = Mapped(requested)
<1>1. /\ SelOf(requested)' = SelOf(requested) /\ GoalOf(requested)' = GoalOf(requested)
      /\ Mapped(requested)' = Mapped(requested) /\ Awaited(requested)' = Awaited(requested)
  BY DEF SelOf, GoalOf, Mapped, DriveMode, Awaited
<1>2. ToWord(requested)' = ToWord(requested)
  BY DEF ToWord, WordOf, Awaited
<1>3. ToSelect(requested)' = ToSelect(requested)
  BY <1>1, <1>2 DEF ToSelect
<1>4. ToMap(requested)' = ToMap(requested)
  BY <1>1, <1>3 DEF ToMap, MapOf
<1>5. ToState(requested)' = ToState(requested)
  BY <1>1, <1>4 DEF ToState
<1>6. ToBegin(requested)' = ToBegin(requested)
  BY <1>5 DEF ToBegin, FirstOf
<1>7. Beginnings(requested)' = Beginnings(requested)
  BY <1>5, <1>6 DEF Beginnings
<1>8. QED
  BY <1>1, <1>2, <1>3, <1>4, <1>5, <1>7

LEMMA FactsStay ==
  ASSUME UNCHANGED <<conf, requested, actualMode, modes, sync, sw, dr, nodeFrames>>, last'.goal = last.goal
  PROVE  /\ Known' = Known /\ Agreed' = Agreed /\ ShownRight(requested)' = ShownRight(requested)
         /\ MapRight(requested)' = MapRight(requested) /\ Settled(requested)' = Settled(requested)
         /\ SyncRight(requested)' = SyncRight(requested) /\ \A k : Ahead(k)' = Ahead(k)
<1>1. Known' = Known /\ Agreed' = Agreed
  BY DEF Known, Agreed
<1>2. MapRight(requested)' = MapRight(requested) /\ SyncRight(requested)' = SyncRight(requested)
  BY PartsStay DEF MapRight, SyncRight
<1>3. ShownRight(requested)' = ShownRight(requested)
  BY <1>2, PartsStay DEF ShownRight
<1>4. Settled(requested)' = Settled(requested)
  BY <1>2, PartsStay DEF Settled
<1>5. \A k : Ahead(k)' = Ahead(k)
  BY DEF Ahead
<1>6. QED
  BY <1>1, <1>2, <1>3, <1>4, <1>5

-----------------------------------------------------------------------------
(* What goes on and what stays *)

\* The call of the client goes on, or returns.
LEMMA GoesOn ==
  ASSUME CallsTyped, LastTyped, NEW rest, Proceeds("client", rest)
  PROVE  /\ Pending' = rest /\ nodeCall'["monitor"] = nodeCall["monitor"]
         /\ nodeCall'["client"].pc = IF rest = <<>> THEN "idle" ELSE "next"
         /\ nodeCall'["client"].todo = rest
         /\ LastTyped' /\ last'.goal = last.goal /\ last'.clean = last.clean
<1>1. "client" \in Threads /\ "monitor" \in Threads /\ DOMAIN nodeCall = Threads
  BY DEF CallsTyped, Threads
<1>2. CASE rest = <<>>
  <2>1. nodeCall' = [nodeCall EXCEPT !["client"] = Idle] /\ last' = [last EXCEPT !.ok = TRUE]
    BY <1>2 DEF Proceeds
  <2>2. nodeCall'["client"] = Idle /\ nodeCall'["monitor"] = nodeCall["monitor"]
    BY <1>1, <2>1
  <2>3. LastTyped' /\ last'.goal = last.goal /\ last'.clean = last.clean
    BY <2>1 DEF LastTyped
  <2>4. QED
    BY <1>2, <2>2, <2>3 DEF Idle, Pending
<1>3. CASE rest # <<>>
  <2>1. nodeCall' = [nodeCall EXCEPT !["client"].pc = "next", !["client"].todo = rest] /\ last' = last
    BY <1>3 DEF Proceeds
  <2>2. nodeCall["client"] = [pc |-> nodeCall["client"].pc, todo |-> nodeCall["client"].todo, init |-> nodeCall["client"].init]
    BY <1>1 DEF CallsTyped, CallTyped
  <2>3. nodeCall'["client"].pc = "next" /\ nodeCall'["client"].todo = rest /\ nodeCall'["monitor"] = nodeCall["monitor"]
    BY <1>1, <2>1, <2>2
  <2>4. QED
    BY <1>3, <2>1, <2>3 DEF Pending, LastTyped
<1>4. QED
  BY <1>2, <1>3

\* Nothing but the calls, the word for the mode and what the monitor saw changes.
LEMMA CalmGoesOn ==
  ASSUME TypedInv, Well,
         nodeCall["client"].pc \notin {"idle", "asked"}, nodeCall'["client"].pc # "asked",
         nodeCall'["monitor"] = nodeCall["monitor"],
         nodeCall'["client"].pc = "idle" => nodeCall'["client"].todo = <<>>,
         nodeCall'["client"].pc \in {"opening", "waiting", "woken"} => Head(nodeCall'["client"].todo).k = "await",
         UNCHANGED <<rpc, modes, sw, lastNmt, dr, nodeFrames>>,
         \/ UNCHANGED <<actualMode, beat>>
         \/ actualMode' \notin {"HW_FAULT", "NOT_CONFIGURED"} /\ (sw = "SWITCHED_ON" => actualMode' = "IDLE")
  PROVE  Calm' /\ Wire' /\ ModesKnown' /\ RpcHeld'
<1>1. Calm'
  BY DEF Well, Calm
<1>2. Wire'
  <2>1. \A r \in 1..Len(nodeFrames) : nodeFrames[r].t # "reply"
    BY DEF Well, Wire
  <2>2. \A k \in 1..Len(nodeFrames) : ~Ahead(k)
    BY <2>1 DEF Ahead
  <2>3. \A k \in 1..Len(nodeFrames) : nodeFrames[k].st = dr.st /\ nodeFrames[k].disp = dr.disp /\ dr.disp = dr.sel
    BY <2>2 DEF Well, Wire
  <2>4. Heard(sw)'
    BY DEF Well, Wire, Heard
  <2>5. QED
    BY <2>1, <2>3, <2>4 DEF Wire
<1>3. ModesKnown'
  BY DEF Well, ModesKnown, NoneUnderWay
<1>4. RpcHeld'
  BY DEF Well, RpcHeld
<1>5. QED
  BY <1>1, <1>2, <1>3, <1>4

\* The client has not got any further, whatever has arrived.
LEMMA StageStays ==
  ASSUME TypedInv, Stage, Pending' = Pending, UNCHANGED <<conf, requested, actualMode, modes, sync, sw, dr>>,
         last'.goal = last.goal, nodeCall'["client"].pc \notin {"asked", "woken"},
         nodeCall'["client"].pc # "next" => nodeCall["client"].pc # "next" \/ Head(Pending).k = "await",
         \A k \in 1..Len(nodeFrames') : \E j \in 1..Len(nodeFrames) : nodeFrames'[k] = nodeFrames[j]
  PROVE  Stage'
<1>1. Known' = Known /\ Agreed' = Agreed /\ MapRight(requested)' = MapRight(requested) /\ SyncRight(requested)' = SyncRight(requested)
  BY PartsStay DEF Known, Agreed, MapRight, SyncRight
<1>2. Settled(requested)' = Settled(requested)
  BY <1>1, PartsStay DEF Settled
<1>3. CASE Starting
  <2>1. Started'
    BY <1>3 DEF Starting, Started
  <2>2. Starting'
    BY <1>1, <1>3, <2>1 DEF Starting, FromSetup, FromHeartbeat, FromStart, FromBooted, FromConfigured, FromState, FromAwait, FromMode
  <2>3. QED
    BY <2>2 DEF Stage
<1>4. CASE Asking
  <2>1. PICK m \in ModeNames : 
            /\ Pending = Do("mode", m) /\ last.goal \in {m, "none"} /\ Known /\ Settled(requested)
            /\ requested \in Motion => actualMode = requested
    BY <1>4 DEF Asking
  <2>2. Head(Pending).k = "mode"
    BY <2>1 DEF Do
  <2>3. nodeCall'["client"].pc = "next"
    BY <1>4, <2>2 DEF Asking
  <2>4. Asking'
    BY <1>1, <1>2, <2>1, <2>3 DEF Asking
  <2>5. QED
    BY <2>4 DEF Stage
<1>5. CASE Confirming
  <2>1. Head(Pending).k = "confirm"
    BY <1>5 DEF Confirming, Do
  <2>2. nodeCall'["client"].pc = "next"
    BY <1>5, <2>1 DEF Confirming
  <2>3. Confirming'
    BY <1>1, <1>2, <1>5, <2>2 DEF Confirming
  <2>4. QED
    BY <2>3 DEF Stage
<1>6. CASE Unselected
  <2>1. ShownRight(requested)'
    BY <1>1, <1>6, PartsStay DEF Unselected, ShownRight
  <2>2. Unselected'
    BY <1>1, <1>6, <2>1, PartsStay DEF Unselected
  <2>3. QED
    BY <2>2 DEF Stage
<1>7. CASE Selected
  <2>1. Turning(requested)'
    BY <1>1, <1>7, PartsStay DEF Selected, Turning, ShownRight
  <2>2. Selected'
    BY <1>1, <1>7, <2>1, PartsStay DEF Selected
  <2>3. QED
    BY <2>2 DEF Stage
<1>8. QED
  BY <1>3, <1>4, <1>5, <1>6, <1>7 DEF Stage

-----------------------------------------------------------------------------
(* Steps of the client that ask the drive for nothing *)

LEMMA Spoiled ==
  ASSUME LastTyped,
         \/ Fails("client") \/ Fails("monitor") \/ Disturbed \/ Torn
  PROVE  CleanInv'
BY DEF LastTyped, Fails, Disturbed, Torn, CleanInv

\* The next step of the client is one of those it may take by then.
LEMMA ClientAt ==
  ASSUME TypedInv, Well, NEW kind, At("client", kind)
  PROVE  /\ Menu([k |-> kind, v |-> Arg("client")], Remaining("client"))
         /\ nodeCall["client"].pc = "next" /\ Remaining("client") \in Seq(ClientSteps)
         /\ Pending = nodeCall["client"].todo
<1>1. /\ nodeCall["client"].todo # <<>> /\ nodeCall["client"].pc = "next"
      /\ Head(nodeCall["client"].todo) = [k |-> Head(nodeCall["client"].todo).k, v |-> Arg("client")]
      /\ Head(nodeCall["client"].todo).k = kind
      /\ Remaining("client") \in Seq(ClientSteps)
  BY AtArg DEF Threads, StepsOf, At
<1>2. Pending = nodeCall["client"].todo
  BY <1>1 DEF Pending
<1>3. Menu(Head(Pending), Tail(Pending))
  BY <1>1, <1>2, MenuKnown DEF TypedInv, Well
<1>4. QED
  BY <1>1, <1>2, <1>3 DEF Remaining

\* The client goes on without having changed anything.
LEMMA QuietStep ==
  ASSUME TypedInv, Well, LastTyped, nodeCall["client"].pc \notin {"idle", "asked"}, NEW rest, Proceeds("client", rest),
         UNCHANGED <<conf, rpc, node, watch, dr, nodeFrames>>,
         Pending' = rest /\ nodeCall'["client"].pc \in {"idle", "next"} /\ last'.goal = last.goal => Stage'
  PROVE  CleanInv'
<1>1. /\ Pending' = rest /\ nodeCall'["monitor"] = nodeCall["monitor"]
      /\ nodeCall'["client"].pc = IF rest = <<>> THEN "idle" ELSE "next"
      /\ nodeCall'["client"].todo = rest
      /\ LastTyped' /\ last'.goal = last.goal /\ last'.clean = last.clean
  BY GoesOn DEF TypedInv
<1>2. UNCHANGED <<rpc, modes, sw, lastNmt, dr, nodeFrames, actualMode, beat>>
  BY DEF node, watch
<1>3. Calm' /\ Wire' /\ ModesKnown' /\ RpcHeld'
  BY <1>1, <1>2, CalmGoesOn
<1>4. QED
  BY <1>1, <1>3 DEF CleanInv, Well

LEMMA WordKeeps == ASSUME TypedInv, Well, LastTyped, WriteWord("client") PROVE CleanInv'
<1> DEFINE rest == Remaining("client")
<1>1. /\ Menu([k |-> "word", v |-> Arg("client")], rest)
      /\ nodeCall["client"].pc = "next"
  BY ClientAt DEF WriteWord
<1>2. CASE Fails("client")
  BY <1>2, Spoiled
<1>3. CASE Proceeds("client", rest)
  <2>1. UNCHANGED <<conf, rpc, node, watch, dr, nodeFrames>> /\ UNCHANGED <<requested, actualMode, modes, sync, sw>>
    BY DEF WriteWord, node
  <2>2. ASSUME Pending' = rest, nodeCall'["client"].pc \in {"idle", "next"}, last'.goal = last.goal PROVE Stage'
    <3>1. CASE Agreed /\ ShownRight(requested) /\ rest \in Beginnings(requested)
      BY <2>1, <2>2, <3>1, PartsStay, FactsStay DEF Stage, Unselected
    <3>2. CASE Selected /\ rest = Awaited(requested) /\ rest # <<>>
      <4>1. Turning(requested)'
        BY <2>1, <2>2, <3>2, PartsStay, FactsStay DEF Selected, Turning
      <4>2. QED
        BY <2>1, <2>2, <3>2, <4>1, PartsStay, FactsStay DEF Selected, Stage
    <3>3. QED
      BY <1>1, <3>1, <3>2 DEF Menu
  <2>3. QED
    BY <1>1, <1>3, <2>1, <2>2, QuietStep
<1>4. QED
  BY <1>2, <1>3 DEF WriteWord

LEMMA LeavingKeeps ==
  ASSUME TypedInv, Well, LastTyped, LeaveVelocity("client") \/ LeaveFault("client")
  PROVE  CleanInv'
<1> DEFINE rest == Remaining("client")
<1>1. PICK kind \in {"unvelocity", "unfault"} :
         At("client", kind) /\ \/ kind = "unvelocity" /\ LeaveVelocity("client")
                               \/ kind = "unfault" /\ LeaveFault("client")
  BY DEF LeaveVelocity, LeaveFault
<1>2. Menu([k |-> kind, v |-> Arg("client")], rest) /\ nodeCall["client"].pc = "next" /\ rest \in Seq(ClientSteps)
  BY <1>1, ClientAt
<1>3. Agreed /\ ShownRight(requested) /\ rest = ToState(requested)
  BY <1>1, <1>2 DEF Menu
<1>4. PICK todo \in {Homing \o rest, rest} : Proceeds("client", todo)
  <2>1. CASE LeaveVelocity("client")
    <3>1. <<>> \o rest = rest
      BY <1>2, ListsJoin
    <3>2. QED
      BY <2>1, <3>1 DEF LeaveVelocity, Homing
  <2>2. CASE LeaveFault("client")
    <3>1. <<>> \o rest = rest
      BY <1>2, ListsJoin
    <3>2. actualMode # "HW_FAULT"
      BY DEF Well, Calm
    <3>3. QED
      BY <2>2, <3>1, <3>2 DEF LeaveFault
  <2>3. QED
    BY <1>1, <2>1, <2>2
<1>5. UNCHANGED <<conf, rpc, node, watch, dr, nodeFrames>> /\ UNCHANGED <<requested, actualMode, modes, sync, sw>>
  BY DEF LeaveVelocity, LeaveFault, node
<1>6. todo \in Beginnings(requested)
  BY <1>3, <1>4, BeginningsKnown DEF Agreed, TypedInv
<1>7. ASSUME Pending' = todo, last'.goal = last.goal PROVE Stage'
  BY <1>3, <1>5, <1>6, <1>7, PartsStay, FactsStay DEF Stage, Unselected
<1>8. QED
  BY <1>2, <1>4, <1>5, <1>7, QuietStep

LEMMA AlreadyThereKeeps == ASSUME TypedInv, Well, LastTyped, AlreadyThere("client") PROVE CleanInv'
<1> DEFINE rest == Remaining("client")
<1>1. /\ Menu([k |-> "state", v |-> Arg("client")], rest)
      /\ nodeCall["client"].pc = "next"
  BY ClientAt DEF AlreadyThere
<1>2. sw = Arg("client") /\ Heard(sw)
  BY <1>1 DEF AlreadyThere, Well, Wire
<1>3. UNCHANGED <<conf, rpc, node, watch, dr, nodeFrames>> /\ UNCHANGED <<requested, actualMode, modes, sync, sw>>
  BY DEF AlreadyThere, node
<1>4. /\ Agreed /\ ShownRight(requested) /\ Arg("client") = GoalOf(requested) /\ rest = ToMap(requested)
      /\ dr.st = GoalOf(requested)
  <2>1. ~(Arg("client") = "SWITCHED_ON" /\ dr.st = "SWITCH_ON_DISABLED")
    BY <1>2 DEF Heard
  <2>2. /\ Agreed /\ ShownRight(requested) /\ Arg("client") = GoalOf(requested) /\ rest = ToMap(requested)
    BY <1>1, <2>1 DEF Menu
  <2>3. QED
    BY <1>2, <2>2 DEF Heard, GoalOf
<1>5. ASSUME Pending' = rest, last'.goal = last.goal PROVE Stage'
  BY <1>3, <1>4, <1>5, PartsStay, FactsStay DEF Stage, Unselected
<1>6. QED
  BY <1>1, <1>3, <1>5, QuietStep DEF AlreadyThere

LEMMA StartedKeeps == ASSUME TypedInv, Well, LastTyped, NodeStarted("client") PROVE CleanInv'
<1> DEFINE rest == Remaining("client")
<1>1. /\ Menu([k |-> "booted", v |-> Arg("client")], rest)
      /\ nodeCall["client"].pc = "next"
  BY ClientAt DEF NodeStarted
<1>2. Started /\ dr.st = "SWITCH_ON_DISABLED" /\ rest = FromConfigured /\ dr.nmt = "OPERATIONAL"
  BY <1>1 DEF Menu
<1>3. UNCHANGED <<conf, rpc, node, watch, dr, nodeFrames>> /\ UNCHANGED <<requested, actualMode, modes, sync, sw>>
      /\ sw # "NOT_READY_TO_SWITCH_ON"
  BY DEF NodeStarted, node
<1>4. ASSUME Pending' = rest, last'.goal = last.goal, nodeCall'["client"].pc \in {"idle", "next"} PROVE Stage'
  <2>1. Started' /\ Known'
    BY <1>2, <1>3, <1>4 DEF Started, Known
  <2>2. FromConfigured' = FromConfigured
    BY DEF FromConfigured, FromState, FromAwait, FromMode
  <2>3. Starting'
    BY <1>2, <1>3, <1>4, <2>1, <2>2 DEF Starting
  <2>4. QED
    BY <2>3 DEF Stage
<1>5. QED
  BY <1>1, <1>3, <1>4, QuietStep DEF NodeStarted

\* The mode is there, or the observer says so.
LEMMA ModeThereKeeps ==
  ASSUME TypedInv, Well, LastTyped, ModeIsThere("client") \/ ModeChanged("client")
  PROVE  CleanInv'
<1> DEFINE h == Head(nodeCall["client"].todo)
           rest == Remaining("client")
<1>1. /\ nodeCall["client"].todo # <<>> /\ nodeCall["client"].pc \in {"next", "woken"} /\ h.k = "await"
      /\ Pending = nodeCall["client"].todo
  <2>1. CASE ModeIsThere("client")
    BY <2>1 DEF ModeIsThere, At, Pending
  <2>2. CASE ModeChanged("client")
    BY <2>2 DEF ModeChanged, Well, Calm, Pending, TypedInv, CallsTyped, CallTyped, Threads
  <2>3. QED
    BY <2>1, <2>2
<1>2. Menu(h, rest)
  BY <1>1, MenuKnown DEF TypedInv, Well, Remaining
<1>3. UNCHANGED <<conf, rpc, node, watch, dr, nodeFrames>> /\ UNCHANGED <<requested, actualMode, modes, sync, sw>>
      /\ Proceeds("client", rest)
  BY DEF ModeIsThere, ModeChanged, node
<1>4. \/ Started /\ dr.st = "SWITCHED_ON" /\ Known /\ rest = FromMode
      \/ Selected /\ requested \in Motion /\ h.v = requested /\ rest = <<>>
  BY <1>1, <1>2 DEF Menu
<1>5. ASSUME Pending' = rest, last'.goal = last.goal,
             nodeCall'["client"].pc = IF rest = <<>> THEN "idle" ELSE "next"
      PROVE  Stage'
  <2>1. CASE Started /\ dr.st = "SWITCHED_ON" /\ Known /\ rest = FromMode
    <3>1. FromMode # <<>> /\ InitialMode \in ModeNames
      BY FromKnown, NodeAssumption
    <3>2. Settled(requested)
      BY <2>1 DEF Started, Settled, GoalOf, SelOf, MapRight, Motion
    <3>3. Settled(requested)' /\ Known'
      BY <1>3, <1>5, <2>1, <3>2, FactsStay
    <3>4. /\ Pending' = Do("mode", InitialMode) /\ last'.goal \in {InitialMode, "none"} /\ modes' = dr'.sel
          /\ (requested' \in Motion => actualMode' = requested')
      BY <1>3, <1>5, <2>1 DEF Started, FromMode, Motion
    <3>5. Asking'
      BY <1>5, <2>1, <3>1, <3>3, <3>4 DEF Asking
    <3>6. QED
      BY <3>5 DEF Stage
  <2>2. CASE Selected /\ requested \in Motion /\ h.v = requested /\ rest = <<>>
    <3>1. actualMode = requested
      <4>1. CASE ModeIsThere("client")
        BY <2>2, <4>1 DEF ModeIsThere, Arg
      <4>2. CASE ModeChanged("client")
        BY <2>2, <4>2 DEF ModeChanged, Selected, Turning
      <4>3. QED
        BY <4>1, <4>2
    <3>2. Turning(requested)'
      BY <1>3, <1>5, <2>2, <3>1, PartsStay, FactsStay DEF Selected, Turning
    <3>3. Selected'
      BY <1>3, <1>5, <2>2, <3>2, PartsStay, FactsStay DEF Selected
    <3>4. QED
      BY <3>3 DEF Stage
  <2>3. QED
    BY <1>4, <2>1, <2>2
<1>6. /\ Pending' = rest /\ nodeCall'["client"].pc = IF rest = <<>> THEN "idle" ELSE "next"
  BY <1>3, GoesOn DEF TypedInv
<1>7. QED
  BY <1>1, <1>3, <1>5, <1>6, QuietStep

\* The drive shows the mode that it was put in, where POSITION_DIRECT is not cyclic position
\* if VELOCITY is.
CyclicIsOne == \A c \in Confs : c.csv => c.ip

LEMMA ShownIs ==
  ASSUME NodeTyped, CyclicIsOne, NEW m \in Motion
  PROVE  /\ m \in External => Shown(SelOf(m)) = (IF requested = "TORQUE" THEN "TORQUE" ELSE "CURRENT")
         /\ m \notin External => Shown(SelOf(m)) = m
         /\ Enables(SelOf(m)) = (m # "POSITION" /\ SelOf(m) # "ip")
<1>1. conf.csv \in BOOLEAN /\ conf.ip \in BOOLEAN /\ (conf.csv => conf.ip)
  BY ConfKnown DEF CyclicIsOne, NodeTyped
<1>2. CASE m = "POSITION"
  BY <1>2 DEF SelOf, DriveMode, Shown, External, Enables
<1>3. CASE m = "VELOCITY"
  BY <1>1, <1>3 DEF SelOf, DriveMode, Shown, External, Enables
<1>4. CASE m \in External
  BY <1>4 DEF SelOf, DriveMode, Shown, External, Enables
<1>5. CASE m = "POSITION_DIRECT"
  BY <1>1, <1>5 DEF SelOf, DriveMode, Shown, External, Enables
<1>6. QED
  BY <1>2, <1>3, <1>4, <1>5 DEF Motion, External

\* A mode is shown for what the drive is in, and nothing else, as long as what it is in fits.
LEMMA FitsIs ==
  ASSUME NodeTyped, NEW m \in Motion
  PROVE  /\ Fits(SelOf(m))
         /\ \A d \in DriveModes : Fits(d) /\ requested = m /\ Shown(d) = m =>
              d = SelOf(m) /\ Enables(d) = (m # "POSITION" /\ SelOf(m) # "ip")
<1>1. conf.csv \in BOOLEAN /\ conf.ip \in BOOLEAN
  BY ConfKnown
<1> USE DEF SelOf, DriveMode, Shown, External, Enables, Fits, DriveModes
<1>2. CASE m = "POSITION"
  BY <1>2
<1>3. CASE m = "VELOCITY"
  BY <1>1, <1>3
<1>4. CASE m \in External
  BY <1>4
<1>5. CASE m = "POSITION_DIRECT"
  BY <1>1, <1>5
<1>6. QED
  BY <1>2, <1>3, <1>4, <1>5 DEF Motion

\* Nothing comes up that the drive was not in.
LEMMA PlainKept ==
  ASSUME Plain, conf' = conf, modes' = modes, dr'.sel = dr.sel \/ Fits(dr'.sel), dr'.disp \in {dr.disp, dr.sel},
         \A k \in 1..Len(nodeFrames') : nodeFrames'[k].t = "tpdo" =>
            (\E j \in 1..Len(nodeFrames) : nodeFrames'[k] = nodeFrames[j]) \/ nodeFrames'[k].disp \in {dr.disp, dr.sel}
  PROVE  Plain'
<1>1. \A d : Fits(d)' <=> Fits(d)
  BY DEF Fits
<1>2. Fits(dr'.sel) /\ Fits(dr'.disp) /\ Fits(modes')
  BY DEF Plain
<1>3. \A k \in 1..Len(nodeFrames') : nodeFrames'[k].t = "tpdo" => Fits(nodeFrames'[k].disp)
  BY DEF Plain
<1>4. Fits(dr.sel)' /\ Fits(dr.disp)' /\ Fits(modes)'
  BY <1>1, <1>2 DEF Fits
<1>5. \A k \in 1..Len(nodeFrames') : nodeFrames'[k].t = "tpdo" => Fits(nodeFrames[k].disp)'
  BY <1>3 DEF Fits
<1>6. QED
  BY <1>4, <1>5 DEF Plain

\* The client begins to wait for a mode.
LEMMA WaitingKeeps ==
  ASSUME TypedInv, Well, LastTyped, ModeIsNot("client") \/ OpenWindow("client")
  PROVE  CleanInv'
<1>1. PICK pc \in {"opening", "waiting"} : nodeCall' = [nodeCall EXCEPT !["client"].pc = pc]
  BY DEF ModeIsNot, OpenWindow
<1>2. /\ Head(nodeCall["client"].todo).k = "await" /\ nodeCall["client"].pc \in {"next", "opening"}
      /\ Pending = nodeCall["client"].todo
  BY DEF ModeIsNot, OpenWindow, At, Well, Calm, Pending
<1>3. /\ nodeCall'["client"].pc = pc /\ nodeCall'["client"].todo = nodeCall["client"].todo
      /\ nodeCall'["monitor"] = nodeCall["monitor"]
  BY <1>1 DEF TypedInv, CallsTyped, CallTyped, Threads
<1>4. UNCHANGED <<conf, rpc, actualMode, requested, modes, sync, sw, beat, lastNmt, dr, nodeFrames, last>>
  BY DEF ModeIsNot, OpenWindow, node, watch, nodeGhosts
<1>5. Pending' = Pending
  BY <1>2, <1>3 DEF Pending
<1>6. Stage'
  BY <1>2, <1>3, <1>4, <1>5, StageStays DEF Well
<1>7. Calm' /\ Wire' /\ ModesKnown' /\ RpcHeld'
  BY <1>2, <1>3, <1>4, CalmGoesOn
<1>8. QED
  BY <1>4, <1>6, <1>7 DEF CleanInv, Well, LastTyped

LEMMA ConfiguredKeeps == ASSUME TypedInv, Well, LastTyped, Configured("client") PROVE CleanInv'
<1> DEFINE rest == Remaining("client")
<1>1. /\ Menu([k |-> "configured", v |-> Arg("client")], rest)
      /\ nodeCall["client"].pc = "next"
  BY ClientAt DEF Configured
<1>2. Started /\ dr.st = "SWITCH_ON_DISABLED" /\ rest = FromState /\ Known
  BY <1>1 DEF Menu
<1>3. UNCHANGED <<conf, rpc, requested, modes, sync, sw, lastNmt, dr, nodeFrames, last>> /\ actualMode' = "CONFIGURED"
  BY DEF Configured
<1>4. /\ nodeCall'["client"].pc = "next" /\ nodeCall'["client"].todo = rest
      /\ nodeCall'["monitor"] = nodeCall["monitor"]
  BY <1>1 DEF Configured, TypedInv, CallsTyped, CallTyped, Threads, Remaining
<1>5. sw # "SWITCHED_ON"
  BY <1>1, <1>2 DEF Well, Wire, Heard
<1>6. Calm' /\ Wire' /\ ModesKnown' /\ RpcHeld'
  BY <1>1, <1>3, <1>4, <1>5, CalmGoesOn
<1>7. Stage'
  <2>1. Started' /\ Known'
    BY <1>2, <1>3, <1>4 DEF Started, Known
  <2>2. FromState' = FromState
    BY DEF FromState, FromAwait, FromMode
  <2>3. Pending' = rest
    BY <1>4 DEF Pending
  <2>4. Starting'
    BY <1>2, <1>3, <2>1, <2>2, <2>3 DEF Starting
  <2>5. QED
    BY <2>4 DEF Stage
<1>8. QED
  BY <1>3, <1>6, <1>7 DEF CleanInv, Well, LastTyped

\* What the statusword tells when nothing is under way.
LEMMA IdleIsKnown ==
  ASSUME Well, nodeCall["client"].pc # "asked", Known, dr.st = "SWITCHED_ON"
  PROVE  actualMode = "IDLE"
BY DEF Well, Calm, Wire, Heard, Known

LEMMA ConfirmKeeps == ASSUME TypedInv, Well, LastTyped, Confirm("client") PROVE CleanInv'
<1> DEFINE rest == Remaining("client")
<1>1. /\ Menu([k |-> "confirm", v |-> Arg("client")], rest)
      /\ nodeCall["client"].pc = "next"
  BY ClientAt DEF Confirm
<1>2. Confirming /\ rest = <<>>
  BY <1>1 DEF Menu
<1>3. UNCHANGED <<conf, rpc, requested, modes, sync, sw, beat, lastNmt, dr, nodeFrames>> /\ actualMode' = requested
  BY DEF Confirm, watch
<1>4. /\ Pending' = rest /\ nodeCall'["monitor"] = nodeCall["monitor"]
      /\ nodeCall'["client"].pc = "idle" /\ nodeCall'["client"].todo = <<>>
      /\ LastTyped' /\ last'.goal = last.goal
  BY <1>2, GoesOn DEF Confirm, TypedInv
<1>5. requested \in ModeNames /\ Known /\ dr.st = GoalOf(requested) /\ Heard(sw)
  BY <1>1, <1>2 DEF Confirming, Agreed, Settled, Well, Wire
<1>6. sw = "SWITCHED_ON" => requested = "IDLE"
  <2> SUFFICES ASSUME sw = "SWITCHED_ON" PROVE requested = "IDLE"
    OBVIOUS
  <2>1. dr.st = "SWITCHED_ON" /\ requested \notin Motion
    BY <1>5 DEF Heard, GoalOf
  <2>2. actualMode = "IDLE"
    BY <1>1, <1>5, <2>1, IdleIsKnown
  <2>3. QED
    BY <1>2, <2>2 DEF Confirming, External
<1>7. requested \notin {"HW_FAULT", "NOT_CONFIGURED"}
  BY <1>5 DEF ModeNames, Motion
<1>8. Calm' /\ Wire' /\ ModesKnown' /\ RpcHeld'
  BY <1>1, <1>3, <1>4, <1>6, <1>7, CalmGoesOn
<1>9. Stage'
  <2>2. /\ SelOf(requested)' = SelOf(requested) /\ GoalOf(requested)' = GoalOf(requested)
        /\ MapRight(requested)' = MapRight(requested) /\ SyncRight(requested)' = SyncRight(requested)
    BY <1>3, PartsStay DEF MapRight, SyncRight
  <2>3. Agreed'
    BY <1>2, <1>3, <1>4 DEF Confirming, Agreed, Known
  <2>4. Turning(requested)'
    BY <1>2, <1>3, <1>4, <2>2 DEF Confirming, Settled, Turning, ShownRight
  <2>5. Selected'
    BY <1>2, <1>3, <1>4, <2>2, <2>3, <2>4 DEF Confirming, Settled, Selected
  <2>6. QED
    BY <2>5 DEF Stage
<1>10. QED
  BY <1>4, <1>8, <1>9 DEF CleanInv, Well

\* The client calls.
LEMMA CallKeepsWell ==
  ASSUME TypedInv, Well, LastTyped, Apart, NEW mode \in ModeNames, SetControlMode(mode)
  PROVE  CleanInv'
<1>1. nodeCall["client"].pc = "idle" /\ nodeCall["client"].todo = <<>> /\ Pending = <<>>
  BY DEF SetControlMode, Well, Calm, Pending
<1>2. Selected /\ (requested \in Motion => modes = SelOf(requested) /\ actualMode = requested /\ SyncRight(requested))
  BY <1>1, NothingLeft DEF TypedInv, Well
<1>3. UNCHANGED <<conf, rpc, actualMode, requested, modes, sync, sw, beat, lastNmt, dr, nodeFrames>>
      /\ rpc = <<>>
  BY DEF SetControlMode, node, watch
<1>4. /\ nodeCall'["client"].pc = "next" /\ nodeCall'["client"].todo = Do("mode", mode)
      /\ nodeCall'["monitor"] = nodeCall["monitor"]
  BY DEF SetControlMode, Starts, TypedInv, CallsTyped, Threads
<1>5. LastTyped' /\ last'.goal = mode /\ last'.clean = last.clean
  BY DEF SetControlMode, LastTyped
<1>7. Calm' /\ ModesKnown' /\ RpcHeld'
  BY <1>3, <1>4 DEF Well, Calm, ModesKnown, NoneUnderWay, RpcHeld
<1>8. Wire'
  <2>1. \A r \in 1..Len(nodeFrames) : nodeFrames[r].t # "reply"
    BY <1>1 DEF Well, Wire
  <2>2. \A k \in 1..Len(nodeFrames) : ~Ahead(k)
    BY <2>1 DEF Ahead
  <2>3. \A k \in 1..Len(nodeFrames) : nodeFrames[k].st = dr.st /\ nodeFrames[k].disp = dr.disp /\ dr.disp = dr.sel
    BY <2>2 DEF Well, Wire
  <2>4. Heard(sw)'
    BY <1>1, <1>3 DEF Well, Wire, Heard
  <2>5. QED
    BY <1>3, <1>4, <2>1, <2>3, <2>4 DEF Wire
<1>9. Asking'
  <2>1. Settled(requested) /\ Known
    BY <1>2 DEF Selected, Settled, Agreed
  <2>2. Settled(requested)' /\ Known'
    BY <1>3, <2>1, PartsStay DEF Settled, MapRight, SyncRight, Known
  <2>3. Pending' = Do("mode", mode)
    BY <1>4 DEF Pending
  <2>4. QED
    BY <1>2, <1>3, <1>4, <1>5, <2>2, <2>3 DEF Asking
<1>10. QED
  BY <1>5, <1>7, <1>8, <1>9 DEF CleanInv, Well, Stage

LEMMA EnterAgain ==
  ASSUME TypedInv, Well, LastTyped, Enter("client"), Asking, NEW m \in ModeNames,
         requested' = m, last.goal \in {m, "none"}, Known, Settled(requested),
         requested \in Motion => actualMode = requested,
         requested \notin Motion => actualMode = "IDLE",
         m = actualMode \/ {actualMode, m} \subseteq External, sync' = sync,
         Pending' = Do("confirm", "none"), nodeCall'["client"].pc = "next", last'.goal = last.goal
  PROVE  Stage'
<1>1. UNCHANGED <<conf, actualMode, modes, sw, dr>>
  BY DEF Enter
<1>2. SelOf(m)' = SelOf(m) /\ GoalOf(m)' = GoalOf(m) /\ Mapped(m)' = Mapped(m)
  BY <1>1 DEF SelOf, GoalOf, Mapped, DriveMode
<1>3. Settled(m)
  <2>1. CASE requested \in Motion /\ m = requested
    BY <2>1
  <2>2. CASE requested \in Motion /\ {requested, m} \subseteq External
    BY <2>2 DEF Settled, SelOf, GoalOf, DriveMode, MapRight, Mapped, SyncRight, External, Motion
  <2>3. CASE requested \notin Motion
    <3>1. m = "IDLE"
      BY <2>3 DEF External
    <3>2. QED
      BY <2>3, <3>1 DEF Settled, GoalOf, SelOf, MapRight, Motion
  <2>4. QED
    BY <2>1, <2>2, <2>3
<1>4. Settled(requested)'
  BY <1>1, <1>2, <1>3 DEF Settled, MapRight, SyncRight
<1>5. Agreed'
  BY <1>1 DEF Agreed, Known
<1>6. m = "IDLE" => actualMode = "IDLE"
  BY DEF External
<1>7. Confirming'
  BY <1>1, <1>4, <1>5, <1>6 DEF Confirming
<1>8. QED
  BY <1>7 DEF Stage

LEMMA EnterNew ==
  ASSUME TypedInv, Well, LastTyped, Enter("client"), NEW m \in ModeNames,
         requested' = m, last.goal \in {m, "none"}, Known, m # actualMode,
         Pending' \in Beginnings(m), last'.goal = last.goal
  PROVE  Stage'
<1>1. UNCHANGED <<conf, actualMode, modes, sw, dr, nodeFrames>>
  BY DEF Enter
<1>2. Beginnings(m)' = Beginnings(m)
  <2>1. SelOf(m)' = SelOf(m) /\ GoalOf(m)' = GoalOf(m) /\ Mapped(m)' = Mapped(m) /\ Awaited(m)' = Awaited(m)
    BY <1>1 DEF SelOf, GoalOf, Mapped, DriveMode, Awaited
  <2>2. ToWord(m)' = ToWord(m)
    BY <1>1 DEF ToWord, WordOf, Awaited
  <2>3. ToSelect(m)' = ToSelect(m)
    BY <2>1, <2>2 DEF ToSelect
  <2>4. ToMap(m)' = ToMap(m)
    BY <2>1, <2>3 DEF ToMap, MapOf
  <2>5. ToState(m)' = ToState(m)
    BY <2>1, <2>4 DEF ToState
  <2>6. ToBegin(m)' = ToBegin(m)
    BY <1>1, <2>5 DEF ToBegin, FirstOf
  <2>7. QED
    BY <2>5, <2>6 DEF Beginnings
<1>3. ShownRight(requested)'
  BY <1>1 DEF ShownRight
<1>4. Agreed'
  BY <1>1 DEF Agreed, Known
<1>5. Unselected'
  BY <1>2, <1>3, <1>4 DEF Unselected
<1>6. QED
  BY <1>5 DEF Stage

LEMMA EnterKeeps ==
  ASSUME TypedInv, Well, LastTyped, Enter("client")
  PROVE  CleanInv'
<1> DEFINE m == Arg("client")
           ext == actualMode \in External
           again == m = actualMode \/ (ext /\ m \in External)
           begun == Do("word", "reset") \o (IF ext THEN Do("select", "homing") ELSE <<>>) \o Steps(m) \o Awaited(m)
           todo == IF again THEN Do("confirm", "none") ELSE begun
<1>1. /\ Menu([k |-> "mode", v |-> m], Remaining("client"))
      /\ nodeCall["client"].pc = "next" /\ Pending = nodeCall["client"].todo
  BY ClientAt DEF Enter
<1>2. Asking
  BY <1>1 DEF Menu
<1>3. /\ m \in ModeNames /\ last.goal \in {m, "none"} /\ Known /\ Settled(requested)
      /\ requested \in Motion => actualMode = requested
  <2>1. PICK n \in ModeNames :
          /\ Pending = Do("mode", n) /\ last.goal \in {n, "none"} /\ Known /\ Settled(requested)
          /\ requested \in Motion => actualMode = requested
    BY <1>2 DEF Asking
  <2>2. [k |-> "mode", v |-> n] \in ClientSteps
    BY DEF ClientSteps
  <2>3. Head(Pending) = [k |-> "mode", v |-> n]
    BY <2>1, <2>2, OnlyOfList
  <2>4. m = n
    BY <1>1, <2>3 DEF Arg
  <2>5. QED
    BY <2>1, <2>4
<1>4. requested \notin Motion => actualMode = "IDLE"
  BY <1>1, <1>3, IdleIsKnown DEF Settled, GoalOf
<1>6. UNCHANGED <<conf, rpc, actualMode, modes, sw, watch, dr, nodeFrames>> /\ requested' = m
      /\ sync' = (sync /\ again) /\ Proceeds("client", todo)
  BY DEF Enter
<1>7. Do("confirm", "none") # <<>>
  BY DEF Do
<1>8. begun \in Beginnings(m)
  <2> DEFINE r == Do("word", "reset")
             s == Steps(m)
             w == Awaited(m)
  <2>1. r \in Seq(ClientSteps) /\ Homing \in Seq(ClientSteps)
    BY StepsKnown DEF Homing, DriveModes
  <2>2. s \in Seq(ClientSteps) /\ w \in Seq(ClientSteps)
    BY <1>3, ModeSteps, ConfKnown DEF TypedInv
  <2>3. s \o w = ToBegin(m)
    BY <1>3, StepsAreParts DEF TypedInv
  <2> HIDE DEF r, s, w
  <2>4. CASE ext
    <3>1. r \o Homing \in Seq(ClientSteps)
      BY <2>1, ListsJoin
    <3>2. begun = ((r \o Homing) \o s) \o w
      BY <2>4 DEF r, s, w, Homing
    <3>3. ((r \o Homing) \o s) \o w = (r \o Homing) \o (s \o w)
      BY <2>2, <3>1, ListsRegroup
    <3>4. s \o w \in Seq(ClientSteps)
      BY <2>2, ListsJoin
    <3>5. (r \o Homing) \o (s \o w) = r \o (Homing \o (s \o w))
      BY <2>1, <3>4, ListsRegroup
    <3>6. begun = r \o (Homing \o ToBegin(m))
      BY <2>3, <3>2, <3>3, <3>5
    <3>7. QED
      BY <3>6 DEF r, Beginnings
  <2>5. CASE ~ext
    <3>1. begun = ((r \o <<>>) \o s) \o w
      BY <2>5 DEF r, s, w
    <3>2. r \o <<>> = r
      BY <2>1, ListsJoin
    <3>3. (r \o s) \o w = r \o (s \o w)
      BY <2>1, <2>2, ListsRegroup
    <3>4. begun = r \o ToBegin(m)
      BY <2>3, <3>1, <3>2, <3>3
    <3>5. QED
      BY <3>4 DEF r, Beginnings
  <2>6. QED
    BY <2>4, <2>5
<1> HIDE DEF begun
<1>9. todo # <<>>
  BY <1>3, <1>7, <1>8, BeginningsKnown DEF TypedInv
<1>10. /\ Pending' = todo /\ nodeCall'["monitor"] = nodeCall["monitor"] /\ nodeCall'["client"].pc = "next"
       /\ LastTyped' /\ last'.goal = last.goal
  BY <1>6, <1>9, GoesOn DEF TypedInv
<1>11. Calm' /\ Wire' /\ ModesKnown' /\ RpcHeld'
  <2>1. UNCHANGED <<rpc, modes, sw, lastNmt, dr, nodeFrames, actualMode, beat>>
    BY <1>6 DEF watch
  <2>2. QED
    BY <1>1, <1>10, <2>1, CalmGoesOn
<1>12. Stage'
  <2>1. CASE again
    <3>1. m = actualMode \/ {actualMode, m} \subseteq External
      BY <2>1
    <3>2. sync' = sync
      BY <1>6, <2>1 DEF TypedInv, NodeTyped
    <3>3. QED
      BY <1>2, <1>3, <1>4, <1>6, <1>10, <2>1, <3>1, <3>2, EnterAgain
  <2>2. CASE ~again
    <3>1. m # actualMode /\ ~({actualMode, m} \subseteq External)
      BY <2>2
    <3>2. Pending' \in Beginnings(m)
      BY <1>8, <1>10, <2>2
    <3>3. QED
      BY <1>3, <1>6, <1>10, <3>1, <3>2, EnterNew
  <2>3. QED
    BY <2>1, <2>2
<1>13. QED
  BY <1>10, <1>11, <1>12 DEF CleanInv, Well

-----------------------------------------------------------------------------
(* Requests to the drive *)

\* The way to a state does not lead through a fault.
LEMMA WayIsSafe ==
  ASSUME NEW from \in Powered, NEW to \in {"SWITCHED_ON", "OPERATION_ENABLED"}
  PROVE  \A k \in 1..Len(Way(from, to)) : Way(from, to)[k] # "FAULT"
<1> DEFINE n == IF Rank(from) < Rank(to) THEN Rank(to) - Rank(from) ELSE 1
<1>1. Rank(from) \in 0..3 /\ Rank(to) \in 2..3
  BY Ranks DEF Powered, DriveStates
<1>2. n \in 1..3 /\ (Rank(from) < Rank(to) => Rank(from) + n = Rank(to))
  BY <1>1
<1>3. Way(from, to) = [k \in 1..n |-> IF Rank(from) < Rank(to) THEN Chain[Rank(from) + k] ELSE to]
  BY DEF Way
<1> HIDE DEF n
<1>4. Len(Way(from, to)) = n
  BY <1>2, <1>3
<1>5. \A k \in 1..3 : Chain[k] # "FAULT"
  BY DEF Chain
<1>6. ASSUME NEW k \in 1..n PROVE Way(from, to)[k] # "FAULT"
  <2>1. Way(from, to)[k] = IF Rank(from) < Rank(to) THEN Chain[Rank(from) + k] ELSE to
    BY <1>3
  <2>2. Rank(from) < Rank(to) => Rank(from) + k \in 1..3
    BY <1>1, <1>2
  <2>3. QED
    BY <1>5, <2>1, <2>2
<1>7. QED
  BY <1>4, <1>6

\* What a drive sends that is asked for something by the client.
LEMMA SentKnown ==
  ASSUME DriveTyped, NEW r \in ClientSteps, r.k \in {"select", "map", "heartbeat", "setup", "state"}
  PROVE  /\ \A k \in 1..Len(Sent(r)) : /\ Sent(r)[k].t = "tpdo" /\ Sent(r)[k].to = "all"
                                       /\ Sent(r)[k].st # "FAULT" /\ Sent(r)[k].disp = dr.disp
         /\ r.k # "state" => Sent(r) = <<>>
         /\ Sent(r) = <<>> => Obeyed(r).st = dr.st
         /\ Sent(r) # <<>> => Sent(r)[Len(Sent(r))].st = Obeyed(r).st
<1> USE DEF DriveTyped
<1>1. CASE r.k # "state"
  <2>1. Sent(r) = <<>>
    BY <1>1 DEF Sent
  <2>2. Obeyed(r).st = dr.st
    BY <1>1 DEF Obeyed, DriveRecords
  <2>3. QED
    BY <1>1, <2>1, <2>2
<1>2. CASE r.k = "state"
  <2>1. r.v \in {"SWITCHED_ON", "OPERATION_ENABLED"} /\ r.v \in Powered /\ dr.st \in Powered
    BY <1>2 DEF ClientSteps, Powered, DriveStates, DriveRecords
  <2>2. Obeyed(r).st = r.v
    BY <1>2 DEF Obeyed, DriveRecords
  <2>3. CASE dr.st = r.v
    <3>1. Sent(r) = <<>>
      BY <1>2, <2>3 DEF Sent
    <3>2. QED
      BY <1>2, <2>2, <2>3, <3>1
  <2>4. CASE dr.st # r.v
    <3> DEFINE way == Way(dr.st, r.v)
    <3>1. way \in Seq(Powered) /\ Len(way) > 0 /\ way[Len(way)] = r.v
      BY <2>1, WayEnds
    <3>2. \A k \in 1..Len(way) : way[k] # "FAULT"
      BY <2>1, WayIsSafe
    <3>3. Sent(r) = [k \in 1..Len(way) |-> [t |-> "tpdo", st |-> way[k], disp |-> dr.disp, to |-> "all"]]
      BY <1>2, <2>4, <3>1 DEF Sent, Tpdo
    <3> HIDE DEF way
    <3>4. Len(way) \in Nat /\ Len(way) \in 1..Len(way)
      BY <3>1
    <3>5. Len(Sent(r)) = Len(way) /\ Sent(r) # <<>>
      BY <3>1, <3>3, <3>4
    <3>6. \A k \in 1..Len(Sent(r)) : /\ Sent(r)[k].t = "tpdo" /\ Sent(r)[k].to = "all"
                                     /\ Sent(r)[k].st = way[k] /\ Sent(r)[k].disp = dr.disp
      BY <3>3, <3>5
    <3>7. \A k \in 1..Len(Sent(r)) : /\ Sent(r)[k].t = "tpdo" /\ Sent(r)[k].to = "all"
                                     /\ Sent(r)[k].st # "FAULT" /\ Sent(r)[k].disp = dr.disp
      BY <3>2, <3>5, <3>6
    <3>8. Sent(r)[Len(Sent(r))].st = Obeyed(r).st
      BY <2>2, <3>1, <3>4, <3>5, <3>6
    <3>9. QED
      BY <1>2, <3>5, <3>7, <3>8
  <2>5. QED
    BY <2>3, <2>4
<1>3. QED
  BY <1>1, <1>2

LEMMA FramesJoin ==
  \A a, b \in Seq(Frames) :
    /\ Len(a) \in Nat /\ Len(b) \in Nat /\ a \o b \in Seq(Frames) /\ Len(a \o b) = Len(a) + Len(b)
    /\ \A k \in 1..Len(a) + Len(b) : (a \o b)[k] = IF k <= Len(a) THEN a[k] ELSE b[k - Len(a)]
BY ConcatProperties, LenProperties

\* The reply comes last.
LEMMA ReplyLast ==
  ASSUME NEW a \in Seq(Frames), NEW b \in Seq(Frames)
  PROVE  LET all == a \o b \o Reply("client")
             n == Len(a) + Len(b)
         IN  /\ Len(a) \in Nat /\ Len(b) \in Nat /\ Len(all) = n + 1
             /\ all[n + 1] = [t |-> "reply", st |-> "none", disp |-> "none", to |-> "client"]
             /\ \A k \in 1..n : all[k] = IF k <= Len(a) THEN a[k] ELSE b[k - Len(a)]
<1> DEFINE c == Reply("client")
           ab == a \o b
<1>1. c \in Seq(Frames) /\ Len(c) = 1 /\ c[1] = [t |-> "reply", st |-> "none", disp |-> "none", to |-> "client"]
  <2>1. c \in Seq(Frames)
    BY FramesKnown DEF Threads
  <2>2. QED
    BY <2>1 DEF Reply
<1> HIDE DEF c
<1>2. Len(a) \in Nat /\ Len(b) \in Nat
  BY LenProperties
<1>3. /\ ab \in Seq(Frames) /\ Len(ab) = Len(a) + Len(b)
      /\ \A k \in 1..Len(a) + Len(b) : ab[k] = IF k <= Len(a) THEN a[k] ELSE b[k - Len(a)]
  BY ConcatProperties
<1> HIDE DEF ab
<1>4. /\ Len(ab \o c) = Len(ab) + Len(c)
      /\ \A k \in 1..Len(ab) + Len(c) : (ab \o c)[k] = IF k <= Len(ab) THEN ab[k] ELSE c[k - Len(ab)]
  BY <1>1, <1>3, FramesJoin, Zenon
<1>5. (ab \o c)[Len(a) + Len(b) + 1] = c[1]
  BY <1>1, <1>2, <1>3, <1>4
<1>6. \A k \in 1..Len(a) + Len(b) : (ab \o c)[k] = ab[k]
  BY <1>1, <1>2, <1>3, <1>4
<1>7. QED
  BY <1>1, <1>2, <1>3, <1>4, <1>5, <1>6 DEF ab, c

\* A request is obeyed: calm, and what is on its way.
LEMMA AskedIsCalm ==
  ASSUME TypedInv, Well, NEW r \in ClientSteps, r.k \in {"select", "map", "heartbeat", "setup", "state"},
         nodeCall["client"].pc = "next", nodeCall'["client"].pc = "asked", nodeCall'["monitor"] = nodeCall["monitor"],
         dr' = Obeyed(r), nodeFrames' = nodeFrames \o Sent(r) \o Reply("client"),
         UNCHANGED <<rpc, actualMode, modes, sw, beat, lastNmt>>, Known \/ r.k # "state"
  PROVE  /\ Calm' /\ Wire' /\ ModesKnown' /\ RpcHeld'
         /\ \A k \in 1..Len(nodeFrames') :
              \/ \E j \in 1..Len(nodeFrames) : nodeFrames'[k] = nodeFrames[j] /\ nodeFrames[j].st = dr.st
              \/ nodeFrames'[k].t = "tpdo" /\ nodeFrames'[k].disp = dr.disp /\ r.k = "state"
              \/ nodeFrames'[k].t = "reply" /\ nodeFrames'[k].disp = "none"
<1> DEFINE a == nodeFrames
           b == Sent(r)
           n == Len(a) + Len(b)
           fs == nodeFrames'
<1>1. DriveTyped /\ a \in Seq(Frames) /\ b \in Seq(Frames) /\ Obeyed(r) \in DriveRecords
  BY ObeyedTells DEF TypedInv, NodeTyped, Obeyable
<1>2. /\ \A k \in 1..Len(b) : b[k].t = "tpdo" /\ b[k].to = "all" /\ b[k].st # "FAULT" /\ b[k].disp = dr.disp
      /\ r.k # "state" => b = <<>>
      /\ b = <<>> => Obeyed(r).st = dr.st
      /\ b # <<>> => b[Len(b)].st = Obeyed(r).st
  BY <1>1, SentKnown
<1>3. /\ Len(a) \in Nat /\ Len(b) \in Nat /\ Len(fs) = n + 1
      /\ fs[n + 1] = [t |-> "reply", st |-> "none", disp |-> "none", to |-> "client"]
      /\ \A k \in 1..n : fs[k] = IF k <= Len(a) THEN a[k] ELSE b[k - Len(a)]
  BY <1>1, ReplyLast
<1>4. /\ \A k \in 1..Len(a) : a[k].t # "reply" /\ a[k].st = dr.st
      /\ Heard(sw)
  BY DEF Well, Wire, Ahead
<1>5. dr'.st # "FAULT"
  <2>1. r.k = "state" => r.v # "FAULT"
    BY DEF ClientSteps
  <2>2. dr.st # "FAULT"
    BY DEF Well, Calm
  <2>3. QED
    BY <1>1, <2>1, <2>2 DEF Obeyed, DriveTyped, DriveRecords
<1>6. dr'.disp = dr.disp
  BY <1>1 DEF Obeyed, DriveTyped, DriveRecords
<1> HIDE DEF a, b, fs
<1>7. \A k \in 1..n : (k <= Len(a) /\ k \in 1..Len(a) /\ fs[k] = a[k])
                       \/ (k > Len(a) /\ k - Len(a) \in 1..Len(b) /\ fs[k] = b[k - Len(a)])
  BY <1>3
<1>8. \A k \in 1..Len(fs) : k \in 1..n \/ k = n + 1
  BY <1>3
<1>9. Calm'
  <2>1. \A k \in 1..Len(a) : a[k].t \in {"tpdo", "reply"} /\ a[k].to # "monitor" /\ a[k].st # "FAULT"
    <3>1. Calm
      BY DEF Well
    <3>2. QED
      BY <3>1 DEF Calm, a
  <2>2. \A k \in 1..Len(fs) : fs[k].t \in {"tpdo", "reply"} /\ fs[k].to # "monitor" /\ fs[k].st # "FAULT"
    <3> SUFFICES ASSUME NEW k \in 1..Len(fs)
                 PROVE  fs[k].t \in {"tpdo", "reply"} /\ fs[k].to # "monitor" /\ fs[k].st # "FAULT"
      OBVIOUS
    <3>1. CASE k <= Len(a) /\ k \in 1..Len(a) /\ fs[k] = a[k]
      BY <2>1, <3>1
    <3>2. CASE k > Len(a) /\ k - Len(a) \in 1..Len(b) /\ fs[k] = b[k - Len(a)]
      BY <1>2, <3>2
    <3>3. CASE k = n + 1
      BY <1>3, <3>3
    <3>4. QED
      BY <1>7, <1>8, <3>1, <3>2, <3>3
  <2>3. QED
    BY <1>5, <2>2 DEF Well, Calm, fs
<1>10. \A k \in 1..Len(fs) : fs[k].t = "reply" <=> k = n + 1
  <2> SUFFICES ASSUME NEW k \in 1..Len(fs) PROVE fs[k].t = "reply" <=> k = n + 1
    OBVIOUS
  <2>1. CASE k \in 1..n /\ k <= Len(a) /\ k \in 1..Len(a) /\ fs[k] = a[k]
    <3>1. fs[k].t # "reply"
      BY <1>4, <2>1 DEF a
    <3>2. QED
      BY <1>3, <2>1, <3>1
  <2>2. CASE k \in 1..n /\ k - Len(a) \in 1..Len(b) /\ fs[k] = b[k - Len(a)]
    <3>1. fs[k].t # "reply"
      BY <1>2, <2>2
    <3>2. QED
      BY <1>3, <2>2, <3>1
  <2>3. CASE k = n + 1
    BY <1>3, <2>3
  <2>4. QED
    BY <1>7, <1>8, <2>1, <2>2, <2>3
<1>11. n + 1 \in 1..Len(fs)
  BY <1>3
<1>12. IF n + 1 = 1 THEN Heard(sw)' ELSE fs[n].st = dr'.st
  <2>1. CASE b = <<>>
    <3>1. Len(b) = 0 /\ dr'.st = dr.st
      BY <1>1, <1>2, <2>1 DEF b
    <3>2. CASE n = 0
      BY <1>4, <3>1, <3>2 DEF Heard
    <3>3. CASE n # 0
      <4>1. n \in 1..Len(a) /\ fs[n] = a[n]
        BY <1>3, <1>7, <3>1, <3>3
      <4>2. QED
        BY <1>3, <1>4, <3>1, <3>3, <4>1
    <3>4. QED
      BY <3>2, <3>3
  <2>2. CASE b # <<>>
    <3>1. Len(b) > 0
      BY <1>1, <1>3, <2>2, EmptySeq
    <3>2. n \in 1..n /\ n > Len(a) /\ n - Len(a) = Len(b) /\ n + 1 # 1
      BY <1>3, <3>1
    <3>3. fs[n] = b[Len(b)]
      BY <1>7, <3>2
    <3>4. QED
      BY <1>2, <2>2, <3>2, <3>3
  <2>3. QED
    BY <2>1, <2>2
<1>13. Wire'
  <2>1. \A k \in 1..Len(fs) : k <= n + 1
    BY <1>3
  <2>2. \A k \in 1..Len(fs) : Ahead(k)'
    BY <1>10, <1>11, <2>1 DEF Ahead, fs
  <2>3. (n + 1) - 1 = n
    BY <1>3
  <2>4. \A r1 \in 1..Len(fs) : fs[r1].t = "reply" =>
          /\ \A k \in 1..Len(fs) : fs[k].t = "reply" => k = r1
          /\ IF r1 = 1 THEN Heard(sw)' ELSE fs[r1 - 1].st = dr'.st
    BY <1>10, <1>12, <2>3
  <2>5. \E r1 \in 1..Len(fs) : fs[r1].t = "reply"
    BY <1>10, <1>11
  <2>6. QED
    BY <2>2, <2>4, <2>5 DEF Wire, fs
<1>14. ModesKnown'
  <2> SUFFICES ASSUME NoneUnderWay(fs) PROVE modes' = dr'.disp
    BY DEF ModesKnown, fs
  <2>1. \A k \in 1..Len(a) : k \in 1..n /\ k \in 1..Len(fs) /\ fs[k] = a[k]
    BY <1>3
  <2>2. NoneUnderWay(a)
    BY <2>1 DEF NoneUnderWay
  <2>3. QED
    BY <1>6, <2>2 DEF Well, ModesKnown, a
<1>15. RpcHeld'
  BY DEF Well, RpcHeld
<1>16. \A k \in 1..Len(fs) :
          \/ \E j \in 1..Len(a) : fs[k] = a[j] /\ a[j].st = dr.st
          \/ fs[k].t = "tpdo" /\ fs[k].disp = dr.disp /\ r.k = "state"
          \/ fs[k].t = "reply" /\ fs[k].disp = "none"
  <2> SUFFICES ASSUME NEW k \in 1..Len(fs)
               PROVE  \/ \E j \in 1..Len(a) : fs[k] = a[j] /\ a[j].st = dr.st
                      \/ fs[k].t = "tpdo" /\ fs[k].disp = dr.disp /\ r.k = "state"
                      \/ fs[k].t = "reply" /\ fs[k].disp = "none"
    OBVIOUS
  <2>1. CASE k = n + 1
    BY <1>3, <2>1
  <2>2. CASE k \in 1..Len(a) /\ fs[k] = a[k]
    BY <1>4, <2>2
  <2>3. CASE k - Len(a) \in 1..Len(b) /\ fs[k] = b[k - Len(a)]
    <3>1. b # <<>>
      BY <1>1, <1>3, <2>3, EmptySeq
    <3>2. QED
      BY <1>2, <2>3, <3>1
  <2>4. QED
    BY <1>7, <1>8, <2>1, <2>2, <2>3
<1>17. QED
  BY <1>9, <1>13, <1>14, <1>15, <1>16 DEF a, fs

\* A request is obeyed: how far the call is then.
LEMMA AskedStage ==
  ASSUME TypedInv, Well, NEW r \in ClientSteps, r.k \in {"select", "map", "heartbeat", "setup", "state"},
         NEW rest, Menu(r, rest), Pending' = rest, nodeCall["client"].pc = "next", nodeCall'["client"].pc = "asked",
         dr' = Obeyed(r), UNCHANGED <<conf, actualMode, requested, modes, sync, sw, last>>,
         \A k \in 1..Len(nodeFrames') :
            \/ \E j \in 1..Len(nodeFrames) : nodeFrames'[k] = nodeFrames[j] /\ nodeFrames[j].st = dr.st
            \/ nodeFrames'[k].t = "tpdo" /\ nodeFrames'[k].disp = dr.disp /\ r.k = "state"
            \/ nodeFrames'[k].t = "reply" /\ nodeFrames'[k].disp = "none"
  PROVE  Stage'
<1>1. /\ dr'.disp = dr.disp /\ dr'.nmt = dr.nmt
      /\ r.k = "state" => dr'.st = r.v /\ dr'.sel = dr.sel /\ dr'.map = dr.map
      /\ r.k = "select" => dr'.st = dr.st /\ dr'.sel = r.v /\ dr'.map = dr.map
      /\ r.k = "map" => dr'.st = dr.st /\ dr'.sel = dr.sel /\ dr'.map = r.v
      /\ r.k \in {"heartbeat", "setup"} => dr'.st = dr.st /\ dr'.sel = dr.sel /\ dr'.map = dr.map
  BY DEF TypedInv, NodeTyped, DriveTyped, DriveRecords, Obeyed
<1>2. Known' = Known /\ Agreed' = Agreed
  BY <1>1 DEF Known, Agreed
<1>3. ASSUME Started, r.k # "select" PROVE Started'
  BY <1>1, <1>3 DEF Started
<1>4. ShownRight(requested)' = ShownRight(requested)
  BY PartsStay DEF ShownRight, SyncRight
<1>5. CASE Started /\ r.k \in {"setup", "heartbeat"}
  <2>1. rest \in {FromHeartbeat, FromStart} /\ dr.st = "SWITCH_ON_DISABLED"
    BY <1>5 DEF Menu, Started, Agreed, ModeNames, Motion, Selected
  <2>2. FromHeartbeat' = FromHeartbeat /\ FromStart' = FromStart
    BY DEF FromHeartbeat, FromStart, FromBooted, FromConfigured, FromState, FromAwait, FromMode
  <2>3. Starting'
    BY <1>1, <1>3, <1>5, <2>1, <2>2 DEF Starting
  <2>4. QED
    BY <2>3 DEF Stage
<1>6. CASE Started /\ r = [k |-> "state", v |-> "SWITCHED_ON"] /\ rest = FromAwait /\ Known
  <2>1. FromAwait' = FromAwait
    BY DEF FromAwait, FromMode
  <2>2. dr'.st = "SWITCHED_ON" /\ Started'
    BY <1>1, <1>3, <1>6
  <2>3. Starting'
    BY <1>2, <1>6, <2>1, <2>2 DEF Starting
  <2>4. QED
    BY <2>3 DEF Stage
<1>7. CASE Agreed /\ ShownRight(requested) /\ r = [k |-> "select", v |-> "homing"] /\ rest \in Beginnings(requested)
  <2>2. ShownRight(requested)'
    BY <1>4, <1>7
  <2>3. Unselected'
    BY <1>2, <1>7, <2>2, PartsStay DEF Unselected
  <2>4. QED
    BY <2>3 DEF Stage
<1>8. CASE Agreed /\ ShownRight(requested) /\ r = [k |-> "state", v |-> GoalOf(requested)] /\ rest = ToMap(requested)
  <2>1. ShownRight(requested)' /\ dr'.st = GoalOf(requested)
    BY <1>1, <1>4, <1>8
  <2>2. Unselected'
    BY <1>2, <1>8, <2>1, PartsStay DEF Unselected
  <2>3. QED
    BY <2>2 DEF Stage
<1>9. CASE /\ Agreed /\ ShownRight(requested) /\ dr.st = GoalOf(requested) /\ requested \in Motion \ {"POSITION"}
           /\ r = [k |-> "map", v |-> Mapped(requested)] /\ rest = ToSelect(requested)
  <2>1. ShownRight(requested)' /\ dr'.st = GoalOf(requested) /\ dr'.map = Mapped(requested)
    BY <1>1, <1>4, <1>9
  <2>2. MapRight(requested)'
    BY <2>1, PartsStay DEF MapRight
  <2>3. Unselected'
    BY <1>2, <1>9, <2>1, <2>2, PartsStay DEF Unselected
  <2>4. QED
    BY <2>3 DEF Stage
<1>10. CASE /\ Agreed /\ ShownRight(requested) /\ dr.st = GoalOf(requested) /\ MapRight(requested)
            /\ r = [k |-> "select", v |-> SelOf(requested)] /\ rest = ToWord(requested)
  <2>1. dr'.st = GoalOf(requested) /\ dr'.sel = SelOf(requested) /\ MapRight(requested)'
    BY <1>1, <1>10, PartsStay DEF MapRight
  <2>2. requested \in ModeNames
    BY <1>10 DEF Agreed
  <2>3. ASSUME requested \in Motion PROVE Turning(requested)'
    <3>6. rest # <<>>
      <4>1. ToWord(requested) = Awaited(requested) \/ ToWord(requested) # <<>>
        BY <2>2, Ends DEF TypedInv
      <4>2. Awaited(requested) # <<>>
        BY <2>2, <2>3, Ends DEF TypedInv
      <4>3. QED
        BY <1>10, <4>1, <4>2
    <3>7. QED
      BY <1>4, <1>10, <3>6 DEF Turning
  <2>4. Turning(requested)'
    <3>1. CASE requested \in Motion
      BY <2>3, <3>1
    <3>2. CASE requested \notin Motion
      BY <3>2 DEF Turning, ShownRight
    <3>3. QED
      BY <3>1, <3>2
  <2>5. Selected'
    BY <1>2, <1>10, <2>1, <2>4, PartsStay DEF Selected
  <2>6. QED
    BY <2>5 DEF Stage
<1>11. r.k \notin {"start", "booted", "configured", "mode", "confirm", "word", "unvelocity", "unfault", "await"}
  OBVIOUS
<1>12. QED
  BY <1>5, <1>6, <1>7, <1>8, <1>9, <1>10, <1>11 DEF Menu

LEMMA RequestKeeps ==
  ASSUME TypedInv, Well, Plain, LastTyped, Request("client")
  PROVE  CleanInv' /\ PlainInv'
<1> DEFINE r == Head(nodeCall["client"].todo)
           rest == Remaining("client")
<1>1. CASE Disturbed
  BY <1>1, Spoiled DEF Disturbed, PlainInv, LastTyped
<1>2. CASE UNCHANGED <<trouble, last>>
  <2>1. PICK kind \in {"select", "map", "heartbeat", "setup", "state", "faultreset"} :
           At("client", kind) /\ (kind = "faultreset" => sw = "FAULT")
    BY DEF Request
  <2>2. kind # "faultreset"
    BY <2>1 DEF Well, Calm
  <2>3. /\ Menu(r, rest) /\ r \in ClientSteps /\ r.k = kind /\ nodeCall["client"].pc = "next"
    <3>1. r = [k |-> r.k, v |-> Arg("client")] /\ r.k = kind /\ r \in ClientSteps
      BY <2>1, AtArg DEF Threads, StepsOf, At
    <3>2. QED
      BY <2>1, <3>1, ClientAt
  <2>4. kind = "state" => Known
    BY <2>3 DEF Menu, Agreed, Selected
  <2>5. Obeys(r)
    BY <2>2, <2>3, <2>4 DEF Obeys, Well, Calm, Known
  <2>6. dr' = Obeyed(r) /\ nodeFrames' = nodeFrames \o Sent(r) \o Reply("client")
    <3>1. \/ Obeys(r) /\ dr' = Obeyed(r) /\ nodeFrames' = nodeFrames \o Sent(r) \o Reply("client")
          \/ ~Obeys(r)
          \/ Trouble
      BY DEF Request
    <3>2. ~Trouble
      BY <1>2 DEF Trouble, TypedInv, NodeTyped
    <3>3. QED
      BY <2>5, <3>1, <3>2
  <2>7. UNCHANGED <<conf, rpc, actualMode, requested, modes, sync, sw, beat, lastNmt, last>>
    BY <1>2 DEF Request, node, watch
  <2>8. /\ nodeCall'["client"].pc = "asked" /\ nodeCall'["client"].todo = nodeCall["client"].todo
        /\ nodeCall'["monitor"] = nodeCall["monitor"]
    BY DEF Request, TypedInv, CallsTyped, CallTyped, Threads
  <2>9. Pending' = rest
    BY <2>8 DEF Pending, Remaining
  <2>10. /\ Calm' /\ Wire' /\ ModesKnown' /\ RpcHeld'
         /\ \A k \in 1..Len(nodeFrames') :
              \/ \E j \in 1..Len(nodeFrames) : nodeFrames'[k] = nodeFrames[j] /\ nodeFrames[j].st = dr.st
              \/ nodeFrames'[k].t = "tpdo" /\ nodeFrames'[k].disp = dr.disp /\ r.k = "state"
              \/ nodeFrames'[k].t = "reply" /\ nodeFrames'[k].disp = "none"
    BY <2>2, <2>3, <2>4, <2>6, <2>7, <2>8, AskedIsCalm
  <2>11. Stage'
    BY <2>2, <2>3, <2>6, <2>7, <2>8, <2>9, <2>10, AskedStage
  <2>12. Plain'
    <3>1. r.k = "select" => Fits(r.v)
      <4>1. r.k = "select" => r.v = "homing" \/ (r.v = SelOf(requested) /\ Agreed)
        BY <2>3 DEF Menu
      <4>2. requested \notin Motion => Fits(SelOf(requested))
        BY DEF SelOf, Fits
      <4>3. requested \in Motion => Fits(SelOf(requested))
        BY FitsIs DEF TypedInv
      <4>4. Fits("homing")
        BY DEF Fits
      <4>5. QED
        BY <4>1, <4>2, <4>3, <4>4
    <3>2. dr'.disp = dr.disp /\ (dr'.sel = dr.sel \/ (r.k = "select" /\ dr'.sel = r.v))
      BY <2>2, <2>3, <2>6 DEF TypedInv, NodeTyped, DriveTyped, DriveRecords, Obeyed
    <3>3. \A k \in 1..Len(nodeFrames') : nodeFrames'[k].t = "tpdo" =>
            (\E j \in 1..Len(nodeFrames) : nodeFrames'[k] = nodeFrames[j]) \/ nodeFrames'[k].disp \in {dr.disp, dr.sel}
      BY <2>10
    <3>4. QED
      BY <2>7, <3>1, <3>2, <3>3, PlainKept
  <2>13. QED
    BY <2>7, <2>10, <2>11, <2>12 DEF CleanInv, PlainInv, Well, LastTyped
<1>3. QED
  BY <1>1, <1>2 DEF Request

LEMMA StartKeeps ==
  ASSUME TypedInv, Well, Plain, LastTyped, StartNode("client")
  PROVE  CleanInv' /\ PlainInv'
<1> DEFINE r == Head(nodeCall["client"].todo)
           rest == Remaining("client")
           n == Len(nodeFrames)
<1>1. CASE Fails("client")
  BY <1>1, Spoiled DEF Fails, PlainInv, LastTyped
<1>2. CASE dr' = Obeyed(r) /\ nodeFrames' = nodeFrames \o Sent(r) /\ Proceeds("client", rest)
  <2>1. /\ Menu([k |-> "start", v |-> Arg("client")], rest) /\ nodeCall["client"].pc = "next" /\ r.k = "start"
    BY ClientAt DEF StartNode, At
  <2>2. Started /\ dr.st = "SWITCH_ON_DISABLED" /\ rest = FromBooted /\ rest # <<>>
    BY <2>1, FromKnown DEF Menu
  <2>3. /\ dr'.st = dr.st /\ dr'.sel = dr.sel /\ dr'.disp = dr.disp /\ dr'.nmt = "OPERATIONAL"
        /\ Sent(r) = Tpdo(dr.st, dr.disp)
    <3>1. dr' = [dr EXCEPT !.nmt = "OPERATIONAL"]
      BY <1>2, <2>1 DEF Obeyed
    <3>2. Sent(r) = Tpdo(dr.st, dr.disp)
      BY <2>1 DEF Sent
    <3>3. QED
      BY <3>1, <3>2 DEF TypedInv, NodeTyped, DriveTyped, DriveRecords
  <2>4. /\ n \in Nat /\ Len(nodeFrames') = n + 1
        /\ nodeFrames'[n + 1] = [t |-> "tpdo", st |-> dr.st, disp |-> dr.disp, to |-> "all"]
        /\ \A k \in 1..n : nodeFrames'[k] = nodeFrames[k]
    <3>1. /\ Tpdo(dr.st, dr.disp) \in Seq(Frames) /\ Len(Tpdo(dr.st, dr.disp)) = 1
          /\ Tpdo(dr.st, dr.disp)[1] = [t |-> "tpdo", st |-> dr.st, disp |-> dr.disp, to |-> "all"]
      <4>1. Tpdo(dr.st, dr.disp) \in Seq(Frames)
        BY FramesKnown DEF TypedInv, NodeTyped, DriveTyped, DriveRecords
      <4>2. QED
        BY <4>1 DEF Tpdo
    <3>2. nodeFrames \in Seq(Frames)
      BY DEF TypedInv, NodeTyped
    <3>3. /\ n \in Nat /\ Len(nodeFrames \o Tpdo(dr.st, dr.disp)) = n + Len(Tpdo(dr.st, dr.disp))
          /\ \A k \in 1..n + Len(Tpdo(dr.st, dr.disp)) : (nodeFrames \o Tpdo(dr.st, dr.disp))[k] =
               IF k <= n THEN nodeFrames[k] ELSE Tpdo(dr.st, dr.disp)[k - n]
      BY <3>1, <3>2, FramesJoin, Zenon
    <3>4. QED
      BY <1>2, <2>3, <3>1, <3>3
  <2>5. UNCHANGED <<conf, rpc, actualMode, requested, modes, sync, sw, beat, lastNmt>>
    BY DEF StartNode, node, watch
  <2>6. /\ Pending' = rest /\ nodeCall'["monitor"] = nodeCall["monitor"] /\ nodeCall'["client"].pc = "next"
        /\ LastTyped' /\ last'.goal = last.goal
    BY <1>2, <2>2, GoesOn DEF TypedInv
  <2>7. \A k \in 1..n : ~Ahead(k) /\ nodeFrames[k].t # "reply"
    BY <2>1 DEF Well, Wire, Ahead
  <2>8. \A k \in 1..n + 1 : k \in 1..n \/ k = n + 1
    BY <2>4
  <2>9. Calm'
    BY <2>3, <2>4, <2>5, <2>6, <2>8 DEF Well, Calm
  <2>10. Wire'
    <3>1. \A k \in 1..Len(nodeFrames') : nodeFrames'[k].t # "reply"
      BY <2>4, <2>7, <2>8
    <3>2. \A k \in 1..Len(nodeFrames') : nodeFrames'[k].st = dr'.st /\ nodeFrames'[k].disp = dr'.disp
      BY <2>3, <2>4, <2>7, <2>8 DEF Well, Wire
    <3>3. dr'.disp = dr'.sel
      BY <2>2, <2>3 DEF Started
    <3>4. Heard(sw)'
      BY <2>1, <2>3, <2>5 DEF Well, Wire, Heard
    <3>5. QED
      BY <2>6, <3>1, <3>2, <3>3, <3>4 DEF Wire
  <2>11. ModesKnown' /\ RpcHeld'
    BY <2>1, <2>4, <2>5 DEF ModesKnown, NoneUnderWay, Well, RpcHeld
  <2>12. Stage'
    <3>1. Started'
      BY <2>2, <2>3, <2>4, <2>5, <2>6, <2>8 DEF Started
    <3>2. FromBooted' = FromBooted
      BY DEF FromBooted, FromConfigured, FromState, FromAwait, FromMode
    <3>3. Starting'
      BY <2>2, <2>3, <2>6, <3>1, <3>2 DEF Starting
    <3>4. QED
      BY <3>3 DEF Stage
  <2>13. Plain'
    <3>1. \A k \in 1..Len(nodeFrames') : nodeFrames'[k].t = "tpdo" =>
            (\E j \in 1..Len(nodeFrames) : nodeFrames'[k] = nodeFrames[j]) \/ nodeFrames'[k].disp \in {dr.disp, dr.sel}
      BY <2>4, <2>8
    <3>2. QED
      BY <2>3, <2>5, <3>1, PlainKept
  <2>14. QED
    BY <2>6, <2>9, <2>10, <2>11, <2>12, <2>13 DEF CleanInv, PlainInv, Well
<1>3. QED
  BY <1>1, <1>2 DEF StartNode

-----------------------------------------------------------------------------
(* The frames are read *)

\* What is left of the frames when the first one is read.
LEMMA TailOfFrames ==
  ASSUME TypedInv, Well, nodeFrames # <<>>, nodeFrames' = Tail(nodeFrames)
  PROVE  /\ Head(nodeFrames) = nodeFrames[1] /\ Head(nodeFrames) \in Frames
         /\ Len(nodeFrames) \in Nat /\ Len(nodeFrames) > 0 /\ 1 \in 1..Len(nodeFrames)
         /\ Len(nodeFrames') = Len(nodeFrames) - 1
         /\ \A k \in 1..Len(nodeFrames') : k + 1 \in 1..Len(nodeFrames) /\ nodeFrames'[k] = nodeFrames[k + 1]
         /\ \A k \in 1..Len(nodeFrames) : k # 1 => k - 1 \in 1..Len(nodeFrames') /\ nodeFrames'[k - 1] = nodeFrames[k]
<1>1. /\ Head(nodeFrames) \in Frames /\ Head(nodeFrames) = nodeFrames[1] /\ Len(nodeFrames) > 0
      /\ Len(nodeFrames') = Len(nodeFrames) - 1 /\ \A i \in 1..Len(nodeFrames') : nodeFrames'[i] = nodeFrames[i + 1]
      /\ Len(nodeFrames) \in Nat
  BY FirstFrame, LenProperties DEF TypedInv, NodeTyped
<1>2. QED
  BY <1>1

\* The client gets its reply.
LEMMA ReplyKeeps ==
  ASSUME TypedInv, Well, LastTyped, ReadNext, Head(nodeFrames).t = "reply"
  PROVE  CleanInv'
<1> DEFINE f == Head(nodeFrames)
           fs == nodeFrames'
           n == Len(nodeFrames)
<1>1. /\ nodeFrames # <<>> /\ nodeFrames' = Tail(nodeFrames)
      /\ UNCHANGED <<conf, rpc, requested, dr, actualMode, modes, sync, sw, beat, lastNmt>>
      /\ IF nodeCall[f.to].pc = "asked" THEN Proceeds(f.to, Remaining(f.to)) ELSE UNCHANGED <<nodeCall, last>>
  BY DEF ReadNext, watch
<1>2. /\ f = nodeFrames[1] /\ f \in Frames /\ n \in Nat /\ n > 0 /\ 1 \in 1..n /\ Len(fs) = n - 1
      /\ \A k \in 1..Len(fs) : k + 1 \in 1..n /\ fs[k] = nodeFrames[k + 1]
  BY <1>1, TailOfFrames
<1>3. f.to = "client"
  <2>1. f.to \in Threads
    BY <1>2 DEF Frames
  <2>2. f.to # "monitor"
    BY <1>2 DEF Well, Calm
  <2>3. QED
    BY <2>1, <2>2 DEF Threads
<1>4. /\ nodeCall["client"].pc = "asked" /\ Heard(sw)
      /\ \A k \in 1..n : nodeFrames[k].t = "reply" => k = 1
  BY <1>2 DEF Well, Wire
<1>5. Proceeds("client", Remaining("client"))
  BY <1>1, <1>3, <1>4
<1>6. /\ Pending' = Remaining("client") /\ nodeCall'["monitor"] = nodeCall["monitor"]
      /\ nodeCall'["client"].pc = IF Remaining("client") = <<>> THEN "idle" ELSE "next"
      /\ nodeCall'["client"].todo = Remaining("client")
      /\ LastTyped' /\ last'.goal = last.goal /\ last'.clean = last.clean
  BY <1>5, GoesOn DEF TypedInv
<1>7. Pending' = Pending
  BY <1>4, <1>6 DEF Pending, Remaining
<1>8. Calm'
  BY <1>1, <1>2, <1>6 DEF Well, Calm
<1>9. Wire'
  <2>1. \A k \in 1..Len(fs) : fs[k].t # "reply" /\ k + 1 # 1
    BY <1>2, <1>4
  <2>2. \A k \in 1..Len(fs) : ~Ahead(k + 1)
    BY <1>2, <1>4 DEF Ahead
  <2>3. \A k \in 1..Len(fs) : fs[k].st = dr.st /\ fs[k].disp = dr.disp /\ dr.disp = dr.sel
    <3>1. \A k \in 1..n : ~Ahead(k) =>
            nodeFrames[k].st = dr.st /\ nodeFrames[k].disp = dr.disp /\ dr.disp = dr.sel
      BY DEF Well, Wire
    <3>2. \A k \in 1..Len(fs) : k + 1 \in 1..n /\ fs[k] = nodeFrames[k + 1]
      BY <1>2
    <3>3. QED
      BY <2>2, <3>1, <3>2
  <2>4. Heard(sw)'
    BY <1>1, <1>4 DEF Heard
  <2>5. QED
    BY <1>1, <1>6, <2>1, <2>3, <2>4 DEF Wire
<1>10. ModesKnown'
  <2>1. NoneUnderWay(nodeFrames') => NoneUnderWay(nodeFrames)
    BY <1>1, FramesFirst DEF TypedInv
  <2>2. QED
    BY <1>1, <2>1 DEF Well, ModesKnown
<1>11. RpcHeld'
  BY <1>1, <1>4 DEF Well, RpcHeld
<1>12. Stage'
  <2>1. \A k \in 1..Len(nodeFrames') : \E j \in 1..Len(nodeFrames) : nodeFrames'[k] = nodeFrames[j]
    BY <1>2
  <2>2. nodeCall'["client"].pc \notin {"asked", "woken"} /\ nodeCall["client"].pc # "next"
    BY <1>4, <1>6
  <2>3. QED
    BY <1>1, <1>6, <1>7, <2>1, <2>2, StageStays DEF Well
<1>13. QED
  BY <1>6, <1>8, <1>9, <1>10, <1>11, <1>12 DEF CleanInv, Well

\* A TPDO is read: calm, and what is on its way.
LEMMA ShownIsCalm ==
  ASSUME TypedInv, Told, Well, ReadNext, Head(nodeFrames).t = "tpdo", handleTpdo1(Head(nodeFrames))
  PROVE  /\ Calm' /\ Wire' /\ ModesKnown' /\ RpcHeld'
         /\ Pending' = Pending /\ (nodeCall'["client"].pc = "asked" <=> nodeCall["client"].pc = "asked")
         /\ (nodeCall'["client"].pc = "next" <=> nodeCall["client"].pc = "next")
         /\ nodeCall["client"].pc # "asked" =>
              Head(nodeFrames).st = dr.st /\ Head(nodeFrames).disp = dr.disp /\ dr.disp = dr.sel
         /\ nodeCall["client"].pc = "asked" => Ahead(1)
         /\ \A k \in 1..Len(nodeFrames') : Ahead(k)' => Ahead(k + 1)
<1> DEFINE f == Head(nodeFrames)
           fs == nodeFrames'
           n == Len(nodeFrames)
<1>1. /\ nodeFrames # <<>> /\ nodeFrames' = Tail(nodeFrames)
      /\ UNCHANGED <<conf, rpc, requested, dr, beat, lastNmt, last>>
      /\ modes' = f.disp /\ sw' = f.st /\ actualMode' = AfterStatus(f, AfterModes(f, actualMode))
      /\ nodeCall' \in {nodeCall, [t \in Threads |-> IF nodeCall[t].pc = "waiting" THEN [nodeCall[t] EXCEPT !.pc = "woken"] ELSE nodeCall[t]]}
  BY DEF ReadNext, handleTpdo1, watch
<1>2. /\ f = nodeFrames[1] /\ f \in Frames /\ n \in Nat /\ n > 0 /\ 1 \in 1..n /\ Len(fs) = n - 1
      /\ \A k \in 1..Len(fs) : k + 1 \in 1..n /\ fs[k] = nodeFrames[k + 1]
      /\ \A k \in 1..n : k # 1 => k - 1 \in 1..Len(fs) /\ fs[k - 1] = nodeFrames[k]
  BY <1>1, TailOfFrames
<1>3. /\ nodeCall'["monitor"] = nodeCall["monitor"] /\ nodeCall'["client"].todo = nodeCall["client"].todo
      /\ \/ nodeCall'["client"].pc = nodeCall["client"].pc
         \/ nodeCall["client"].pc = "waiting" /\ nodeCall'["client"].pc = "woken"
  <2>1. nodeCall["monitor"].pc = "idle"
    BY DEF Well, Calm
  <2>2. nodeCall["client"].pc = "waiting" =>
          /\ [nodeCall["client"] EXCEPT !.pc = "woken"].pc = "woken"
          /\ [nodeCall["client"] EXCEPT !.pc = "woken"].todo = nodeCall["client"].todo
    BY DEF TypedInv, CallsTyped, CallTyped, Threads
  <2>3. QED
    BY <1>1, <2>1, <2>2 DEF Threads
<1>4. Pending' = Pending /\ (nodeCall'["client"].pc = "asked" <=> nodeCall["client"].pc = "asked")
      /\ (nodeCall'["client"].pc = "next" <=> nodeCall["client"].pc = "next")
  BY <1>3 DEF Pending
<1>5. f.st \in Powered /\ f.st # "FAULT" /\ f.disp \in DriveModes /\ f.t = "tpdo"
  <2>1. f.st # "FAULT"
    BY <1>2 DEF Well, Calm
  <2>2. QED
    BY <1>2, <2>1 DEF Frames, Powered
<1>6. nodeCall["client"].pc = "asked" => Ahead(1)
  BY <1>2 DEF Well, Wire, Ahead
<1>7. nodeCall["client"].pc # "asked" => f.st = dr.st /\ f.disp = dr.disp /\ dr.disp = dr.sel
  <2>1. nodeCall["client"].pc # "asked" => ~Ahead(1)
    BY DEF Well, Wire, Ahead
  <2>2. QED
    BY <1>2, <2>1 DEF Well, Wire
<1>8. \A k \in 1..Len(fs) : Ahead(k)' <=> Ahead(k + 1)
  <2> SUFFICES ASSUME NEW k \in 1..Len(fs) PROVE Ahead(k)' <=> Ahead(k + 1)
    OBVIOUS
  <2>1. ASSUME Ahead(k)' PROVE Ahead(k + 1)
    <3>1. PICK r \in 1..Len(fs) : fs[r].t = "reply" /\ k <= r
      BY <2>1 DEF Ahead
    <3>2. r + 1 \in 1..n /\ nodeFrames[r + 1].t = "reply" /\ k + 1 <= r + 1
      BY <1>2, <3>1
    <3>3. QED
      BY <3>2 DEF Ahead
  <2>2. ASSUME Ahead(k + 1) PROVE Ahead(k)'
    <3>1. PICK r \in 1..n : nodeFrames[r].t = "reply" /\ k + 1 <= r
      BY <2>2 DEF Ahead
    <3>2. r - 1 \in 1..Len(fs) /\ fs[r - 1].t = "reply" /\ k <= r - 1
      BY <1>2, <3>1
    <3>3. QED
      BY <3>2 DEF Ahead
  <2>3. QED
    BY <2>1, <2>2
<1>9. Calm'
  <2>1. actualMode' \notin {"HW_FAULT", "NOT_CONFIGURED"} \/ actualMode' = actualMode
    <3>1. Shown(f.disp) \notin {"HW_FAULT", "NOT_CONFIGURED"}
      BY DEF Shown
    <3>2. QED
      BY <1>1, <1>5, <3>1 DEF AfterStatus, AfterModes
  <2>2. sw' = "SWITCHED_ON" => actualMode' = "IDLE"
    BY <1>1, <1>5 DEF AfterStatus
  <2>3. QED
    BY <1>1, <1>2, <1>3, <1>5, <2>1, <2>2 DEF Well, Calm
<1>10. Wire'
  <2>1. nodeCall'["client"].pc = "asked" => \E r \in 1..Len(fs) : fs[r].t = "reply"
    <3> SUFFICES ASSUME nodeCall["client"].pc = "asked" PROVE \E r \in 1..Len(fs) : fs[r].t = "reply"
      BY <1>4
    <3>1. PICK r \in 1..n : nodeFrames[r].t = "reply"
      BY DEF Well, Wire
    <3>2. r # 1
      BY <1>2, <1>5, <3>1
    <3>3. QED
      BY <1>2, <3>1, <3>2
  <2>2. ASSUME NEW r \in 1..Len(fs), fs[r].t = "reply"
        PROVE  /\ nodeCall'["client"].pc = "asked"
               /\ \A k \in 1..Len(fs) : fs[k].t = "reply" => k = r
               /\ IF r = 1 THEN Heard(sw)' ELSE fs[r - 1].st = dr'.st
    <3>1. r + 1 \in 1..n /\ nodeFrames[r + 1].t = "reply" /\ r + 1 # 1 /\ (r + 1) - 1 = r
      BY <1>2, <2>2
    <3>2. /\ nodeCall["client"].pc = "asked"
          /\ \A k \in 1..n : nodeFrames[k].t = "reply" => k = r + 1
          /\ nodeFrames[r].st = dr.st
      BY <3>1 DEF Well, Wire
    <3>3. \A k \in 1..Len(fs) : fs[k].t = "reply" => k = r
      BY <1>2, <3>2
    <3>4. CASE r = 1
      BY <1>1, <1>2, <1>4, <3>2, <3>3, <3>4 DEF Heard
    <3>5. CASE r # 1
      <4>1. r \in 1..n /\ fs[r - 1] = nodeFrames[r]
        BY <1>2, <3>5
      <4>2. QED
        BY <1>1, <1>4, <3>2, <3>3, <3>5, <4>1
    <3>6. QED
      BY <3>4, <3>5
  <2>3. \A k \in 1..Len(fs) : ~Ahead(k)' => fs[k].st = dr'.st /\ fs[k].disp = dr'.disp /\ dr'.disp = dr'.sel
    <3> SUFFICES ASSUME NEW k \in 1..Len(fs), ~Ahead(k)'
                 PROVE  fs[k].st = dr.st /\ fs[k].disp = dr.disp /\ dr.disp = dr.sel
      BY <1>1
    <3>1. k + 1 \in 1..n /\ ~Ahead(k + 1) /\ fs[k] = nodeFrames[k + 1]
      BY <1>2, <1>8
    <3>2. QED
      BY <3>1 DEF Well, Wire
  <2>4. nodeCall'["client"].pc # "asked" => Heard(sw)'
    BY <1>1, <1>4, <1>7 DEF Heard
  <2>5. QED
    BY <2>1, <2>2, <2>3, <2>4 DEF Wire
<1>11. ModesKnown'
  <2> SUFFICES ASSUME NoneUnderWay(fs) PROVE f.disp = dr.disp
    BY <1>1 DEF ModesKnown
  <2>1. CASE dr.nmt = "OPERATIONAL"
    <3>1. LastTells(nodeFrames, dr)
      BY <2>1 DEF Told
    <3>2. QED
      BY <1>1, <1>5, <3>1, FramesFirst DEF TypedInv
  <2>2. CASE dr.nmt # "OPERATIONAL"
    <3>1. Started
      BY <2>2 DEF Well, Stage, Starting, Asking, Confirming, Unselected, Selected, Agreed, Known
    <3>2. QED
      BY <1>2, <3>1 DEF Started
  <2>3. QED
    BY <2>1, <2>2
<1>12. RpcHeld'
  BY <1>1 DEF Well, RpcHeld
<1>13. QED
  BY <1>4, <1>6, <1>7, <1>8, <1>9, <1>10, <1>11, <1>12

\* A TPDO is read: how far the call is then.
LEMMA ShownStage ==
  ASSUME TypedInv, Told, Well, Plain, CyclicIsOne, ReadNext, Head(nodeFrames).t = "tpdo", handleTpdo1(Head(nodeFrames))
  PROVE  Stage'
<1> DEFINE f == Head(nodeFrames)
           fs == nodeFrames'
           n == Len(nodeFrames)
           m == requested
<1>1. /\ nodeFrames # <<>> /\ nodeFrames' = Tail(nodeFrames)
      /\ UNCHANGED <<conf, rpc, requested, dr, last>>
      /\ modes' = f.disp /\ sw' = f.st /\ actualMode' = AfterStatus(f, AfterModes(f, actualMode))
      /\ sync' = IF f.disp = modes THEN sync ELSE Enables(f.disp)
      /\ f.disp = modes => nodeCall' = nodeCall
  BY DEF ReadNext, handleTpdo1
<1>2. /\ f = nodeFrames[1] /\ f \in Frames /\ 1 \in 1..n
      /\ \A k \in 1..Len(fs) : k + 1 \in 1..n /\ fs[k] = nodeFrames[k + 1]
  BY <1>1, TailOfFrames
<1>3. f.st \in Powered /\ f.st # "FAULT" /\ f.t = "tpdo"
  <2>1. f.st # "FAULT"
    BY <1>2 DEF Well, Calm
  <2>2. QED
    BY <1>2, <2>1 DEF Frames, Powered
<1>4. /\ Pending' = Pending /\ (nodeCall'["client"].pc = "asked" <=> nodeCall["client"].pc = "asked")
      /\ (nodeCall'["client"].pc = "next" <=> nodeCall["client"].pc = "next")
      /\ nodeCall["client"].pc # "asked" => f.st = dr.st /\ f.disp = dr.disp /\ dr.disp = dr.sel
      /\ nodeCall["client"].pc = "asked" => Ahead(1)
      /\ \A k \in 1..Len(nodeFrames') : Ahead(k)' => Ahead(k + 1)
  BY ShownIsCalm
<1>5. actualMode' = IF f.st = "SWITCHED_ON" THEN "IDLE" ELSE IF f.disp = modes THEN actualMode ELSE Shown(f.disp)
  BY <1>1, <1>3 DEF AfterStatus, AfterModes
<1>6. Known => Known'
  BY <1>1, <1>3 DEF Known, Powered
<1>7. Agreed => Agreed'
  BY <1>1, <1>6 DEF Agreed
<1>8. MapRight(m)' = MapRight(m)
  BY <1>1, PartsStay DEF MapRight
<1>8a. ShownRight(m) => ShownRight(m)'
  <2> SUFFICES ASSUME ShownRight(m), m \in Motion, actualMode' = m PROVE f.disp = SelOf(m) /\ SyncRight(m)'
    BY <1>1, PartsStay DEF ShownRight
  <2>1. f.st # "SWITCHED_ON"
    BY <1>5 DEF Motion
  <2>2. CASE f.disp = modes
    BY <1>1, <1>5, <2>1, <2>2, PartsStay DEF ShownRight, SyncRight
  <2>3. CASE f.disp # modes
    <3>1. f.disp \in DriveModes /\ Fits(f.disp) /\ Shown(f.disp) = m
      BY <1>2, <1>3, <1>5, <2>1, <2>3 DEF Frames, Plain
    <3>2. f.disp = SelOf(m) /\ Enables(f.disp) = (m # "POSITION" /\ SelOf(m) # "ip")
      BY <3>1, FitsIs DEF TypedInv
    <3>3. QED
      BY <1>1, <2>3, <3>2, PartsStay DEF SyncRight
  <2>4. QED
    BY <2>2, <2>3
<1>9. CASE Starting
  <2>1. f.disp = modes
    BY <1>2, <1>9 DEF Starting, Started
  <2>2. Started'
    BY <1>1, <1>2, <1>9, <2>1 DEF Starting, Started
  <2>3. Starting'
    BY <1>1, <1>4, <1>6, <1>9, <2>2
       DEF Starting, FromSetup, FromHeartbeat, FromStart, FromBooted, FromConfigured, FromState, FromAwait, FromMode
  <2>4. QED
    BY <2>3 DEF Stage
<1>10. CASE Asking
  <2>1. PICK g \in ModeNames :
          /\ Pending = Do("mode", g) /\ last.goal \in {g, "none"} /\ Known /\ Settled(m)
          /\ m \in Motion => actualMode = m
    BY <1>10 DEF Asking
  <2>2. f.disp = dr.sel /\ f.st = dr.st /\ nodeCall["client"].pc = "next"
    BY <1>4, <1>10, <2>1 DEF Asking
  <2>3. Settled(m)'
    BY <1>1, <1>8, <2>1, <2>2, PartsStay DEF Settled, SyncRight
  <2>4. m \in Motion => actualMode' = m
    BY <1>5, <2>1, <2>2 DEF Settled, GoalOf
  <2>5. Asking'
    BY <1>1, <1>4, <1>6, <2>1, <2>2, <2>3, <2>4 DEF Asking
  <2>6. QED
    BY <2>5 DEF Stage
<1>11. CASE Confirming
  <2>1. f.disp = dr.sel /\ f.st = dr.st /\ nodeCall["client"].pc = "next" /\ Settled(m) /\ Agreed
    BY <1>4, <1>11 DEF Confirming
  <2>2. CASE m \in Motion
    <3>1. f.disp = modes /\ f.st = "OPERATION_ENABLED"
      BY <2>1, <2>2 DEF Settled, GoalOf
    <3>2. actualMode' = actualMode
      BY <1>5, <3>1
    <3>3. Settled(m)'
      BY <1>1, <1>8, <2>1, <3>1, PartsStay DEF Settled, SyncRight
    <3>4. Confirming'
      BY <1>1, <1>4, <1>7, <1>11, <2>1, <3>2, <3>3 DEF Confirming
    <3>5. QED
      BY <3>4 DEF Stage
  <2>3. CASE m \notin Motion
    <3>1. f.st = "SWITCHED_ON" /\ dr.st = "SWITCHED_ON"
      BY <2>1, <2>3 DEF Settled, GoalOf
    <3>2. actualMode = "IDLE" /\ actualMode' = "IDLE"
      BY <1>5, <2>1, <3>1, IdleIsKnown DEF Agreed
    <3>3. Settled(m)'
      BY <1>1, <1>8, <2>1, <2>3, PartsStay DEF Settled
    <3>4. Confirming'
      BY <1>1, <1>4, <1>7, <1>11, <2>1, <3>2, <3>3 DEF Confirming
    <3>5. QED
      BY <3>4 DEF Stage
  <2>4. QED
    BY <2>2, <2>3
<1>12. CASE Unselected
  <2>2. ShownRight(m)'
    BY <1>12, <1>8a DEF Unselected
  <2>3. Unselected'
    BY <1>1, <1>4, <1>7, <1>8, <1>12, <2>2, PartsStay DEF Unselected
  <2>4. QED
    BY <2>3 DEF Stage
<1>13. CASE Selected
  <2>1. ASSUME m \in Motion PROVE Turning(m)'
    <3>1. ShownRight(m)' /\ Shown(SelOf(m)) = m
      BY <1>13, <1>8a, <2>1, ShownIs DEF Selected, Turning, TypedInv, External
    <3>2. CASE nodeCall["client"].pc = "asked"
      BY <1>1, <1>4, <1>13, <2>1, <3>1, <3>2 DEF Selected, Turning
    <3>3. CASE nodeCall["client"].pc # "asked"
      <4>1. f.disp = SelOf(m) /\ f.st # "SWITCHED_ON"
        BY <1>4, <1>13, <2>1, <3>3 DEF Selected, GoalOf
      <4>2. nodeCall'["client"].pc = "woken" \/ Pending' = <<>> => actualMode' = m
        <5>1. CASE f.disp # modes
          BY <1>5, <3>1, <4>1, <5>1
        <5>2. CASE f.disp = modes
          BY <1>1, <1>4, <1>5, <1>13, <2>1, <3>3, <4>1, <5>2 DEF Selected, Turning
        <5>3. QED
          BY <5>1, <5>2
      <4>3. QED
        BY <1>1, <1>4, <2>1, <3>1, <3>3, <4>2 DEF Turning
    <3>4. QED
      BY <3>2, <3>3
  <2>2. Turning(m)'
    BY <1>1, <2>1 DEF Turning, ShownRight
  <2>3. Selected'
    BY <1>1, <1>4, <1>7, <1>8, <1>13, <2>2, PartsStay DEF Selected
  <2>4. QED
    BY <2>3 DEF Stage
<1>14. QED
  BY <1>9, <1>10, <1>11, <1>12, <1>13 DEF Well, Stage

LEMMA ReadKeepsWell ==
  ASSUME TypedInv, Told, Well, Plain, LastTyped, CyclicIsOne, ReadNext
  PROVE  CleanInv' /\ PlainInv'
<1>1. Head(nodeFrames).t # "boot"
  BY FirstFrame DEF Well, Calm, ReadNext, TypedInv
<1>2. Plain'
  <2>1. /\ nodeFrames # <<>> /\ nodeFrames' = Tail(nodeFrames) /\ UNCHANGED <<conf, dr>>
        /\ modes' = modes \/ (modes' = Head(nodeFrames).disp /\ Head(nodeFrames).t = "tpdo")
    BY <1>1 DEF ReadNext, handleTpdo1
  <2>2. /\ Head(nodeFrames) = nodeFrames[1] /\ 1 \in 1..Len(nodeFrames)
        /\ \A k \in 1..Len(nodeFrames') : k + 1 \in 1..Len(nodeFrames) /\ nodeFrames'[k] = nodeFrames[k + 1]
    BY <2>1, TailOfFrames
  <2>3. Fits(modes') /\ \A k \in 1..Len(nodeFrames') : nodeFrames'[k].t = "tpdo" => Fits(nodeFrames'[k].disp)
    BY <2>1, <2>2 DEF Plain
  <2>4. \A k \in 1..Len(nodeFrames') : nodeFrames'[k].t = "tpdo" => Fits(nodeFrames[k].disp)'
    BY <2>1, <2>3 DEF Fits
  <2>5. Fits(dr.sel)' /\ Fits(dr.disp)' /\ Fits(modes)'
    BY <2>1, <2>3 DEF Plain, Fits
  <2>6. QED
    BY <2>4, <2>5 DEF Plain
<1>3. CASE Head(nodeFrames).t = "reply"
  BY <1>2, <1>3, ReplyKeeps DEF PlainInv
<1>4. CASE Head(nodeFrames).t = "tpdo" /\ handleTpdo1(Head(nodeFrames))
  <2>1. LastTyped'
    BY <1>4 DEF handleTpdo1, LastTyped
  <2>2. QED
    BY <1>2, <1>4, <2>1, ShownStage, ShownIsCalm DEF CleanInv, PlainInv, Well
<1>5. QED
  BY <1>1, <1>3, <1>4 DEF ReadNext

-----------------------------------------------------------------------------
(* The heartbeats, the configuration, the drive *)

\* What the monitor saw changes, or what the RPC thread has checked.
LEMMA AsideKeeps ==
  ASSUME TypedInv, Well, LastTyped,
         UNCHANGED <<conf, actualMode, requested, modes, sync, sw, nodeCall, dr, nodeFrames, last>>,
         RpcHeld', actualMode' = "NOT_CONFIGURED" /\ beat' => lastNmt' # "BOOTUP"
  PROVE  CleanInv'
<1>1. Calm'
  BY DEF Well, Calm
<1>2. Wire'
  <2>1. \A k \in 1..Len(nodeFrames) : Ahead(k)' <=> Ahead(k)
    BY DEF Ahead
  <2>2. Heard(sw)' <=> Heard(sw)
    BY DEF Heard
  <2>3. QED
    BY <2>1, <2>2 DEF Well, Wire
<1>3. ModesKnown'
  BY DEF Well, ModesKnown, NoneUnderWay
<1>4. Stage'
  <2>1. Pending' = Pending
    BY DEF Pending
  <2>2. /\ Known' = Known /\ Agreed' = Agreed /\ ShownRight(requested)' = ShownRight(requested)
        /\ MapRight(requested)' = MapRight(requested) /\ Settled(requested)' = Settled(requested)
        /\ SyncRight(requested)' = SyncRight(requested) /\ \A k : Ahead(k)' = Ahead(k)
    BY FactsStay
  <2>3. Starting => Starting'
    BY <2>1, <2>2 DEF Starting, Started, FromSetup, FromHeartbeat, FromStart, FromBooted, FromConfigured, FromState, FromAwait, FromMode
  <2>4. Asking => Asking'
    BY <2>1, <2>2 DEF Asking
  <2>5. Confirming => Confirming'
    BY <2>1, <2>2 DEF Confirming
  <2>6. Unselected => Unselected'
    BY <2>1, <2>2, PartsStay DEF Unselected
  <2>7. Turning(requested) => Turning(requested)'
    BY <2>1, <2>2, PartsStay DEF Turning
  <2>8. Selected => Selected'
    BY <2>1, <2>2, <2>7, PartsStay DEF Selected
  <2>9. QED
    BY <2>3, <2>4, <2>5, <2>6, <2>8 DEF Well, Stage
<1>5. QED
  BY <1>1, <1>2, <1>3, <1>4 DEF CleanInv, Well, LastTyped

LEMMA HeartbeatKeeps == ASSUME TypedInv, Well, LastTyped, ReadHeartbeat \/ AllWell PROVE CleanInv'
<1>1. UNCHANGED <<conf, rpc, actualMode, requested, modes, sync, sw, nodeCall, dr, nodeFrames, last>>
  BY DEF ReadHeartbeat, AllWell, node, nodeGhosts
<1>2. RpcHeld'
  BY <1>1 DEF Well, RpcHeld
<1>3. actualMode' = "NOT_CONFIGURED" /\ beat' => lastNmt' # "BOOTUP"
  BY DEF ReadHeartbeat, handleNmt, AllWell, Look, TypedInv, NodeTyped, DriveTyped, DriveRecords
<1>4. QED
  BY <1>1, <1>2, <1>3, AsideKeeps

\* The monitor has nothing to do, or what it does spoils the call.
LEMMA MonitorKeeps == ASSUME TypedInv, Well, LastTyped, Monitor PROVE CleanInv'
<1>1. CASE Lost
  BY <1>1, Spoiled DEF Lost
<1>2. CASE AllWell
  BY <1>2, HeartbeatKeeps
<1>3. ~Wipe /\ ~ResetAgain
  BY DEF Wipe, ResetAgain, At, Well, Calm
<1>4. ~Reinitialize
  BY DEF Reinitialize, Rebooted, Well, Calm
<1>5. QED
  BY <1>1, <1>2, <1>3, <1>4 DEF Monitor

LEMMA CheckKeeps == ASSUME TypedInv, Well, LastTyped, Apart, NEW c \in Confs, CheckConf(c) PROVE CleanInv'
<1>1. UNCHANGED <<conf, actualMode, requested, modes, sync, sw, beat, lastNmt, nodeCall, dr, nodeFrames, last>>
  BY DEF CheckConf, node, watch, nodeGhosts
<1>2. RpcHeld'
  BY <1>1 DEF CheckConf, RpcHeld, Threads
<1>3. QED
  BY <1>1, <1>2, AsideKeeps DEF Well, Calm

LEMMA ApplyKeeps ==
  ASSUME TypedInv, Well, Plain, LastTyped, Apart, ApplyConf
  PROVE  CleanInv' /\ PlainInv'
<1>1. /\ UNCHANGED <<actualMode, requested, modes, sync, sw, beat, lastNmt, nodeCall, dr, nodeFrames, last>>
      /\ rpc # <<>> /\ rpc' = <<>> /\ conf' = rpc[1]
  BY DEF ApplyConf, node, watch, nodeGhosts
<1>2. /\ nodeCall["client"].pc = "idle" /\ nodeFrames = <<>> /\ dr.disp = dr.sel
      /\ conf'.ip # conf.ip => actualMode # "POSITION_DIRECT"
      /\ conf'.csv # conf.csv => actualMode # "VELOCITY"
  BY <1>1 DEF Well, RpcHeld
<1>3. Pending = <<>> /\ Pending' = <<>>
  BY <1>1, <1>2 DEF Well, Calm, Pending
<1>4. Selected /\ (requested \in Motion => modes = SelOf(requested) /\ actualMode = requested /\ SyncRight(requested))
  BY <1>2, <1>3, NothingLeft DEF TypedInv, Well
<1>5. requested \in Motion => requested = actualMode
  BY <1>4
<1>6. conf \in [csv : BOOLEAN, ip : BOOLEAN] /\ conf' \in [csv : BOOLEAN, ip : BOOLEAN]
  BY <1>1, NodeAssumption DEF TypedInv, NodeTyped
<1>7. ASSUME requested \in Motion
      PROVE  SelOf(requested)' = SelOf(requested) /\ (requested \in Motion \ {"POSITION"} => Mapped(requested)' = Mapped(requested))
  <2>1. CASE requested = "VELOCITY"
    BY <1>1, <1>2, <1>5, <1>6, <2>1 DEF SelOf, DriveMode, Mapped, External
  <2>2. CASE requested = "POSITION_DIRECT"
    BY <1>1, <1>2, <1>5, <1>6, <2>2 DEF SelOf, DriveMode, Mapped, External
  <2>3. CASE requested \in External
    BY <1>1, <2>3 DEF SelOf, DriveMode, Mapped, External
  <2>4. CASE requested = "POSITION"
    BY <1>1, <2>4 DEF SelOf, DriveMode, External
  <2>5. QED
    BY <1>7, <2>1, <2>2, <2>3, <2>4 DEF Motion, External
<1>8. SelOf(requested)' = SelOf(requested) /\ GoalOf(requested)' = GoalOf(requested)
  BY <1>1, <1>7 DEF SelOf, GoalOf
<1>9. MapRight(requested)' /\ (requested \in Motion => SyncRight(requested)')
  BY <1>1, <1>4, <1>7, <1>8 DEF Selected, MapRight, SyncRight, Motion
<1>10. Turning(requested)'
  BY <1>1, <1>2, <1>4, <1>8, <1>9 DEF Turning, ShownRight
<1>11. Agreed'
  BY <1>1, <1>4 DEF Selected, Agreed, Known
<1>12. Selected'
  BY <1>1, <1>3, <1>4, <1>8, <1>9, <1>10, <1>11 DEF Selected
<1>13. Calm' /\ ModesKnown' /\ RpcHeld'
  BY <1>1 DEF Well, Calm, ModesKnown, NoneUnderWay, RpcHeld
<1>14. Wire'
  <2>1. \A k \in 1..Len(nodeFrames) : Ahead(k)' <=> Ahead(k)
    BY <1>1 DEF Ahead
  <2>2. Heard(sw)' <=> Heard(sw)
    BY <1>1 DEF Heard
  <2>3. QED
    BY <1>1, <2>1, <2>2 DEF Well, Wire
<1>15. Plain'
  <2>1. Len(nodeFrames') = 0
    BY <1>1, <1>2
  <2>2. NoneUnderWay(nodeFrames)
    BY <1>1, <1>2 DEF NoneUnderWay
  <2>3. modes = dr.sel /\ dr.sel = SelOf(requested)
    BY <1>2, <1>4, <2>2 DEF Well, ModesKnown, Selected
  <2>4. Fits(SelOf(requested))'
    <3>1. requested \in Motion => Fits(SelOf(requested))'
      BY <1>1, <1>6 DEF SelOf, DriveMode, Fits, External, Motion
    <3>2. requested \notin Motion => Fits(SelOf(requested))'
      BY <1>1 DEF SelOf, Fits
    <3>3. QED
      BY <3>1, <3>2
  <2>5. Fits(dr.sel)' /\ Fits(dr.disp)' /\ Fits(modes)'
    BY <1>1, <1>2, <1>8, <2>3, <2>4 DEF Fits
  <2>6. QED
    BY <2>1, <2>5 DEF Plain
<1>16. QED
  BY <1>1, <1>12, <1>13, <1>14, <1>15 DEF CleanInv, PlainInv, Well, Stage, LastTyped

\* The drive shows the mode it was put in.
LEMMA AdoptKeeps ==
  ASSUME TypedInv, Well, Plain, LastTyped, Adopt
  PROVE  CleanInv' /\ PlainInv'
<1> DEFINE n == Len(nodeFrames)
           fs == nodeFrames'
<1>1. /\ UNCHANGED <<conf, rpc, actualMode, requested, modes, sync, sw, beat, lastNmt, nodeCall, last>>
      /\ dr.disp # dr.sel
  BY DEF Adopt, node, watch, nodeGhosts
<1>2. ~Started /\ dr.nmt = "OPERATIONAL" /\ rpc = <<>>
  <2>1. ~Started
    BY <1>1 DEF Started
  <2>2. dr.nmt = "OPERATIONAL"
    BY <2>1 DEF Well, Stage, Starting, Asking, Confirming, Unselected, Selected, Agreed, Known
  <2>3. QED
    BY <1>1, <2>1, <2>2 DEF Well, RpcHeld
<1>3. /\ dr'.st = dr.st /\ dr'.sel = dr.sel /\ dr'.disp = dr.sel /\ dr'.map = dr.map /\ dr'.nmt = dr.nmt
  BY DEF Adopt, TypedInv, NodeTyped, DriveTyped, DriveRecords
<1>4. /\ n \in Nat /\ Len(fs) = n + 1
      /\ fs[n + 1] = [t |-> "tpdo", st |-> dr.st, disp |-> dr.sel, to |-> "all"]
      /\ \A k \in 1..n : fs[k] = nodeFrames[k] /\ k \in 1..Len(fs)
  <2>1. /\ Tpdo(dr.st, dr.sel) \in Seq(Frames) /\ Len(Tpdo(dr.st, dr.sel)) = 1
        /\ Tpdo(dr.st, dr.sel)[1] = [t |-> "tpdo", st |-> dr.st, disp |-> dr.sel, to |-> "all"]
    <3>1. Tpdo(dr.st, dr.sel) \in Seq(Frames)
      BY FramesKnown DEF TypedInv, NodeTyped, DriveTyped, DriveRecords
    <3>2. QED
      BY <3>1 DEF Tpdo
  <2>2. nodeFrames \in Seq(Frames)
    BY DEF TypedInv, NodeTyped
  <2>3. /\ n \in Nat /\ Len(nodeFrames \o Tpdo(dr.st, dr.sel)) = n + Len(Tpdo(dr.st, dr.sel))
        /\ \A k \in 1..n + Len(Tpdo(dr.st, dr.sel)) : (nodeFrames \o Tpdo(dr.st, dr.sel))[k] =
             IF k <= n THEN nodeFrames[k] ELSE Tpdo(dr.st, dr.sel)[k - n]
    BY <2>1, <2>2, FramesJoin, Zenon
  <2>4. QED
    BY <1>2, <2>1, <2>3 DEF Adopt
<1>5. \A k \in 1..n + 1 : k \in 1..n \/ k = n + 1
  BY <1>4
<1>6. /\ \A k \in 1..n : Ahead(k)' <=> Ahead(k)
      /\ ~Ahead(n + 1)'
  <2>1. ASSUME NEW k \in 1..n, Ahead(k)' PROVE Ahead(k)
    <3>1. PICK r \in 1..Len(fs) : fs[r].t = "reply" /\ k <= r
      BY <2>1 DEF Ahead
    <3>2. r \in 1..n /\ nodeFrames[r].t = "reply"
      BY <1>4, <1>5, <3>1
    <3>3. QED
      BY <3>1, <3>2 DEF Ahead
  <2>2. ASSUME NEW k \in 1..n, Ahead(k) PROVE Ahead(k)'
    BY <1>4, <2>2 DEF Ahead
  <2>3. ~Ahead(n + 1)'
    <3> SUFFICES ASSUME Ahead(n + 1)' PROVE FALSE
      OBVIOUS
    <3>1. PICK r \in 1..Len(fs) : fs[r].t = "reply" /\ n + 1 <= r
      BY DEF Ahead
    <3>2. r = n + 1
      BY <1>4, <3>1
    <3>3. QED
      BY <1>4, <3>1, <3>2
  <2>4. QED
    BY <2>1, <2>2, <2>3
<1>7. Calm'
  BY <1>1, <1>3, <1>4, <1>5 DEF Well, Calm
<1>8. Wire'
  <2>1. \A r \in 1..Len(fs) : fs[r].t = "reply" => r \in 1..n /\ nodeFrames[r].t = "reply"
    BY <1>4, <1>5
  <2>2. nodeCall["client"].pc = "asked" => \E r \in 1..Len(fs) : fs[r].t = "reply"
    BY <1>4 DEF Well, Wire
  <2>3. ASSUME NEW r \in 1..Len(fs), fs[r].t = "reply"
        PROVE  /\ nodeCall["client"].pc = "asked"
               /\ \A k \in 1..Len(fs) : fs[k].t = "reply" => k = r
               /\ IF r = 1 THEN Heard(sw)' ELSE fs[r - 1].st = dr'.st
    <3>1. r \in 1..n /\ nodeFrames[r].t = "reply"
      BY <2>1, <2>3
    <3>2. /\ nodeCall["client"].pc = "asked"
          /\ \A k \in 1..n : nodeFrames[k].t = "reply" => k = r
          /\ IF r = 1 THEN Heard(sw) ELSE nodeFrames[r - 1].st = dr.st
      BY <3>1 DEF Well, Wire
    <3>3. r # 1 => r - 1 \in 1..n
      BY <1>4, <3>1
    <3>4. IF r = 1 THEN Heard(sw)' ELSE fs[r - 1].st = dr'.st
      BY <1>1, <1>3, <1>4, <3>2, <3>3 DEF Heard
    <3>5. QED
      BY <2>1, <3>2, <3>4
  <2>4. \A k \in 1..Len(fs) : ~Ahead(k)' => fs[k].st = dr'.st /\ fs[k].disp = dr'.disp /\ dr'.disp = dr'.sel
    <3> SUFFICES ASSUME NEW k \in 1..Len(fs), ~Ahead(k)'
                 PROVE  fs[k].st = dr'.st /\ fs[k].disp = dr'.disp /\ dr'.disp = dr'.sel
      OBVIOUS
    <3>1. k \notin 1..n
      <4> SUFFICES ASSUME k \in 1..n PROVE FALSE
        OBVIOUS
      <4>1. ~Ahead(k)
        BY <1>6
      <4>2. QED
        BY <1>1, <4>1 DEF Well, Wire
    <3>2. k = n + 1
      BY <1>4, <1>5, <3>1
    <3>3. QED
      BY <1>3, <1>4, <3>2
  <2>5. nodeCall["client"].pc # "asked" => Heard(sw)'
    BY <1>1, <1>3 DEF Well, Wire, Heard
  <2>6. QED
    BY <1>1, <2>2, <2>3, <2>4, <2>5 DEF Wire
<1>9. ModesKnown' /\ RpcHeld'
  BY <1>1, <1>2, <1>4 DEF ModesKnown, NoneUnderWay, RpcHeld
<1>10. /\ Known' = Known /\ Agreed' = Agreed /\ MapRight(requested)' = MapRight(requested)
       /\ SyncRight(requested)' = SyncRight(requested) /\ Pending' = Pending
  BY <1>1, <1>3, PartsStay DEF Known, Agreed, MapRight, SyncRight, Pending
<1>11. Settled(requested)' = Settled(requested)
  BY <1>1, <1>3, <1>10, PartsStay DEF Settled
<1>12. Stage'
  <2>1. CASE Asking
    <3>1. Asking'
      BY <1>1, <1>3, <1>10, <1>11, <2>1 DEF Asking
    <3>2. QED
      BY <3>1 DEF Stage
  <2>2. CASE Confirming
    <3>1. Confirming'
      BY <1>1, <1>10, <1>11, <2>2 DEF Confirming
    <3>2. QED
      BY <3>1 DEF Stage
  <2>3. CASE Unselected
    <3>2. ShownRight(requested)'
      BY <1>1, <1>10, <2>3, PartsStay DEF Unselected, ShownRight
    <3>3. Unselected'
      BY <1>1, <1>3, <1>10, <2>3, <3>2, PartsStay DEF Unselected
    <3>4. QED
      BY <3>3 DEF Stage
  <2>4. CASE Selected
    <3>2. Turning(requested)'
      BY <1>1, <1>10, <2>4, PartsStay DEF Selected, Turning, ShownRight
    <3>3. Selected'
      BY <1>1, <1>3, <1>10, <2>4, <3>2, PartsStay DEF Selected
    <3>4. QED
      BY <3>3 DEF Stage
  <2>5. QED
    BY <1>2, <2>1, <2>2, <2>3, <2>4 DEF Well, Stage, Starting
<1>13. Plain'
  <2>1. \A k \in 1..Len(nodeFrames') : nodeFrames'[k].t = "tpdo" =>
          (\E j \in 1..Len(nodeFrames) : nodeFrames'[k] = nodeFrames[j]) \/ nodeFrames'[k].disp \in {dr.disp, dr.sel}
    BY <1>4, <1>5
  <2>2. QED
    BY <1>1, <1>3, <2>1, PlainKept
<1>14. QED
  BY <1>1, <1>7, <1>8, <1>9, <1>12, <1>13 DEF CleanInv, PlainInv, Well, LastTyped

-----------------------------------------------------------------------------
(* Every step *)

LEMMA InitClean == NodeInit => CleanInv /\ PlainInv
<1> SUFFICES ASSUME NodeInit PROVE CleanInv /\ PlainInv
  OBVIOUS
<1>1. /\ nodeCall["client"] = Starts(Initialize, TRUE) /\ nodeCall["monitor"] = Idle
      /\ Starts(Initialize, TRUE).pc = "next" /\ Starts(Initialize, TRUE).todo = Initialize /\ Idle.pc = "idle"
  BY DEF NodeInit, Threads, Starts, Idle
<1>2. nodeFrames = <<>> /\ Len(nodeFrames) = 0
  BY DEF NodeInit
<1>3. /\ dr.st = "SWITCH_ON_DISABLED" /\ dr.sel = "none" /\ dr.disp = "none" /\ sw = "NOT_READY_TO_SWITCH_ON"
      /\ actualMode = "NOT_CONFIGURED" /\ beat = FALSE /\ requested = "none" /\ modes = "none" /\ rpc = <<>>
  BY DEF NodeInit, Booted
<1>4. last = [goal |-> "none", ok |-> FALSE, clean |-> TRUE, torn |-> FALSE]
  BY DEF NodeInit
<1>5. LastTyped
  BY <1>4 DEF LastTyped
<1>6. /\ nodeCall["client"].pc = "next" /\ nodeCall["monitor"].pc = "idle"
      /\ \A k \in 1..Len(nodeFrames) : FALSE
  <2>1. nodeCall["client"].pc = "next"
    BY <1>1, Zenon
  <2>2. nodeCall["monitor"].pc = "idle"
    BY <1>1, Zenon
  <2>3. \A k \in 1..Len(nodeFrames) : FALSE
    BY <1>2
  <2>4. QED
    BY <2>1, <2>2, <2>3
<1>7. Calm
  BY <1>3, <1>6 DEF Calm
<1>8. Wire
  BY <1>3, <1>6 DEF Wire, Heard
<1>9. ModesKnown /\ RpcHeld
  BY <1>3, <1>6 DEF ModesKnown, NoneUnderWay, RpcHeld
<1>10. Pending = FromSetup
  BY <1>1, InitializeIsParts DEF Pending
<1>11. Starting
  BY <1>2, <1>3, <1>4, <1>6, <1>10 DEF Starting, Started
<1>12. Plain
  BY <1>2, <1>3 DEF Plain, Fits
<1>13. QED
  BY <1>5, <1>7, <1>8, <1>9, <1>11, <1>12 DEF CleanInv, PlainInv, Well, Stage

\* Nothing of the drive changes, and what is shown of it.
LEMMA QuietIsPlain ==
  ASSUME Plain, UNCHANGED <<conf, modes, dr, nodeFrames>>
  PROVE  PlainInv'
<1>1. \A k \in 1..Len(nodeFrames') : nodeFrames'[k].t = "tpdo" =>
        (\E j \in 1..Len(nodeFrames) : nodeFrames'[k] = nodeFrames[j]) \/ nodeFrames'[k].disp \in {dr.disp, dr.sel}
  OBVIOUS
<1>2. QED
  BY <1>1, PlainKept DEF PlainInv

LEMMA StepKeepsWell ==
  ASSUME TypedInv, Well, Plain, LastTyped, CyclicIsOne, NEW t \in Threads, Step(t)
  PROVE  CleanInv' /\ PlainInv'
<1>1. t = "client"
  <2>1. nodeCall[t].pc # "idle"
    BY DEF Step, Enter, Confirm, LeaveVelocity, LeaveFault, WriteWord, Configured, AlreadyThere, NoWay, Request, StartNode,
           NodeStarted, NodeSilent, NoReply, ModeIsThere, ModeIsNot, OpenWindow, ModeChanged, Expire, At
  <2>2. QED
    BY <2>1 DEF Well, Calm, Threads
<1>2. CASE Request("client") \/ StartNode("client")
  BY <1>2, RequestKeeps, StartKeeps
<1>3. CASE ~Request("client") /\ ~StartNode("client")
  <2>1. UNCHANGED <<conf, modes, dr, nodeFrames>>
    BY <1>1, <1>3
       DEF Step, Enter, Confirm, LeaveVelocity, LeaveFault, WriteWord, Configured, AlreadyThere, NoWay,
           NodeStarted, NodeSilent, NoReply, ModeIsThere, ModeIsNot, OpenWindow, ModeChanged, Expire, node
  <2>2. PlainInv'
    BY <2>1, QuietIsPlain
  <2>3. CASE NoWay("client") \/ NodeSilent("client") \/ NoReply("client") \/ Expire("client")
    BY <2>2, <2>3, Spoiled DEF NoWay, NodeSilent, NoReply, Expire
  <2>4. QED
    BY <1>1, <1>3, <2>2, <2>3, EnterKeeps, ConfirmKeeps, LeavingKeeps, WordKeeps, ConfiguredKeeps, AlreadyThereKeeps,
       StartedKeeps, ModeThereKeeps, WaitingKeeps DEF Step
<1>4. QED
  BY <1>2, <1>3

LEMMA Uncleaned == ASSUME LastTyped, ~last.clean, [NodeNext]_nodeVars PROVE CleanInv' /\ PlainInv'
<1>1. last' = last => LastTyped' /\ last'.clean = last.clean
  BY DEF LastTyped
<1>2. \A t \in Threads : \A rest : Proceeds(t, rest) => LastTyped' /\ last'.clean = last.clean
  BY DEF LastTyped, Proceeds
<1>3. \A t \in Threads : Fails(t) => LastTyped' /\ ~last'.clean
  BY DEF LastTyped, Fails
<1>4. Disturbed \/ Torn => LastTyped' /\ ~last'.clean
  BY DEF LastTyped, Disturbed, Torn
<1>5. ASSUME NEW t \in Threads, Step(t) PROVE LastTyped' /\ ~last'.clean
  BY <1>1, <1>2, <1>3, <1>4, <1>5
     DEF Step, Enter, Confirm, LeaveVelocity, LeaveFault, WriteWord, Configured, AlreadyThere, NoWay, Request, StartNode,
         NodeStarted, NodeSilent, NoReply, ModeIsThere, ModeIsNot, OpenWindow, ModeChanged, Expire, nodeGhosts
<1>6. ASSUME NEW mode \in Modes, SetControlMode(mode) PROVE LastTyped' /\ ~last'.clean
  BY <1>6 DEF SetControlMode, LastTyped
<1>7. CASE ReadNext
  <2>1. CASE last' = last
    BY <1>1, <2>1 DEF CleanInv, PlainInv
  <2>2. ASSUME NEW t, Proceeds(t, Remaining(t)) PROVE LastTyped' /\ ~last'.clean
    BY <2>2 DEF LastTyped, Proceeds
  <2>3. QED
    BY <1>7, <2>1, <2>2 DEF ReadNext, handleTpdo1, CleanInv, PlainInv
<1>8. CASE Monitor
  BY <1>1, <1>2, <1>4, <1>8 DEF Monitor, Lost, Wipe, Reinitialize, AllWell, ResetAgain, nodeGhosts, CleanInv, PlainInv, Threads
<1>9. CASE UNCHANGED nodeVars \/ ReadHeartbeat \/ (\E c \in Confs : CheckConf(c)) \/ ApplyConf \/ Adopt
  BY <1>1, <1>9 DEF nodeVars, ReadHeartbeat, CheckConf, ApplyConf, Adopt, nodeGhosts, CleanInv, PlainInv, PlainInv
<1>10. CASE Fault \/ Reboot
  BY <1>4, <1>10 DEF Fault, Reboot, CleanInv, PlainInv
<1>11. QED
  BY <1>5, <1>6, <1>7, <1>8, <1>9, <1>10 DEF NodeNext, CleanInv, PlainInv

LEMMA CleanStep ==
  ASSUME Apart, CyclicIsOne, TypedInv, Told, CleanInv, PlainInv, [NodeNext]_nodeVars
  PROVE  CleanInv' /\ PlainInv'
<1>1. LastTyped
  BY DEF CleanInv
<1>2. CASE ~last.clean
  BY <1>1, <1>2, Uncleaned
<1>3. CASE last.clean
  <2>1. Well /\ Plain
    BY <1>3 DEF CleanInv, PlainInv
  <2>2. CASE UNCHANGED nodeVars
    <3>1. UNCHANGED <<conf, rpc, actualMode, requested, modes, sync, sw, beat, lastNmt, nodeCall, dr, nodeFrames, last>>
      BY <2>2 DEF nodeVars, node, watch, nodeGhosts
    <3>2. RpcHeld' /\ (actualMode' = "NOT_CONFIGURED" /\ beat' => lastNmt' # "BOOTUP")
      BY <2>1, <3>1 DEF Well, RpcHeld, Calm
    <3>3. CleanInv'
      BY <1>1, <2>1, <3>1, <3>2, AsideKeeps
    <3>4. QED
      BY <2>1, <3>1, <3>3, QuietIsPlain
  <2>3. ASSUME NEW mode \in Modes, SetControlMode(mode) PROVE CleanInv' /\ PlainInv'
    <3>1. UNCHANGED <<conf, modes, dr, nodeFrames>>
      BY <2>3 DEF SetControlMode, node
    <3>2. QED
      BY <1>1, <2>1, <2>3, <3>1, NodeAssumption, CallKeepsWell, QuietIsPlain
  <2>4. ASSUME NEW t \in Threads, Step(t) PROVE CleanInv' /\ PlainInv'
    BY <1>1, <2>1, <2>4, StepKeepsWell
  <2>5. CASE ReadNext
    BY <1>1, <2>1, <2>5, ReadKeepsWell
  <2>6. CASE ReadHeartbeat \/ Monitor
    <3>1. CleanInv'
      BY <1>1, <2>1, <2>6, HeartbeatKeeps, MonitorKeeps
    <3>2. CASE Lost
      BY <1>1, <3>1, <3>2 DEF Lost, Torn, LastTyped, PlainInv
    <3>3. CASE ReadHeartbeat \/ AllWell
      <4>1. UNCHANGED <<conf, modes, dr, nodeFrames>>
        BY <3>3 DEF ReadHeartbeat, AllWell, node
      <4>2. QED
        BY <2>1, <3>1, <4>1, QuietIsPlain
    <3>4. ~Wipe /\ ~ResetAgain /\ ~Reinitialize
      BY <2>1 DEF Wipe, ResetAgain, Reinitialize, Rebooted, At, Well, Calm
    <3>5. QED
      BY <2>6, <3>2, <3>3, <3>4 DEF Monitor
  <2>7. ASSUME NEW c \in Confs, CheckConf(c) PROVE CleanInv' /\ PlainInv'
    <3>1. UNCHANGED <<conf, modes, dr, nodeFrames>>
      BY <2>7 DEF CheckConf, node
    <3>2. QED
      BY <1>1, <2>1, <2>7, <3>1, CheckKeeps, QuietIsPlain
  <2>8. CASE ApplyConf
    BY <1>1, <2>1, <2>8, ApplyKeeps
  <2>9. CASE Adopt
    BY <1>1, <2>1, <2>9, AdoptKeeps
  <2>10. CASE Fault \/ Reboot
    BY <1>1, <2>10, Spoiled DEF Fault, Reboot, Disturbed, Torn, LastTyped, PlainInv
  <2>11. QED
    BY <2>2, <2>3, <2>4, <2>5, <2>6, <2>7, <2>8, <2>9, <2>10 DEF NodeNext
<1>4. QED
  BY <1>2, <1>3

LEMMA WellSuffices == TypedInv /\ CleanInv => SuccessMeansSelected
<1> SUFFICES ASSUME TypedInv, CleanInv, last.clean, last.goal # "none", \A t \in Threads : nodeCall[t].pc = "idle"
             PROVE  IF last.goal \in {"IDLE", "FORCE_IDLE"}
                    THEN dr.st = "SWITCHED_ON" /\ dr.sel = "none"
                    ELSE /\ dr.st = "OPERATION_ENABLED" /\ dr.sel = DriveMode(last.goal)
                         /\ last.goal # "POSITION" => dr.map = Mapped(last.goal)
                         /\ actualMode = last.goal
                         /\ sync = (last.goal # "POSITION" /\ DriveMode(last.goal) # "ip")
  BY DEF SuccessMeansSelected
<1>1. Pending = <<>> /\ Stage
  BY DEF CleanInv, Well, Calm, Pending, Threads
<1>1a. nodeCall["client"].pc # "asked"
  BY DEF Threads
<1>2. Selected /\ (requested \in Motion => modes = SelOf(requested) /\ actualMode = requested /\ SyncRight(requested))
  BY <1>1, <1>1a, NothingLeft DEF TypedInv
<1>3. last.goal = requested /\ requested \in ModeNames
  BY <1>2 DEF Selected, Agreed
<1>4. CASE requested \in {"IDLE", "FORCE_IDLE"}
  BY <1>2, <1>3, <1>4 DEF Selected, GoalOf, SelOf, Motion
<1>5. CASE requested \in Motion
  <2>1. requested \notin {"IDLE", "FORCE_IDLE"}
    BY <1>5 DEF Motion
  <2>2. SelOf(requested) = DriveMode(requested) /\ GoalOf(requested) = "OPERATION_ENABLED"
    BY <1>5 DEF SelOf, GoalOf
  <2>3. QED
    BY <1>2, <1>3, <1>5, <2>1, <2>2 DEF Selected, MapRight, SyncRight
<1>6. QED
  BY <1>3, <1>4, <1>5 DEF ModeNames

\* A call of setControlModeRaw that returned true, where nothing has gone wrong before (no
\* call failed, the drive has not faulted or booted again, nothing was lost), has left the
\* drive enabled in the mode, mapped and shown (SuccessMeansSelected), however long the
\* history of modes, and however late the drive shows them and its frames are read: where
\* nobody reconfigures while a mode changes, and enableCsv comes with an ipBuffer (without
\* one POSITION_DIRECT is cyclic position, which handleTpdo1 shows as VELOCITY).
THEOREM SuccessSelects ==
  ASSUME Apart, CyclicIsOne
  PROVE  NodeSpec => []SuccessMeansSelected
<1>1. NodeInit => TypedInv /\ Told /\ CleanInv /\ PlainInv
  BY NodeInitTyped, InitTold, InitClean
<1>2. TypedInv /\ Told /\ CleanInv /\ PlainInv /\ [NodeNext]_nodeVars => (TypedInv /\ Told /\ CleanInv /\ PlainInv)'
  BY TypedStep, ToldStep, CleanStep
<1>3. TypedInv /\ Told /\ CleanInv /\ PlainInv => SuccessMeansSelected
  BY WellSuffices
<1>4. QED
  BY <1>1, <1>2, <1>3, PTL DEF NodeSpec
=============================================================================
