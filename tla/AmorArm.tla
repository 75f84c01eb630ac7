------------------------------ MODULE AmorArm ------------------------------
(***************************************************************************)
(* AmorControlboard: orders to the joints of the AMOR arm. Its library      *)
(* commands and measures all joints at once, so an order to some of them    *)
(* reads what all do, changes that of some and writes all of it; two        *)
(* clients may do this at once. Questions read what the arm measures or was *)
(* told, never what this class remembers, except the mode.                  *)
(*                                                                         *)
(* The library and the arm are external: calls fail or not, and the arm     *)
(* follows the last vector of positions, velocities or currents.            *)
(***************************************************************************)
EXTENDS Integers, Sequences, SequencesExt

CONSTANTS ArmJoints, \* 0..AMOR_NUM_JOINTS - 1
          Clients,
          Lists,   \* what calls pass as n_joint and joints
          Refs,    \* what is asked for, or added
          Top,     \* bound: positions are in -Top..Top
          MaxCalls \* bound: orders

ASSUME TopAssumption == Top \in Nat

VARIABLES
  phase,       \* "closed", "opening", "open", "over"
  handle,      \* "invalid", "held" or "released", which close takes for held
  controlMode, \* what getControlMode tells; nothing depends on it
  actual, req, \* the arm: what each quantity is and should be, by joints
  follows,     \* the quantity that the arm was last told, or "stopped"
  call,        \* each client: its next step, its order and its local vector
  calls, asked,\* ghosts: the number of orders, and the joints they were about
  wild         \* ghost: an order was made of memory that nobody had written

arm == <<actual, req, follows>>
ghosts == <<calls, asked, wild>>
vars == <<phase, handle, controlMode, arm, call, ghosts>>

Quantities == {"positions", "velocities", "currents"}
Garbage == Top + 7
\* What a joint does that nobody has moved: it holds itself with some current.
Still == [positions |-> [j \in ArmJoints |-> 0], velocities |-> [j \in ArmJoints |-> 0], currents |-> [j \in ArmJoints |-> 1]]

Order(q, to, relative, list, ref) == [quantity |-> q, to |-> to, relative |-> relative, list |-> list, ref |-> ref]
NoCall == [at |-> "idle", order |-> Order("positions", "all", FALSE, <<>>, 0), local |-> [j \in ArmJoints |-> 0]]
Elements(list) == {list[i] : i \in DOMAIN list}
Times(list, j) == Len(SelectSeq(list, LAMBDA x : x = j))
Number == Cardinality(ArmJoints)

-----------------------------------------------------------------------------
(* Orders: to one joint, to all, or to a list of them *)

Singles == {<<j>> : j \in ArmJoints}
Relatives(q) == IF q = "positions" THEN BOOLEAN ELSE {FALSE}
OrdersToOne(q) == {Order(q, "one", r, l, ref) : r \in Relatives(q), l \in Singles, ref \in Refs}
OrdersToAll(q) == {Order(q, "all", r, SetToSeq(ArmJoints), ref) : r \in Relatives(q), ref \in Refs}
OrdersToList(q) == {Order(q, "list", r, l, ref) : r \in Relatives(q), l \in Lists, ref \in Refs}
Orders == UNION {OrdersToOne(q) \cup OrdersToAll(q) \cup OrdersToList(q) : q \in Quantities}

\* indexWithinRange, batchWithinRange, which orders of currents do not ask.
WithinRange(order) == order.to = "list" /\ order.quantity # "currents" => Len(order.list) <= Number

\* A list as long as there are joints is taken for all of them.
ReadsActual(order) ==
  \/ order.to = "one"
  \/ order.to = "list" /\ (order.quantity = "currents" \/ Len(order.list) < Number)

Unwritten == [j \in ArmJoints |-> Garbage]
\* Mutation: the joints are counted and not looked up.
ChangedByIndex(order, local) == [j \in ArmJoints |-> IF j + 1 \in DOMAIN order.list THEN order.ref ELSE local[j]]
\* What is written: joints that are listed more than once move as often.
Changed(order, local) ==
  [j \in ArmJoints |->
     IF j \notin Elements(order.list) THEN local[j]
     ELSE IF ~order.relative THEN order.ref
     ELSE IF local[j] = Garbage THEN Garbage
     ELSE local[j] + order.ref * Times(order.list, j)]

Call(c, order) ==
  /\ phase = "open" /\ call[c].at = "idle" /\ calls < MaxCalls /\ calls' = calls + 1
  /\ IF WithinRange(order)
     THEN call' = [call EXCEPT ![c] = [at |-> IF ReadsActual(order) THEN "read" ELSE "write",
                                       order |-> order, local |-> Unwritten]]
     ELSE UNCHANGED call
  /\ UNCHANGED <<phase, handle, controlMode, arm, asked, wild>>

Read(c) ==
  /\ call[c].at = "read"
  /\ \/ call' = [call EXCEPT ![c].at = "write", ![c].local = actual[call[c].order.quantity]]
     \/ call' = [call EXCEPT ![c] = NoCall]
  /\ UNCHANGED <<phase, handle, controlMode, arm, ghosts>>

Write(c) ==
  /\ call[c].at = "write"
  /\ LET order == call[c].order
         vector == Changed(order, call[c].local)
     IN  \/ /\ req' = [req EXCEPT ![order.quantity] = vector] /\ follows' = order.quantity
            /\ asked' = asked \cup Elements(order.list)
            /\ wild' = (wild \/ \E j \in ArmJoints : vector[j] = Garbage)
         \/ UNCHANGED <<req, follows, asked, wild>>
  /\ call' = [call EXCEPT ![c] = NoCall]
  /\ UNCHANGED <<phase, handle, controlMode, actual, calls>>

\* stop, of one joint, of a list or of all: all stop.
Stop ==
  /\ phase = "open" /\ follows' = "stopped"
  /\ UNCHANGED <<phase, handle, controlMode, actual, req, call, ghosts>>

setControlMode(mode) ==
  /\ phase = "open" /\ controlMode' = mode
  /\ UNCHANGED <<phase, handle, arm, call, ghosts>>

-----------------------------------------------------------------------------
(* Questions, by joint. Those to a list take the joints from it unchecked. *)

getEncoders == actual.positions
getEncoderSpeeds == actual.velocities
getCurrents == actual.currents
getTargetPositions == req.positions
getRefVelocities == req.velocities
getRefCurrents == req.currents

getControlModes == [j \in ArmJoints |-> controlMode]

\* A joint is said to be done when all of them are.
checkMotionDone == [j \in ArmJoints |-> follows = "stopped" \/ getEncoders = getTargetPositions]

\* Data of the joint (getRefSpeed, getRefAcceleration, getCurrentRange, the limits, the
\* names and types) are asked of the library, which may fail.
AskJointInfo == phase = "open" /\ UNCHANGED vars

\* Speeds, accelerations, encoders and limits cannot be set: these calls return false.
NotAvailable == phase = "open" /\ UNCHANGED vars

-----------------------------------------------------------------------------
(* The arm *)

Toward(x, y) == IF x < y THEN x + 1 ELSE IF x > y THEN x - 1 ELSE x
Bounded(x) == IF x > Top THEN Top ELSE IF x < -Top THEN -Top ELSE x

\* One joint goes on with what the arm was told.
Travel(j) ==
  /\ ~wild /\ follows \in Quantities
  /\ actual' = CASE follows = "positions" -> [actual EXCEPT !.positions[j] = Bounded(Toward(@, req.positions[j]))]
                 [] follows = "velocities" -> [actual EXCEPT !.velocities[j] = req.velocities[j],
                                                             !.positions[j] = Bounded(@ + req.velocities[j])]
                 [] follows = "currents" -> [actual EXCEPT !.currents[j] = req.currents[j]]
  /\ UNCHANGED <<phase, handle, controlMode, req, follows, call, ghosts>>

-----------------------------------------------------------------------------
(* open and close *)

Init ==
  /\ phase = "closed" /\ handle = "invalid" /\ controlMode = "POSITION"
  /\ actual = Still /\ req = Still /\ follows = "stopped"
  /\ call = [c \in Clients |-> NoCall] /\ calls = 0 /\ asked = {} /\ wild = FALSE

Connect ==
  /\ phase = "closed"
  /\ \/ phase' = "opening" /\ handle' = "held"
     \/ phase' = "over" /\ UNCHANGED handle
  /\ UNCHANGED <<controlMode, arm, call, ghosts>>

\* The joints are asked for their data, then for their positions, which become the
\* first order. They are read into a vector without elements: if that is survived,
\* the order is of these positions.
Hold ==
  /\ phase = "opening"
  /\ \/ /\ phase' \in {"open", "opening"} /\ req' = [req EXCEPT !.positions = actual.positions] /\ follows' = "positions"
        /\ handle' = IF phase' = "open" THEN "held" ELSE "released"
     \/ handle' = "released" /\ UNCHANGED <<phase, req, follows>>
  /\ handle = "held"
  /\ UNCHANGED <<controlMode, actual, call, ghosts>>

\* Emergency stop. After a failed open the handle is released once more.
Close ==
  /\ phase = "open" \/ (phase = "opening" /\ handle = "released")
  /\ \A c \in Clients : call[c].at = "idle"
  /\ phase' = "over" /\ handle' = "invalid" /\ follows' = "stopped"
  /\ UNCHANGED <<controlMode, actual, req, call, ghosts>>

Over == phase = "over" /\ UNCHANGED vars

Next ==
  \/ Connect \/ Hold \/ Close \/ Over \/ Stop \/ AskJointInfo \/ NotAvailable
  \/ \E mode \in {"POSITION", "VELOCITY"} : setControlMode(mode)
  \/ \E c \in Clients : Read(c) \/ Write(c) \/ \E order \in Orders : Call(c, order)
  \/ \E j \in ArmJoints : Travel(j)

Spec == Init /\ [][Next]_vars

-----------------------------------------------------------------------------
(* Properties *)

TypeOK ==
  /\ phase \in {"closed", "opening", "open", "over"} /\ handle \in {"invalid", "held", "released"}
  /\ follows \in Quantities \cup {"stopped"} /\ asked \subseteq ArmJoints /\ wild \in BOOLEAN
  /\ \A j \in ArmJoints : actual.positions[j] \in -Top..Top
  /\ getControlModes \in [ArmJoints -> {"POSITION", "VELOCITY"}] /\ checkMotionDone \in [ArmJoints -> BOOLEAN]
  /\ \A c \in Clients : call[c].at \in {"idle", "read", "write"}

\* A joint that no order was about stays where it was, is told to, and is known to,
\* whatever the others are asked and whoever asks at the same time, as long as no order
\* is made of memory that was never written.
UnaskedStays ==
  ~wild => \A j \in ArmJoints \ asked :
             /\ getEncoders[j] = Still.positions[j] /\ getTargetPositions[j] = Still.positions[j]
             /\ getEncoderSpeeds[j] = Still.velocities[j] /\ getRefVelocities[j] = Still.velocities[j]
             /\ getCurrents[j] = Still.currents[j] /\ getRefCurrents[j] = Still.currents[j]
=============================================================================
