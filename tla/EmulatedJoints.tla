--------------------------- MODULE EmulatedJoints ---------------------------
(***************************************************************************)
(* EmulatedControlboard: joints that move by themselves. A periodic thread  *)
(* copies the encoders, moves the copy by the velocities, stops the joints  *)
(* that are past a limit or at their target, and writes the whole copy      *)
(* back. Calls write targets, velocities and states of the joints without   *)
(* any lock, one after the other, at any moment of that.                    *)
(*                                                                         *)
(* Positions and velocities are in whole units (velocities of a list of     *)
(* joints are rounded up to them), raw and exposed ones the same; a period  *)
(* lasts one unit of time and all joints have one reference speed.          *)
(***************************************************************************)
EXTENDS Integers, Sequences, SequencesExt, FiniteSetsExt

CONSTANTS Axes, Speed, Tol, MinLimit, MaxLimit, Refs, Deltas,
          MaxOrders, \* bound: orders to move
          Horizon    \* bound: a joint that has run away is not followed any farther

VARIABLES
  controlMode,    \* as configured: the functions that would change it are defined nowhere
  encRaw, velRaw, jointStatus, targetExposed,
  todo,           \* what the call in progress has still to assign, in order
  phase, motor,   \* where the periodic thread is
  encsRaw, encsExposed, \* its copies of the encoders
  goal,           \* ghost: the joint is on its way to the target of a move, or got there
  orders,         \* ghost: orders to move so far
  raced           \* ghost: a joint was stopped by the thread while a call dealt with it

run == <<phase, motor, encsRaw, encsExposed>>
vars == <<controlMode, encRaw, velRaw, jointStatus, targetExposed, todo, run, goal, orders, raced>>

Joints == 1..Axes
NOT_CONTROLLING == 0
POSITION_MOVE == 1
VELOCITY_MOVE == 3

\* The quotient of two zeros: it is not equal to anything, and what is added to it is lost.
NaN == 1000000
Plus(x, y) == IF NaN \in {x, y} THEN NaN ELSE x + y
Above(x, y) == NaN \notin {x, y} /\ x > y
Abs(x) == IF x < 0 THEN -x ELSE x
Followed(x) == IF x = NaN THEN NaN ELSE Max({-Horizon, Min({x, Horizon})})
Distance(x, y) == IF NaN \in {x, y} THEN NaN ELSE Abs(x - y)

\* open
Init ==
  /\ controlMode \in {"POSITION_MODE", "VELOCITY_MODE"}
  /\ encRaw = [j \in Joints |-> 0] /\ velRaw = [j \in Joints |-> 0]
  /\ jointStatus = [j \in Joints |-> NOT_CONTROLLING]
  /\ targetExposed = [j \in Joints |-> 0]
  /\ todo = <<>>
  /\ phase = "idle" /\ motor = 1
  /\ encsRaw = encRaw /\ encsExposed = encRaw
  /\ goal = [j \in Joints |-> FALSE] /\ orders = 0 /\ raced = [j \in Joints |-> FALSE]

-----------------------------------------------------------------------------
(* Calls *)

Assign(what, j, value) == [what |-> what, joint |-> j, value |-> value]
Stop(j) == <<Assign("vel", j, 0), Assign("status", j, NOT_CONTROLLING)>>
Go(j, velocity, status) == <<Assign("vel", j, velocity), Assign("status", j, status)>>

Stopping(j) == phase \in {"stop", "stopped"} /\ motor = j
InHand(j) == \E i \in 1..Len(todo) : todo[i].joint = j

\* A call begins: what it is going to assign, and the joints it sends to a target.
Order(assignments, joints, sent) ==
  /\ todo = <<>> /\ orders < MaxOrders
  /\ todo' = assignments
  /\ orders' = orders + 1
  /\ goal' = [j \in Joints |-> IF j \in joints THEN j \in sent ELSE goal[j]]
  /\ raced' = [j \in Joints |-> raced[j] \/ (j \in joints /\ Stopping(j))]
  /\ UNCHANGED <<controlMode, encRaw, velRaw, jointStatus, targetExposed, run>>

\* positionMove and relativeMove of a joint: at the reference speed, unless the target is near.
MoveTo(j, target) ==
  <<Assign("target", j, target)>> \o
  (IF Above(Tol, Distance(target, encRaw[j])) THEN Stop(j)
   ELSE Go(j, IF Above(target, encRaw[j]) THEN Speed ELSE -Speed, POSITION_MOVE))

positionMove(j, ref) == controlMode = "POSITION_MODE" /\ Order(MoveTo(j, ref), {j}, {j})
relativeMove(j, delta) ==
  controlMode = "POSITION_MODE" /\ LET target == Plus(encRaw[j], delta) IN Order(MoveTo(j, target), {j}, {j})

\* The joint that has farthest to go takes the reference speed, the others arrive with it.
Proportional(d, farthest) ==
  IF farthest = 0 THEN NaN
  ELSE IF NaN \in {d, farthest} THEN NaN
  ELSE LET up == (Abs(d) * Speed + farthest - 1) \div farthest IN IF d < 0 THEN -up ELSE up
OrZero(v) == IF v = NaN THEN 0 ELSE v

\* Every joint, also when a list of some is asked for ("must implement mask").
positionMoveAll(refs) ==
  /\ controlMode = "POSITION_MODE"
  /\ LET dist(j) == Plus(refs[j], IF encRaw[j] = NaN THEN NaN ELSE -encRaw[j])
         farthest == Max({0} \cup {Abs(dist(j)) : j \in {i \in Joints : dist(i) # NaN}})
         near(j) == Above(Tol, Distance(refs[j], encRaw[j]))
         each(j) == <<Assign("target", j, refs[j])>>
                      \o Go(j, OrZero(Proportional(dist(j), farthest)), POSITION_MOVE)
                      \o (IF near(j) THEN Stop(j) ELSE <<>>)
     IN  Order(FlattenSeq([j \in Joints |-> each(j)]), Joints, Joints)

\* No protection against no distance at all, and a joint that has nowhere to go is moving, too.
relativeMoveAll(deltas) ==
  /\ controlMode = "POSITION_MODE"
  /\ LET farthest == Max({Abs(deltas[j]) : j \in Joints})
         each(j) == <<Assign("target", j, Plus(encRaw[j], deltas[j]))>>
                      \o Go(j, Proportional(deltas[j], farthest), POSITION_MOVE)
     IN  Order(FlattenSeq([j \in Joints |-> each(j)]), Joints, {j \in Joints : deltas[j] # 0})

velocityMove(j, sp) == controlMode = "VELOCITY_MODE" /\ Order(Go(j, sp, VELOCITY_MOVE), {j}, {})
\* All joints, or a list: the list is not looked at either.
velocityMoveAll(sps) ==
  LET each(j) == Go(j, sps[j], VELOCITY_MOVE)
  IN  controlMode = "VELOCITY_MODE" /\ Order(FlattenSeq([j \in Joints |-> each(j)]), Joints, {})

stop(j) == Order(Stop(j), {j}, {})
stopAll == Order(FlattenSeq([j \in Joints |-> Stop(j)]), Joints, {})

\* The encoder is set at once, under the mutex; joints do not know.
resetEncoder(j) ==
  /\ todo = <<>> /\ orders < MaxOrders
  /\ encRaw' = [encRaw EXCEPT ![j] = 0]
  /\ orders' = orders + 1
  /\ goal' = [goal EXCEPT ![j] = FALSE]
  /\ UNCHANGED <<controlMode, velRaw, jointStatus, targetExposed, todo, run, raced>>

\* The next assignment of the call in progress.
Proceed ==
  /\ todo # <<>> /\ todo' = Tail(todo)
  /\ LET a == Head(todo)
         set(var, what) == IF a.what = what THEN [var EXCEPT ![a.joint] = a.value] ELSE var
     IN  /\ targetExposed' = set(targetExposed, "target")
         /\ velRaw' = set(velRaw, "vel")
         /\ jointStatus' = set(jointStatus, "status")
  /\ UNCHANGED <<controlMode, encRaw, run, goal, orders, raced>>

Client ==
  \/ \E j \in Joints : \/ \E ref \in Refs : positionMove(j, ref)
                       \/ \E delta \in Deltas : relativeMove(j, delta)
                       \/ \E sp \in {-Speed, 0, Speed} : velocityMove(j, sp)
                       \/ stop(j)
                       \/ resetEncoder(j)
  \/ \E refs \in [Joints -> Refs] : positionMoveAll(refs)
  \/ \E deltas \in [Joints -> Deltas] : relativeMoveAll(deltas)
  \/ \E sps \in [Joints -> {-Speed, Speed}] : velocityMoveAll(sps)
  \/ stopAll

-----------------------------------------------------------------------------
(* run, once per period *)

Thread(from, to) == phase = from /\ phase' = to
Rest == UNCHANGED <<controlMode, targetExposed, todo, orders>>

\* A call is shorter than a period: none is still going on when the next one begins.
getEncsRaw ==
  /\ todo = <<>>
  /\ Thread("idle", "expose") /\ encsRaw' = encRaw
  /\ Rest /\ UNCHANGED <<encRaw, velRaw, jointStatus, motor, encsExposed, goal, raced>>

getEncsExposed ==
  /\ Thread("expose", "move") /\ encsExposed' = encRaw /\ motor' = 1
  /\ Rest /\ UNCHANGED <<encRaw, velRaw, jointStatus, encsRaw, goal, raced>>

Move ==
  /\ Thread("move", "check")
  /\ encsRaw' = [encsRaw EXCEPT ![motor] = Followed(Plus(@, velRaw[motor]))]
  /\ Rest /\ UNCHANGED <<encRaw, velRaw, jointStatus, motor, encsExposed, goal, raced>>

AtLimit(j) ==
  \/ Above(encsExposed[j], MaxLimit) /\ Above(velRaw[j], 0)
  \/ Above(MinLimit, encsExposed[j]) /\ Above(0, velRaw[j])

\* Mutation: the tolerance on the wrong side, for joints that go back.
ReachedLate(j) ==
  \/ Above(velRaw[j], 0) /\ Above(encsExposed[j], targetExposed[j] - Tol)
  \/ Above(0, velRaw[j]) /\ Above(targetExposed[j] - Tol, encsExposed[j])

AtTarget(j) ==
  \/ Above(velRaw[j], 0) /\ Above(encsExposed[j], Plus(targetExposed[j], -Tol))
  \/ Above(0, velRaw[j]) /\ Above(Plus(targetExposed[j], Tol), encsExposed[j])

NextMotor == IF motor = Axes THEN phase' = "write" /\ motor' = motor
                             ELSE phase' = "move" /\ motor' = motor + 1

Check ==
  /\ phase = "check"
  /\ LET stops == /\ jointStatus[motor] # NOT_CONTROLLING
                  /\ AtLimit(motor) \/ (jointStatus[motor] = POSITION_MOVE /\ AtTarget(motor))
     IN  /\ IF stops THEN phase' = "stop" /\ UNCHANGED motor ELSE NextMotor
         /\ goal' = [goal EXCEPT ![motor] = @ /\ ~(stops /\ AtLimit(motor))]
         /\ raced' = [raced EXCEPT ![motor] = @ \/ (stops /\ InHand(motor))]
  /\ Rest /\ UNCHANGED <<encRaw, velRaw, jointStatus, encsRaw, encsExposed>>

StopVelocity ==
  /\ Thread("stop", "stopped") /\ velRaw' = [velRaw EXCEPT ![motor] = 0]
  /\ Rest /\ UNCHANGED <<encRaw, jointStatus, motor, encsRaw, encsExposed, goal, raced>>

StopStatus ==
  /\ phase = "stopped" /\ jointStatus' = [jointStatus EXCEPT ![motor] = NOT_CONTROLLING] /\ NextMotor
  /\ Rest /\ UNCHANGED <<encRaw, velRaw, encsRaw, encsExposed, goal, raced>>

setEncsRaw ==
  /\ Thread("write", "idle") /\ encRaw' = encsRaw
  /\ Rest /\ UNCHANGED <<velRaw, jointStatus, motor, encsRaw, encsExposed, goal, raced>>

Run == getEncsRaw \/ getEncsExposed \/ Move \/ Check \/ StopVelocity \/ StopStatus \/ setEncsRaw

Next == Client \/ Proceed \/ Run

Spec == Init /\ [][Next]_vars
\* The timer of the periodic thread and the scheduler.
FairSpec == Spec /\ WF_vars(Run) /\ WF_vars(Proceed)

-----------------------------------------------------------------------------
(* Properties *)

TypeOK ==
  /\ \A j \in Joints : /\ encRaw[j] \in Int /\ velRaw[j] \in {NaN} \cup -Speed..Speed
                       /\ jointStatus[j] \in {NOT_CONTROLLING, POSITION_MOVE, VELOCITY_MOVE}
  /\ phase \in {"idle", "expose", "move", "check", "stop", "stopped", "write"} /\ motor \in Joints
  /\ orders \in 0..MaxOrders

\* A joint that a call has set and the thread has not stopped meanwhile.
Quiet(j) == ~raced[j] /\ ~InHand(j) /\ phase = "idle"

\* A joint that says that its motion is done is at the target of the last move. It
\* may be off by two periods of motion less the tolerance (it is seen to have
\* arrived a period late, and moved once more when it is stopped), or by the
\* tolerance and a period that was under way when the move was asked for. The
\* exception are joints that a call dealt with while the thread was about to stop
\* them.
DoneAtTarget ==
  \A j \in Joints :
    Quiet(j) /\ goal[j] /\ encRaw[j] # NaN /\ jointStatus[j] = NOT_CONTROLLING =>
      Distance(encRaw[j], targetExposed[j]) <= Max({Tol + Speed - 1, 2 * Speed - Tol})

\* A joint is seen to be past a limit a period late and stopped after one more,
\* and each order to go on moves it again: two periods of motion per order at most,
\* the second for a velocity that was set when the state was not yet.
LimitsHold ==
  \A j \in Joints : ~raced[j] /\ encRaw[j] # NaN =>
    /\ encRaw[j] <= MaxLimit + 2 * Speed * orders
    /\ encRaw[j] >= MinLimit - 2 * Speed * orders

\* Joints stop at their target and do not leave their limits behind, give or take
\* what the thread needs to notice.
StopsInTime == DoneAtTarget /\ LimitsHold

\* A move to a target ends, at the target or at a limit, unless a call raced with
\* a stop or something made the encoder meaningless. (A joint with nothing to go
\* in a relativeMove of all joints never ends; it is on no way to a target.)
MoveEnded(j) == ~goal[j] \/ (jointStatus[j] = NOT_CONTROLLING /\ ~InHand(j)) \/ raced[j] \/ encRaw[j] = NaN
MovesEnd == \A j \in Joints : goal[j] ~> MoveEnded(j)
=============================================================================
