--------------------------- MODULE JointCalibrator ---------------------------
(***************************************************************************)
(* JointCalibrator: homing and parking as one procedure, move, on a device  *)
(* with several axes. It saves the reference speeds and accelerations of    *)
(* the joints, sets those of the procedure, moves, waits and puts back what *)
(* it saved. Several threads of a port may call; nothing keeps them apart,  *)
(* and every call of the device may fail.                                  *)
(*                                                                         *)
(* Positions, speeds and accelerations are few numbers, the tolerance of    *)
(* 0.01 degrees is zero. The device is external: it moves joints one unit   *)
(* at a time or stops short of the target; an order for a list of joints    *)
(* that fails may have reached some of them.                               *)
(***************************************************************************)
EXTENDS Integers, Sequences, FiniteSets

CONSTANTS Axes, Clients,
          Places,      \* positions of joints
          Homing,      \* what homing may be configured with: pos, vel and acc of each joint
          Parking,     \* the same for parking
          Usual,       \* the reference speed and acceleration before
          MaxCalls,    \* bound: calls
          MaxFailures  \* bound: calls of the device that fail

Joints == 0..(Axes - 1)

VARIABLES
  phase,      \* "closed", "opened", "attached"
  specs,      \* homeSpecs, parkSpecs
  pos, target, refSpeed, refAcc,  \* the device, for each joint
  call,       \* each client's procedure
  calls, failures,
  spoiled,    \* ghost: a procedure failed after it had begun to change settings
  crossed     \* ghost: two procedures had a joint in common

device == <<pos, target, refSpeed, refAcc>>
vars == <<phase, specs, device, call, calls, failures, spoiled, crossed>>

NoCall == [at |-> "none", kind |-> "home", ids |-> {}, speeds |-> <<>>, accs |-> <<>>, ok |-> TRUE]
Still == -1

Init ==
  /\ phase = "closed" /\ specs = <<>>
  /\ pos \in [Joints -> Places] /\ target = [j \in Joints |-> Still]
  /\ refSpeed = [j \in Joints |-> Usual] /\ refAcc = [j \in Joints |-> Usual]
  /\ call = [c \in Clients |-> NoCall] /\ calls = 0 /\ failures = 0
  /\ spoiled = FALSE /\ crossed = FALSE

\* checkAndSet: one value for all joints or a list of values, whose size nobody checks;
\* what is read beyond a list that is too short is one of the values as well.
open ==
  /\ phase = "closed" /\ phase' = "opened"
  /\ \E h \in Homing, p \in Parking : specs' = [home |-> h, park |-> p]
  /\ UNCHANGED <<device, call, calls, failures, spoiled, crossed>>

attach ==
  /\ phase = "opened" /\ phase' = "attached"
  /\ UNCHANGED <<specs, device, call, calls, failures, spoiled, crossed>>

-----------------------------------------------------------------------------
(* The procedure *)

At(c, step) == call[c].at = step
Spec1(c) == specs[call[c].kind]

\* homingSingleJoint, parkSingleJoint, homingWholePart, parkWholePart; a joint that is out
\* of range is refused before anything else.
Begin(c) ==
  /\ phase = "attached" /\ At(c, "none") /\ calls < MaxCalls /\ calls' = calls + 1
  /\ \E k \in {"home", "park"}, js \in {{j} : j \in Joints} \cup {Joints} :
       call' = [call EXCEPT ![c] = [NoCall EXCEPT !.at = "encoders", !.kind = k, !.ids = js]]
  /\ UNCHANGED <<phase, specs, device, failures, spoiled, crossed>>

\* calibrateSingleJoint, calibrateWholePart, quitCalibrate, quitPark: false and nothing else.
Unsupported(c) == phase = "attached" /\ At(c, "none") /\ UNCHANGED vars

GoTo(c, step) == call' = [call EXCEPT ![c].at = step]

\* Joints that are where they should be stay out; without any left the answer is true.
Encoders(c) ==
  /\ At(c, "encoders")
  /\ LET ids == {j \in call[c].ids : pos[j] # Spec1(c).pos[j]}
     IN  /\ call' = [call EXCEPT ![c] = IF ids = {} THEN NoCall ELSE [@ EXCEPT !.ids = ids, !.at = "getSpeeds"]]
         /\ crossed' = (crossed \/ \E d \in Clients \ {c} :
                                     ~At(d, "none") /\ ~At(d, "encoders") /\ ids \cap call[d].ids # {})
  /\ UNCHANGED <<phase, specs, device, calls, failures, spoiled>>

Saves(c) ==
  /\ \/ At(c, "getSpeeds") /\ call' = [call EXCEPT ![c].speeds = refSpeed, ![c].at = "getAccs"]
     \/ At(c, "getAccs") /\ call' = [call EXCEPT ![c].accs = refAcc, ![c].at = "mode"]
     \/ At(c, "mode") /\ GoTo(c, "setSpeeds")
  /\ UNCHANGED <<phase, specs, device, calls, failures, spoiled, crossed>>

\* A value for each joint of a set.
Put(old, js, new) == [j \in Joints |-> IF j \in js THEN new[j] ELSE old[j]]

SetsUp(c) ==
  /\ \/ /\ At(c, "setSpeeds") /\ GoTo(c, "setAccs")
        /\ refSpeed' = Put(refSpeed, call[c].ids, Spec1(c).vel) /\ UNCHANGED <<pos, target, refAcc>>
     \/ /\ At(c, "setAccs") /\ GoTo(c, "move")
        /\ refAcc' = Put(refAcc, call[c].ids, Spec1(c).acc) /\ UNCHANGED <<pos, target, refSpeed>>
     \/ /\ At(c, "move") /\ GoTo(c, "wait")
        /\ target' = Put(target, call[c].ids, Spec1(c).pos) /\ UNCHANGED <<pos, refSpeed, refAcc>>
  /\ UNCHANGED <<phase, specs, calls, failures, spoiled, crossed>>

\* A failure before the joints move ends the procedure, and what it has set remains.
Fails(c, some) ==
  CASE At(c, "setSpeeds") -> refSpeed' = Put(refSpeed, some, Spec1(c).vel) /\ UNCHANGED <<pos, target, refAcc>>
    [] At(c, "setAccs") -> refAcc' = Put(refAcc, some, Spec1(c).acc) /\ UNCHANGED <<pos, target, refSpeed>>
    [] At(c, "move") -> target' = Put(target, some, Spec1(c).pos) /\ UNCHANGED <<pos, refSpeed, refAcc>>
    [] OTHER -> UNCHANGED device
Abandon(c) ==
  /\ call[c].at \in {"encoders", "getSpeeds", "getAccs", "mode", "setSpeeds", "setAccs", "move"}
  /\ failures < MaxFailures /\ failures' = failures + 1
  /\ \E some \in SUBSET call[c].ids : Fails(c, some)
  /\ spoiled' = (spoiled \/ call[c].at \in {"setSpeeds", "setAccs", "move"})
  /\ call' = [call EXCEPT ![c] = NoCall]
  /\ UNCHANGED <<phase, specs, calls, crossed>>

\* checkMotionDone, over and over.
Wait(c) ==
  /\ At(c, "wait") /\ \A j \in call[c].ids : target[j] = Still
  /\ GoTo(c, "compare")
  /\ UNCHANGED <<phase, specs, device, calls, failures, spoiled, crossed>>

Compare(c) ==
  /\ At(c, "compare")
  /\ call' = [call EXCEPT ![c].ok = @ /\ \A j \in call[c].ids : pos[j] = Spec1(c).pos[j],
                          ![c].at = "restoreSpeeds"]
  /\ UNCHANGED <<phase, specs, device, calls, failures, spoiled, crossed>>

\* From here on a failure changes the answer only.
FailsLater(c) ==
  /\ failures < MaxFailures /\ failures' = failures + 1
  /\ \/ At(c, "wait") /\ call' = [call EXCEPT ![c].ok = FALSE, ![c].at = "compare"]
     \/ At(c, "compare") /\ call' = [call EXCEPT ![c].ok = FALSE, ![c].at = "restoreSpeeds"]
     \/ At(c, "restoreSpeeds") /\ call' = [call EXCEPT ![c].ok = FALSE, ![c].at = "restoreAccs"]
     \/ At(c, "restoreAccs") /\ call' = [call EXCEPT ![c].ok = FALSE, ![c].at = "return"]
  /\ \E some \in SUBSET call[c].ids :
       /\ refSpeed' = IF At(c, "restoreSpeeds") THEN Put(refSpeed, some, call[c].speeds) ELSE refSpeed
       /\ refAcc' = IF At(c, "restoreAccs") THEN Put(refAcc, some, call[c].accs) ELSE refAcc
  /\ spoiled' = (spoiled \/ call[c].at \in {"restoreSpeeds", "restoreAccs"})
  /\ UNCHANGED <<phase, specs, pos, target, calls, crossed>>

RestoreSpeeds(c) ==
  /\ At(c, "restoreSpeeds") /\ GoTo(c, "restoreAccs")
  /\ refSpeed' = Put(refSpeed, call[c].ids, call[c].speeds)
  /\ UNCHANGED <<phase, specs, pos, target, refAcc, calls, failures, spoiled, crossed>>
RestoreAccs(c) ==
  /\ At(c, "restoreAccs") /\ GoTo(c, "return")
  /\ refAcc' = Put(refAcc, call[c].ids, call[c].accs)
  /\ UNCHANGED <<phase, specs, pos, target, refSpeed, calls, failures, spoiled, crossed>>

Return(c) ==
  /\ At(c, "return") /\ call' = [call EXCEPT ![c] = NoCall]
  /\ UNCHANGED <<phase, specs, device, calls, failures, spoiled, crossed>>

\* External: a joint goes on, gets there, or stops short of it.
Travel(j) ==
  /\ target[j] # Still
  /\ \/ /\ pos[j] # target[j]
        /\ pos' = [pos EXCEPT ![j] = IF @ < target[j] THEN @ + 1 ELSE @ - 1] /\ UNCHANGED target
     \/ target' = [target EXCEPT ![j] = Still] /\ UNCHANGED pos
  /\ UNCHANGED <<phase, specs, refSpeed, refAcc, call, calls, failures, spoiled, crossed>>

Next ==
  \/ open \/ attach \/ \E j \in Joints : Travel(j)
  \/ \E c \in Clients :
       \/ Begin(c) \/ Unsupported(c) \/ Encoders(c) \/ Saves(c) \/ SetsUp(c) \/ Abandon(c) \/ Wait(c) \/ Compare(c)
       \/ FailsLater(c) \/ RestoreSpeeds(c) \/ RestoreAccs(c) \/ Return(c)

Spec == Init /\ [][Next]_vars

-----------------------------------------------------------------------------
(* Properties *)

TypeOK ==
  /\ phase \in {"closed", "opened", "attached"} /\ calls <= MaxCalls /\ failures <= MaxFailures
  /\ \A j \in Joints : pos[j] \in Places /\ target[j] \in Places \cup {Still}
  /\ \A c \in Clients : call[c].ids \subseteq Joints

\* A procedure that reached its end, also one that answers false, has put the speeds and
\* accelerations of its joints back, whatever other joints did meanwhile; only one that
\* failed on the way, or two that met at a joint, leave the device with those of homing.
SpeedsComeBack ==
  ~spoiled /\ ~crossed =>
    \A j \in Joints :
      (\A c \in Clients : At(c, "none") \/ j \notin call[c].ids) => refSpeed[j] = Usual /\ refAcc[j] = Usual

\* A procedure about to answer true has its joints where they belong, unless another one
\* had them as well.
HomedIsHome ==
  ~crossed => \A c \in Clients : At(c, "return") /\ call[c].ok => \A j \in call[c].ids : pos[j] = Spec1(c).pos[j]
=============================================================================
