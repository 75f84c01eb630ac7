---------------------------- MODULE IposTargets ----------------------------
(***************************************************************************)
(* TechnosoftIpos: the target of the cyclic modes. Calls check the mode and *)
(* store a target, changes of mode prepare it, and once per SYNC period the *)
(* SYNC thread sends it, in direct positions not farther from the target    *)
(* before than the maximum velocity allows. All of these variables are      *)
(* atomic, each for itself.                                                 *)
(*                                                                         *)
(* Interpolated positions are in IpBuffer, the steps of a change of mode    *)
(* and cyclic velocities by positions (enableCsv) in IposNode. Drive and    *)
(* reader are external: a mode that was selected is shown at some time.     *)
(***************************************************************************)
EXTENDS Integers

CONSTANTS Clients,
          Refs,      \* what is asked for, in the units of any mode
          MaxVel,    \* maxVel
          MaxStep,   \* maxVel * syncPeriod
          MaxRefused \* bound: setpoints in a row that the queue refuses

ASSUME UnitsAssumption ==
  Refs \subseteq Int /\ MaxVel \in Nat /\ MaxStep \in Nat /\ MaxRefused \in Nat

VARIABLES
  actualControlMode, requestedControlMode, enableSync,
  synchronousCommandTarget, prevSyncTarget,
  halt,    \* bit 8 of the stored controlword
  encoder, \* the position in lastEncoderRead
  client,    \* each client: what its call does next, the mode and the value it is about
  sync,    \* the SYNC thread: what it does next, and what it has read
  sent,    \* the last direct position that was sent, or where direct positions began
  refused, \* ghost: direct positions that were refused since
  torn     \* ghost: a client wrote to target or previous target while the SYNC thread used them

shared == <<actualControlMode, requestedControlMode, enableSync>>
observed == <<sent, refused, torn>>
targetsVars == <<shared, synchronousCommandTarget, prevSyncTarget, halt, encoder, client, sync, observed>>

Cyclic == {"VELOCITY", "TORQUE", "CURRENT", "POSITION_DIRECT"}
ExtRefTorque == {"TORQUE", "CURRENT"}
Modes == Cyclic \cup {"POSITION", "IDLE"}

Call(at, mode, value) == [at |-> at, mode |-> mode, value |-> value]
NoCall == Call("idle", "IDLE", 0)
Reading(at, requested, previous) == [at |-> at, requested |-> requested, previous |-> previous]
Asleep == Reading("idle", 0, 0)
Abs(x) == IF x < 0 THEN -x ELSE x
sgn(x) == IF x > 0 THEN 1 ELSE IF x < 0 THEN -1 ELSE 0
Clamp(x, most) == IF Abs(x) > most THEN sgn(x) * most ELSE x

TargetsInit ==
  /\ actualControlMode = "IDLE" /\ requestedControlMode = "IDLE" /\ enableSync = FALSE
  /\ synchronousCommandTarget = 0 /\ prevSyncTarget = 0 /\ halt = FALSE /\ encoder = 0
  /\ client = [c \in Clients |-> NoCall] /\ sync = Asleep
  /\ sent = 0 /\ refused = 0 /\ torn = FALSE

Becomes(c, next) == client' = [client EXCEPT ![c] = next]
\* What another thread uses meanwhile: the SYNC thread between its reads and its writes,
\* or a change of mode, one of which prepares what the other has begun to use.
Crosses(c) == \E d \in Clients \ {c} : client[d] # NoCall
Tears(c) == Crosses(c) \/ sync.at \in {"previous", "store", "write"}
Overlaps(c) == Crosses(c) \/ sync # Asleep \/ actualControlMode = "POSITION_DIRECT"

-----------------------------------------------------------------------------
(* Setpoints *)

\* setPosition, velocityMove, setRefTorque, setRefCurrent: CHECK_MODE, and what is stored.
SetRef(c, mode, ref) ==
  /\ client[c] = NoCall /\ mode \in Cyclic /\ actualControlMode = mode
  /\ Becomes(c, Call(IF mode = "VELOCITY" THEN "unhalt" ELSE "store", mode,
                     IF mode = "VELOCITY" THEN Clamp(ref, MaxVel) ELSE ref))
  /\ UNCHANGED <<shared, synchronousCommandTarget, prevSyncTarget, halt, encoder, sync, observed>>

\* velocityMove resets the halt bit before it goes on, if that is accepted.
Unhalt(c, accepted) ==
  /\ client[c].at = "unhalt"
  /\ halt' = (halt /\ ~accepted)
  /\ Becomes(c, IF halt /\ ~accepted THEN NoCall ELSE [client[c] EXCEPT !.at = "store"])
  /\ UNCHANGED <<shared, synchronousCommandTarget, prevSyncTarget, encoder, sync, observed>>

\* stop, in the modes that have a halt: the bit, then no velocity.
Stop(c) ==
  /\ client[c] = NoCall /\ actualControlMode \in {"POSITION", "VELOCITY"}
  /\ halt' = TRUE
  /\ Becomes(c, Call("store", actualControlMode, 0))
  /\ UNCHANGED <<shared, synchronousCommandTarget, prevSyncTarget, encoder, sync, observed>>

StoreTarget(c) ==
  /\ client[c].at = "store"
  /\ synchronousCommandTarget' = client[c].value
  /\ torn' = (torn \/ Tears(c)) /\ Becomes(c, NoCall)
  /\ UNCHANGED <<shared, prevSyncTarget, halt, encoder, sync, sent, refused>>

-----------------------------------------------------------------------------
(* setControlMode *)

\* Torque and current are one mode of the drive: the target stays.
AlreadyThere(c, mode) ==
  /\ client[c] = NoCall
  /\ mode = actualControlMode \/ {mode, actualControlMode} \subseteq ExtRefTorque
  /\ requestedControlMode' = mode /\ actualControlMode' = mode
  /\ UNCHANGED <<enableSync, synchronousCommandTarget, prevSyncTarget, halt, encoder, client, sync, observed>>

Leave(c, mode) ==
  /\ client[c] = NoCall
  /\ mode # actualControlMode /\ ~{mode, actualControlMode} \subseteq ExtRefTorque
  /\ requestedControlMode' = mode /\ enableSync' = FALSE /\ halt' = FALSE
  /\ Becomes(c, Call(IF mode \in Cyclic THEN "prepare" ELSE "await", mode, 0))
  /\ UNCHANGED <<actualControlMode, synchronousCommandTarget, prevSyncTarget, encoder, sync, observed>>

\* Homing mode in between, to leave external torques or velocities (a bug of the firmware).
ShowHoming(c) ==
  /\ client[c].at \in {"prepare", "await"}
  /\ actualControlMode \in ExtRefTorque \/ (actualControlMode = "VELOCITY" /\ client[c].mode = "POSITION_DIRECT")
  /\ actualControlMode' = "UNKNOWN"
  /\ UNCHANGED <<requestedControlMode, enableSync, synchronousCommandTarget, prevSyncTarget, halt, encoder>>
  /\ UNCHANGED <<client, sync, observed>>

\* Direct positions begin where the joint is.
PrepareTarget(c, next) ==
  /\ client[c].at = "prepare" /\ Becomes(c, [client[c] EXCEPT !.at = next])
  /\ IF client[c].mode = "POSITION_DIRECT"
     THEN synchronousCommandTarget' = encoder /\ sent' = encoder /\ refused' = 0 /\ torn' = Overlaps(c)
     ELSE synchronousCommandTarget' = 0 /\ torn' = (torn \/ Overlaps(c)) /\ UNCHANGED <<sent, refused>>
  /\ UNCHANGED <<shared, prevSyncTarget, halt, encoder, sync>>

\* Mutation: the target before is left as it was.
PrepareTargetOnly(c) == PrepareTarget(c, "await")
Prepare(c) == PrepareTarget(c, IF client[c].mode = "POSITION_DIRECT" THEN "previous" ELSE "await")

PreparePrevious(c) ==
  /\ client[c].at = "previous" /\ Becomes(c, [client[c] EXCEPT !.at = "await"])
  /\ prevSyncTarget' = synchronousCommandTarget
  /\ torn' = (torn \/ Overlaps(c))
  /\ UNCHANGED <<shared, synchronousCommandTarget, halt, encoder, sync, sent, refused>>

\* interpretModesOfOperation, by the reader.
ShowMode(c) ==
  /\ client[c].at = "await"
  /\ actualControlMode' = (IF client[c].mode \in ExtRefTorque
                           THEN IF requestedControlMode = "TORQUE" THEN "TORQUE" ELSE "CURRENT"
                           ELSE client[c].mode)
  /\ enableSync' = (client[c].mode \in Cyclic)
  /\ Becomes(c, NoCall)
  /\ UNCHANGED <<requestedControlMode, synchronousCommandTarget, prevSyncTarget, halt, encoder, sync, observed>>

\* A step of the change fails.
Fail(c) ==
  /\ client[c].at \in {"prepare", "await"}
  /\ Becomes(c, NoCall)
  /\ UNCHANGED <<shared, synchronousCommandTarget, prevSyncTarget, halt, encoder, sync, observed>>

-----------------------------------------------------------------------------
(* synchronize *)

Wake ==
  /\ sync = Asleep /\ enableSync
  /\ sync' = Reading("mode", 0, 0)
  /\ UNCHANGED <<shared, synchronousCommandTarget, prevSyncTarget, halt, encoder, client, observed>>

\* Velocities, torques and currents are sent as they are.
LookAtMode ==
  /\ sync.at = "mode"
  /\ sync' = IF actualControlMode = "POSITION_DIRECT" THEN Reading("requested", 0, 0) ELSE Asleep
  /\ UNCHANGED <<shared, synchronousCommandTarget, prevSyncTarget, halt, encoder, client, observed>>

ReadTarget ==
  /\ sync.at = "requested"
  /\ sync' = Reading("previous", synchronousCommandTarget, 0)
  /\ UNCHANGED <<shared, synchronousCommandTarget, prevSyncTarget, halt, encoder, client, observed>>

ReadPrevious ==
  /\ sync.at = "previous"
  /\ sync' = [sync EXCEPT !.at = "store", !.previous = prevSyncTarget]
  /\ UNCHANGED <<shared, synchronousCommandTarget, prevSyncTarget, halt, encoder, client, observed>>

\* clipSyncPositionTarget. A target near enough is read once more for the next time.
Clip ==
  /\ sync.at = "store"
  /\ LET diff == sync.requested - sync.previous
         newTarget == sync.previous + sgn(diff) * MaxStep
         near == Abs(diff) <= MaxStep
     IN  /\ prevSyncTarget' = (IF near THEN synchronousCommandTarget ELSE newTarget)
         /\ sync' = [sync EXCEPT !.at = "write", !.requested = IF near THEN @ ELSE newTarget]
  /\ UNCHANGED <<shared, synchronousCommandTarget, halt, encoder, client, observed>>

SendTarget(accepted) ==
  /\ sync.at = "write" /\ (accepted \/ refused < MaxRefused)
  /\ sync' = Asleep
  /\ IF accepted THEN sent' = sync.requested /\ refused' = 0 ELSE refused' = refused + 1 /\ UNCHANGED sent
  /\ UNCHANGED <<shared, synchronousCommandTarget, prevSyncTarget, halt, encoder, client, torn>>

\* The joint moves: to the positions it is sent, or anywhere else.
Travel ==
  /\ encoder' \in (IF actualControlMode = "POSITION_DIRECT" THEN {sent} ELSE Refs)
  /\ UNCHANGED <<shared, synchronousCommandTarget, prevSyncTarget, halt, client, sync, observed>>

synchronize == Wake \/ LookAtMode \/ ReadTarget \/ ReadPrevious \/ Clip \/ \E accepted \in BOOLEAN : SendTarget(accepted)

TargetsNext ==
  \/ synchronize \/ Travel
  \/ \E c \in Clients :
       \/ \E mode \in Modes : (\E ref \in Refs : SetRef(c, mode, ref)) \/ AlreadyThere(c, mode) \/ Leave(c, mode)
       \/ \E accepted \in BOOLEAN : Unhalt(c, accepted)
       \/ Stop(c) \/ StoreTarget(c) \/ ShowHoming(c) \/ Prepare(c) \/ PreparePrevious(c) \/ ShowMode(c) \/ Fail(c)

TargetsSpec == TargetsInit /\ [][TargetsNext]_targetsVars

-----------------------------------------------------------------------------
(* Properties *)

TargetsTypeOK ==
  /\ actualControlMode \in Modes \cup {"UNKNOWN"} /\ requestedControlMode \in Modes
  /\ enableSync \in BOOLEAN /\ halt \in BOOLEAN /\ refused \in 0..MaxRefused
  /\ sync.at \in {"idle", "mode", "requested", "previous", "store", "write"}
  /\ \A c \in Clients : client[c].at \in {"idle", "unhalt", "store", "prepare", "previous", "await"}

\* What the next direct position may be: a step of the maximum velocity for it and
\* for each that was refused.
Reach == MaxStep * (1 + refused)

\* "Clip travelled distance according to the maximum velocity allowed": no direct
\* position is farther from the one before than that.
ClipsTravel == sync.at = "write" /\ actualControlMode = "POSITION_DIRECT" => Abs(sync.requested - sent) <= Reach

\* It is so unless a client has written a target while the SYNC thread was clipping one.
StepsAreBounded == ~torn => ClipsTravel
=============================================================================
