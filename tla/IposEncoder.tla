----------------------------- MODULE IposEncoder -----------------------------
(***************************************************************************)
(* TechnosoftIpos, the encoder: the drive sends its position with every     *)
(* SYNC, the reader thread keeps it together with a speed and a time        *)
(* (EncoderRead, a mutex around each access), clients ask for it as an axis *)
(* or as a motor, or give the drive another one. To set a position is a     *)
(* transfer and then an assignment, and frames sent before may come after.  *)
(*                                                                         *)
(* Positions are whole internal units; scale and reverse relate them to     *)
(* degrees, a motor has only the latter. Speed and acceleration are told    *)
(* apart by the positions they are made of, time is counted in updates.     *)
(***************************************************************************)
EXTENDS Integers, Sequences

CONSTANTS Clients, Degrees, Scale,
          Span,      \* bound: the drive stays within as many units of zero
          MaxFrames, \* bound: frames with a position
          MaxCalls   \* bound: calls that set a position or ask for one with its time

VARIABLES
  reverse,
  last,     \* EncoderRead: position, the one before that the speed comes from, time
  call,     \* each client
  drive,    \* external: the position
  toHost, frames, calls,
  unsent,   \* ghost: the position of the drive is not that of the last frame or transfer
  crossed   \* ghost: the last frame was sent before a position was set that the host has

vars == <<reverse, last, call, drive, toHost, frames, calls, unsent, crossed>>

Sign == IF reverse THEN -1 ELSE 1
degreesToInternalUnits(v) == v * Scale * Sign
\* The inverse, for positions that are multiples; the code has fractions.
internalUnitsToDegrees(p) == Sign * (p \div Scale)

NoCall == [at |-> "idle", data |-> 0, of |-> 0, time |-> 0]

\* Configured when it is opened; position zero until a frame comes.
Init ==
  /\ reverse \in BOOLEAN /\ last = [position |-> 0, before |-> 0, time |-> 0]
  /\ call = [c \in Clients |-> NoCall] /\ drive = 0 /\ toHost = <<>> /\ frames = 0 /\ calls = 0
  /\ unsent = TRUE /\ crossed = FALSE

update(p) == last' = [position |-> p, before |-> last.position, time |-> last.time + 1]
reset(p) == last' = [position |-> p, before |-> p, time |-> last.time + 1]

-----------------------------------------------------------------------------
(* Calls *)

Begins(c, first) ==
  /\ call[c].at = "idle" /\ calls < MaxCalls /\ calls' = calls + 1
  /\ call' = [call EXCEPT ![c] = first]
  /\ UNCHANGED <<reverse, last, drive, toHost, frames, unsent, crossed>>

\* As an axis; a reset is a zero, and the lists are the first element.
setEncoderRaw(c) ==
  \E v \in Degrees : Begins(c, [NoCall EXCEPT !.at = "download", !.data = degreesToInternalUnits(v)])
\* As a motor, in internal units with the sign of the axis.
setMotorEncoderRaw(c) ==
  \E v \in Degrees : Begins(c, [NoCall EXCEPT !.at = "download", !.data = v * Sign])

\* External to the host: the drive takes the position ...
Takes(c) ==
  /\ call[c].at = "download" /\ drive' = call[c].data /\ unsent' = FALSE
  /\ call' = [call EXCEPT ![c].at = "downloaded"]
  /\ UNCHANGED <<reverse, last, toHost, frames, calls, crossed>>

\* ... and the answer comes, comes too late, or the drive refuses.
Fails(c) ==
  /\ call[c].at \in {"download", "downloaded"}
  /\ call' = [call EXCEPT ![c] = NoCall]
  /\ unsent' = (unsent \/ call[c].at = "downloaded")
  /\ UNCHANGED <<reverse, last, drive, toHost, frames, calls, crossed>>
Reset(c) ==
  /\ call[c].at = "downloaded" /\ reset(call[c].data)
  /\ call' = [call EXCEPT ![c] = NoCall]
  /\ unsent' = (unsent \/ drive # call[c].data)
  /\ crossed' = FALSE
  /\ toHost' = [i \in 1..Len(toHost) |-> [toHost[i] EXCEPT !.old = TRUE]]
  /\ UNCHANGED <<reverse, drive, frames, calls>>

\* getEncoderTimedRaw, getMotorEncoderTimedRaw: the position (that of time "of"), and then
\* the time.
getEncoderTimedRaw(c) == Begins(c, [NoCall EXCEPT !.at = "timed", !.of = last.time])
QueryTime(c) ==
  /\ call[c].at = "timed" /\ call' = [call EXCEPT ![c].at = "got", ![c].time = last.time]
  /\ UNCHANGED <<reverse, last, drive, toHost, frames, calls, unsent, crossed>>
Return(c) ==
  /\ call[c].at = "got" /\ call' = [call EXCEPT ![c] = NoCall]
  /\ UNCHANGED <<reverse, last, drive, toHost, frames, calls, unsent, crossed>>

\* The getters without a time are one access each: position, speed, acceleration of the
\* axis and the motor. (getMotorEncodersRaw answers with the speed of the motor.)
getEncoderRaw == internalUnitsToDegrees(last.position)
getMotorEncoderRaw == Sign * last.position
getMotorEncodersRaw == Sign * (last.position - last.before)
Ask(c) == call[c].at = "idle" /\ UNCHANGED vars

-----------------------------------------------------------------------------
(* Frames *)

\* External: the drive moves, and sends where it is.
Moves ==
  /\ drive' \in {drive - 1, drive + 1} \cap -Span..Span /\ unsent' = TRUE
  /\ UNCHANGED <<reverse, last, call, toHost, frames, calls, crossed>>
Sends ==
  /\ frames < MaxFrames /\ frames' = frames + 1
  /\ toHost' = Append(toHost, [position |-> drive, old |-> FALSE]) /\ unsent' = FALSE
  /\ UNCHANGED <<reverse, last, call, drive, calls, crossed>>

handleTpdo3 ==
  /\ toHost # <<>> /\ toHost' = Tail(toHost)
  /\ update(Head(toHost).position)
  /\ crossed' = Head(toHost).old
  /\ UNCHANGED <<reverse, call, drive, frames, calls, unsent>>

Next ==
  \/ \E c \in Clients : \/ setEncoderRaw(c) \/ setMotorEncoderRaw(c) \/ Takes(c) \/ Fails(c) \/ Reset(c)
                        \/ getEncoderTimedRaw(c) \/ QueryTime(c) \/ Return(c) \/ Ask(c)
  \/ Moves \/ Sends \/ handleTpdo3

Spec == Init /\ [][Next]_vars

-----------------------------------------------------------------------------
(* Properties *)

TypeOK ==
  /\ frames <= MaxFrames /\ calls <= MaxCalls /\ Len(toHost) <= MaxFrames
  /\ \A c \in Clients : call[c].at \in {"idle", "download", "downloaded", "timed", "got"}
  /\ last.position \in Int /\ drive \in Int

\* When nothing is on its way and the drive has not moved since it was last heard or set,
\* the host has its position, and the axis and the motor agree on it; the exception is a
\* frame that was sent before a position was set and came after, until the next one.
PositionIsDrives ==
  toHost = <<>> /\ ~unsent /\ ~crossed /\ (\A c \in Clients : call[c].at = "idle") =>
    /\ last.position = drive
    /\ getMotorEncoderRaw = Sign * drive
    /\ \A v \in Degrees : drive = degreesToInternalUnits(v) => getEncoderRaw = v

\* A position comes with its own time or a later one.
TimeNotBefore == \A c \in Clients : call[c].at = "got" => call[c].time >= call[c].of
=============================================================================
