---------------------------- MODULE IposSettings ----------------------------
(***************************************************************************)
(* TechnosoftIpos: the settings a node keeps on both sides, as variables    *)
(* that survive a restart of the drive and as objects of the drive that do  *)
(* not. A setter downloads and then stores; the monitor thread, when the    *)
(* drive has restarted, calls the setters with what is stored. Nothing      *)
(* keeps a client and the monitor, or two clients, apart.                   *)
(*                                                                         *)
(* Objects are in internal units, which depend on the variables of motor,   *)
(* gearbox and encoder. How a node comes back is in IposNode, transfers are *)
(* in SdoClient: here one is accepted, refused, or has its effect and is    *)
(* taken for refused.                                                       *)
(***************************************************************************)
EXTENDS Integers, Sequences

CONSTANTS Users, MonitorThread,    \* threads of clients, and the one of the monitor
          Positions, Speeds, \* what limits and reference speeds or accelerations are set to
          Scales,            \* internal units per degree, without sign
          MaxCalls,          \* bound: calls of clients
          MaxReboots         \* bound: restarts of the drive

\* Checked with SettingsTypeOK.
SettingsFit ==
  /\ MonitorThread \notin Users
  /\ Positions \subseteq Int /\ Speeds \subseteq Nat /\ Scales \subseteq Nat \ {0}
  /\ MaxCalls \in Nat /\ MaxReboots \in Nat

VARIABLES
  stored,   \* min, max, refSpeed, refAcceleration
  maxVel, scale, reverse,
  controlMode,     \* "NOT_CONFIGURED", "CONFIGURED" (or any controlMode after it)
  dict,     \* the objects of the drive
  setting,     \* each thread: the settings it still has to make, and the one it has to store
  calls, reboots,
  unseen,   \* the drive has restarted and nobody knows
  doubtful, \* ghost: a setter failed and had its effect nevertheless
  mixed,     \* ghost: two threads made settings at once
  masked,   \* ghost: the drive restarted while it was being configured
  rescaled  \* ghost: the units changed since it was configured

settingsGhosts == <<doubtful, mixed, masked, rescaled>>
settingsVars == <<stored, maxVel, scale, reverse, controlMode, dict, setting, calls, reboots, unseen, settingsGhosts>>

Setters == Users \cup {MonitorThread}
Keys == {"min", "max", "refSpeed", "refAcceleration"}
Objects == {"607D.1", "607D.2", "6081", "6083"}
Nothing == [key |-> "none", value |-> 0]
NoSetting == [todo |-> <<>>, store |-> Nothing, failed |-> FALSE, busy |-> FALSE]
Set(k, v) == [key |-> k, value |-> v]

\* setLimitRaw: the axis of a motor that is mounted in reverse has its minimum at the
\* maximum of the motor.
ObjectOf(k) ==
  CASE k = "min" -> IF reverse THEN "607D.2" ELSE "607D.1"
    [] k = "max" -> IF reverse THEN "607D.1" ELSE "607D.2"
    [] k = "refSpeed" -> "6081"
    [] k = "refAcceleration" -> "6083"

\* degreesToInternalUnits; speeds and accelerations are sent without their sign.
Internal(k, v) == IF k \in {"min", "max"} /\ reverse THEN -v * scale ELSE v * scale

\* validateInitialState: what a device is opened with.
Valid(s, vel) == vel > 0 /\ s.refSpeed > 0 /\ s.refAcceleration > 0 /\ s.refSpeed <= vel /\ s.min < s.max

\* The getters of limits and reference values: of a drive that is not configured what is
\* stored, of any other one what it says.
getSetting(k) ==
  IF controlMode = "NOT_CONFIGURED" THEN stored[k]
  ELSE IF k \in {"min", "max"} /\ reverse THEN -(dict[ObjectOf(k)] \div scale)
  ELSE dict[ObjectOf(k)] \div scale

Factory == [o \in Objects |-> 0]

SettingsInit ==
  /\ stored \in [min : Positions, max : Positions, refSpeed : Speeds, refAcceleration : Speeds]
  /\ maxVel \in Speeds /\ Valid(stored, maxVel)
  /\ scale \in Scales /\ reverse \in BOOLEAN
  /\ controlMode = "NOT_CONFIGURED" /\ dict = Factory /\ setting = [t \in Setters |-> NoSetting]
  /\ calls = 0 /\ reboots = 0 /\ unseen = FALSE
  /\ doubtful = FALSE /\ mixed = FALSE /\ masked = FALSE /\ rescaled = FALSE

Busy(t) == setting[t].busy
BeginSetting(t, todo) ==
  /\ ~Busy(t)
  /\ setting' = [setting EXCEPT ![t] = [NoSetting EXCEPT !.todo = todo, !.busy = TRUE]]
  /\ mixed' = (mixed \/ \E u \in Setters : Busy(u))

-----------------------------------------------------------------------------
(* The setters *)

ClientSets(c, todo) ==
  /\ calls < MaxCalls /\ calls' = calls + 1 /\ BeginSetting(c, todo)
  /\ UNCHANGED <<stored, maxVel, scale, reverse, controlMode, dict, reboots, unseen, doubtful, masked, rescaled>>
setLimitsRaw(c) == \E lo, hi \in Positions : ClientSets(c, <<Set("min", lo), Set("max", hi)>>)
setRefSpeedRaw(c) == \E sp \in Speeds : ClientSets(c, <<Set("refSpeed", sp)>>)
setRefAccelerationRaw(c) == \E acc \in Speeds : ClientSets(c, <<Set("refAcceleration", acc)>>)

\* No object of the drive has this one; the reference speed may be above it from now on.
setVelLimitsRaw ==
  /\ calls < MaxCalls /\ calls' = calls + 1 /\ maxVel' \in Speeds
  /\ UNCHANGED <<stored, scale, reverse, controlMode, dict, setting, reboots, unseen, settingsGhosts>>

\* setMotorEncoderCountsPerRevolution, setGearboxRatio: objects stay as they are.
Rescale ==
  /\ calls < MaxCalls /\ calls' = calls + 1
  /\ scale' \in Scales \ {scale} /\ rescaled' = TRUE
  /\ UNCHANGED <<stored, maxVel, reverse, controlMode, dict, setting, reboots, unseen, doubtful, mixed, masked>>

\* The monitor, unlike a client, stops at the first setting that fails, but for limits.
AfterSetting(t, failed) ==
  LET rest == Tail(setting[t].todo)
      go == t # MonitorThread \/ ~failed \/ (rest # <<>> /\ Head(rest).key = "max")
  IN  [setting[t] EXCEPT !.store = Nothing, !.failed = @ \/ failed, !.todo = IF go THEN rest ELSE <<>>]

\* The check of setRefSpeedRaw, which holds for what the monitor sets as well.
Illegal(s) == s.key = "refSpeed" /\ s.value > maxVel

\* download: accepted ...
Download(t) ==
  /\ setting[t].todo # <<>> /\ setting[t].store = Nothing
  /\ LET s == Head(setting[t].todo)
     IN  /\ ~Illegal(s)
         /\ dict' = [dict EXCEPT ![ObjectOf(s.key)] = Internal(s.key, s.value)]
         /\ setting' = [setting EXCEPT ![t].store = s]
  /\ UNCHANGED <<stored, maxVel, scale, reverse, controlMode, calls, reboots, unseen, settingsGhosts>>

\* ... refused, by the check, the queue or the drive ...
Refused(t) ==
  /\ setting[t].todo # <<>> /\ setting[t].store = Nothing
  /\ setting' = [setting EXCEPT ![t] = AfterSetting(t, TRUE)]
  /\ UNCHANGED <<stored, maxVel, scale, reverse, controlMode, dict, calls, reboots, unseen, settingsGhosts>>

\* ... or accepted, and the answer comes too late.
Late(t) ==
  /\ setting[t].todo # <<>> /\ setting[t].store = Nothing
  /\ LET s == Head(setting[t].todo)
     IN  /\ ~Illegal(s)
         /\ dict' = [dict EXCEPT ![ObjectOf(s.key)] = Internal(s.key, s.value)]
  /\ setting' = [setting EXCEPT ![t] = AfterSetting(t, TRUE)] /\ doubtful' = TRUE
  /\ UNCHANGED <<stored, maxVel, scale, reverse, controlMode, calls, reboots, unseen, mixed, masked, rescaled>>

\* Mutation: what was downloaded is not stored.
StoreNothing(t) ==
  /\ setting[t].store # Nothing
  /\ setting' = [setting EXCEPT ![t] = AfterSetting(t, FALSE)]
  /\ UNCHANGED <<stored, maxVel, scale, reverse, controlMode, dict, calls, reboots, unseen, settingsGhosts>>
StoreSetting(t) ==
  /\ setting[t].store # Nothing
  /\ stored' = [stored EXCEPT ![setting[t].store.key] = setting[t].store.value]
  /\ setting' = [setting EXCEPT ![t] = AfterSetting(t, FALSE)]
  /\ UNCHANGED <<maxVel, scale, reverse, controlMode, dict, calls, reboots, unseen, settingsGhosts>>

ReturnSet(c) ==
  /\ Busy(c) /\ setting[c].todo = <<>> /\ setting[c].store = Nothing
  /\ setting' = [setting EXCEPT ![c] = NoSetting]
  /\ UNCHANGED <<stored, maxVel, scale, reverse, controlMode, dict, calls, reboots, unseen, settingsGhosts>>

\* A getter (getSetting) changes nothing.
Ask(c) == ~Busy(c) /\ UNCHANGED settingsVars

-----------------------------------------------------------------------------
(* Restarts *)

\* initialize: the arguments of the setters are what is stored now.
Initialize ==
  /\ controlMode = "NOT_CONFIGURED"
  /\ BeginSetting(MonitorThread, <<Set("min", stored.min), Set("max", stored.max),
                      Set("refSpeed", stored.refSpeed), Set("refAcceleration", stored.refAcceleration)>>)
  /\ masked' = FALSE /\ rescaled' = FALSE
  /\ UNCHANGED <<stored, maxVel, scale, reverse, controlMode, dict, calls, reboots, unseen, doubtful>>

Initialized ==
  /\ Busy(MonitorThread) /\ setting[MonitorThread].todo = <<>> /\ setting[MonitorThread].store = Nothing
  /\ controlMode' = IF setting[MonitorThread].failed THEN controlMode ELSE "CONFIGURED"
  /\ doubtful' = (doubtful /\ setting[MonitorThread].failed)
  /\ setting' = [setting EXCEPT ![MonitorThread] = NoSetting]
  /\ UNCHANGED <<stored, maxVel, scale, reverse, dict, calls, reboots, unseen, mixed, masked, rescaled>>

\* External: the drive restarts ...
Reboot ==
  /\ reboots < MaxReboots /\ reboots' = reboots + 1
  /\ dict' = Factory /\ unseen' = TRUE /\ masked' = Busy(MonitorThread)
  /\ UNCHANGED <<stored, maxVel, scale, reverse, controlMode, setting, calls, doubtful, mixed, rescaled>>

\* ... and is heard to boot, or is not heard.
Noticed ==
  /\ unseen /\ unseen' = FALSE /\ controlMode' = "NOT_CONFIGURED"
  /\ masked' = (masked \/ Busy(MonitorThread))
  /\ UNCHANGED <<stored, maxVel, scale, reverse, dict, setting, calls, reboots, doubtful, mixed, rescaled>>

SettingsNext ==
  \/ \E c \in Users : setLimitsRaw(c) \/ setRefSpeedRaw(c) \/ setRefAccelerationRaw(c) \/ ReturnSet(c) \/ Ask(c)
  \/ \E t \in Setters : Download(t) \/ Refused(t) \/ Late(t) \/ StoreSetting(t)
  \/ setVelLimitsRaw \/ Rescale \/ Initialize \/ Initialized \/ Reboot \/ Noticed

SettingsSpec == SettingsInit /\ [][SettingsNext]_settingsVars

-----------------------------------------------------------------------------
(* Properties *)

SettingsTypeOK ==
  /\ SettingsFit
  /\ stored.min \in Positions /\ stored.max \in Positions
  /\ stored.refSpeed \in Speeds /\ stored.refAcceleration \in Speeds /\ maxVel \in Speeds
  /\ controlMode \in {"NOT_CONFIGURED", "CONFIGURED"} /\ DOMAIN dict = Objects
  /\ calls <= MaxCalls /\ reboots <= MaxReboots /\ unseen \in BOOLEAN
  /\ doubtful \in BOOLEAN /\ mixed \in BOOLEAN /\ masked \in BOOLEAN /\ rescaled \in BOOLEAN

SettingsInService == controlMode = "CONFIGURED" /\ ~unseen /\ \A t \in Setters : ~Busy(t)

\* A drive in service has the settings that were made last, before or after it restarted,
\* each in its own object and its own sign, and the getters say so, as long as no setter failed and had its effect,
\* units did not change, and settings and restarts did not cross.
SettingsSurvive ==
  SettingsInService /\ ~doubtful /\ ~mixed /\ ~masked /\ ~rescaled =>
    \A k \in Keys : dict[ObjectOf(k)] = Internal(k, stored[k]) /\ getSetting(k) = stored[k]
=============================================================================
