-------------------------- MODULE MotorInterfaces --------------------------
(***************************************************************************)
(* The interfaces of CanBusControlboard: the raw function each call is      *)
(* forwarded to and how. A call for a single joint is the raw call itself;  *)
(* one for all joints or a list is deferred to a task. "every": all devices *)
(* that a call is for must have the interface.                              *)
(***************************************************************************)
Forward(kind, iface, names) ==
  {[kind |-> kind, iface |-> iface, name |-> n, raw |-> n, every |-> kind # "all"] : n \in names}

Single(iface, names) == Forward("single", iface, names)
All(iface, names) == Forward("all", iface, names)
Group(iface, names) == Forward("group", iface, names)

IAmplifierControl ==
  Single("IAmplifierControl", {"enableAmp", "disableAmp", "getAmpStatus", "getMaxCurrent", "setMaxCurrent",
    "getNominalCurrent", "setNominalCurrent", "getPeakCurrent", "setPeakCurrent", "getPWM", "getPWMLimit",
    "setPWMLimit", "getPowerSupplyVoltage"})
    \cup All("IAmplifierControl", {"getAmpStatus"})
IAxisInfo == Single("IAxisInfo", {"getAxisName", "getJointType"})
IControlCalibration ==
  Single("IControlCalibration", {"calibrateAxisWithParams", "setCalibrationParameters", "calibrationDone"})
IControlLimits == Single("IControlLimits", {"setLimits", "getLimits", "setVelLimits", "getVelLimits"})
IControlMode ==
  Single("IControlMode", {"getControlMode", "setControlMode"})
    \cup All("IControlMode", {"getControlModes", "setControlModes"})
    \cup Group("IControlMode", {"getControlModes", "setControlModes"})
ICurrentControl ==
  Single("ICurrentControl", {"getCurrent", "getCurrentRange", "setRefCurrent", "getRefCurrent"})
    \cup All("ICurrentControl", {"getCurrents", "getCurrentRanges", "setRefCurrents", "getRefCurrents"})
    \cup Group("ICurrentControl", {"setRefCurrents"})
IEncoders ==
  Single("IEncodersTimed", {"resetEncoder", "setEncoder", "getEncoder", "getEncoderSpeed",
                            "getEncoderAcceleration", "getEncoderTimed"})
    \cup All("IEncodersTimed", {"resetEncoders", "setEncoders", "getEncoders", "getEncoderSpeeds",
                                "getEncoderAccelerations", "getEncodersTimed"})
IImpedanceControl ==
  Single("IImpedanceControl", {"getImpedance", "setImpedance", "setImpedanceOffset", "getImpedanceOffset",
                               "getCurrentImpedanceLimit"})
\* The setter of a list calls the getter of the raw device.
IInteractionMode ==
  Single("IInteractionMode", {"getInteractionMode", "setInteractionMode"})
    \cup All("IInteractionMode", {"getInteractionModes", "setInteractionModes"})
    \cup Group("IInteractionMode", {"getInteractionModes"})
    \cup {[c EXCEPT !.raw = "getInteractionModes"] : c \in Group("IInteractionMode", {"setInteractionModes"})}
IMotor ==
  Single("IMotor", {"getTemperature", "getTemperatureLimit", "setTemperatureLimit", "getGearboxRatio", "setGearboxRatio"})
    \cup All("IMotor", {"getTemperatures"})
IMotorEncoders ==
  Single("IMotorEncoders", {"resetMotorEncoder", "setMotorEncoderCountsPerRevolution",
    "getMotorEncoderCountsPerRevolution", "setMotorEncoder", "getMotorEncoder", "getMotorEncoderTimed",
    "getMotorEncoderSpeed", "getMotorEncoderAcceleration"})
    \cup All("IMotorEncoders", {"resetMotorEncoders", "setMotorEncoders", "getMotorEncoders",
                                "getMotorEncodersTimed", "getMotorEncoderSpeeds", "getMotorEncoderAccelerations"})
IPWMControl ==
  Single("IPWMControl", {"setRefDutyCycle", "getRefDutyCycle", "getDutyCycle"})
    \cup All("IPWMControl", {"setRefDutyCycles", "getRefDutyCycles", "getDutyCycles"})
\* Its own mapping of all joints takes no device for another.
IPidControl ==
  Single("IPidControl", {"setPid", "setPidReference", "setPidErrorLimit", "getPidError", "getPidOutput", "getPid",
    "getPidReference", "getPidErrorLimit", "resetPid", "disablePid", "enablePid", "setPidOffset", "isPidEnabled"})
    \cup {[c EXCEPT !.every = TRUE] : c \in All("IPidControl",
      {"setPids", "setPidReferences", "setPidErrorLimits", "getPidErrors", "getPidOutputs", "getPids",
       "getPidReferences", "getPidErrorLimits"})}
Motions == {"positionMove", "relativeMove", "checkMotionDone", "stop"}
MotionLists == {"setRefSpeeds", "setRefAccelerations", "getRefSpeeds", "getRefAccelerations", "getTargetPositions"}
IPositionControl ==
  Single("IPositionControl", Motions \cup {"setRefSpeed", "setRefAcceleration", "getRefSpeed", "getRefAcceleration",
                                           "getTargetPosition"})
    \cup All("IPositionControl", Motions \cup MotionLists)
    \cup Group("IPositionControl", Motions \cup MotionLists)
IPositionDirect ==
  Single("IPositionDirect", {"setPosition", "getRefPosition"})
    \cup All("IPositionDirect", {"setPositions", "getRefPositions"})
    \cup Group("IPositionDirect", {"setPositions", "getRefPositions"})
ITorqueControl ==
  Single("ITorqueControl", {"getRefTorque", "setRefTorque", "getMotorTorqueParams", "setMotorTorqueParams",
                            "getTorque", "getTorqueRange"})
    \cup All("ITorqueControl", {"getRefTorques", "setRefTorques", "getTorques", "getTorqueRanges"})
    \cup Group("ITorqueControl", {"setRefTorques"})
IVelocityControl ==
  Single("IVelocityControl", {"velocityMove", "getRefVelocity"})
    \cup All("IVelocityControl", {"velocityMove", "getRefVelocities"})
    \cup Group("IVelocityControl", {"velocityMove", "getRefVelocities"})
IRemoteVariables == Forward("remote", "IRemoteVariables", {"getRemoteVariable", "setRemoteVariable"})

API == UNION {IAmplifierControl, IAxisInfo, IControlCalibration, IControlLimits, IControlMode, ICurrentControl,
              IEncoders, IImpedanceControl, IInteractionMode, IMotor, IMotorEncoders, IPWMControl, IPidControl,
              IPositionControl, IPositionDirect, ITorqueControl, IVelocityControl, IRemoteVariables}
=============================================================================
