----------------------------- MODULE PdoProtocol -----------------------------
(***************************************************************************)
(* PdoProtocol::configure of libraries/CanOpenNodeLib/PdoProtocol.cpp, the *)
(* sequence of SDO transfers that applies a PdoConfiguration to a drive,   *)
(* begun again and again with the same configuration, as the raw devices   *)
(* do at every initialization of their node. A transfer may fail, and one  *)
(* whose confirm is lost fails although the drive has obeyed.              *)
(***************************************************************************)
EXTENDS Integers, Sequences

CONSTANTS Configurations,  \* the PdoConfigurations considered
          MaxSlots         \* bound: objects that can be mapped

Parameters == {"transmissionType", "inhibitTime", "eventTimer", "syncStartValue"}

\* A PdoConfiguration of a PDO of this type: valid and rtr are optional<bool>,
\* set the parameters given a value, mappings the objects mapped. Checked with PdoTypeOK.
IsConfiguration(c) ==
  /\ c.type \in {"RPDO", "TPDO"}
  /\ c.valid \in {"unset", "yes", "no"} /\ c.rtr \in {"unset", "yes", "no"}
  /\ c.set \subseteq Parameters
  /\ c.mappings \in Seq(STRING) /\ Len(c.mappings) <= MaxSlots

\* Checked with PdoTypeOK, too: two objects are mapped at first.
ConstantsFit == MaxSlots \in Nat \ {0, 1} /\ \A c \in Configurations : IsConfiguration(c)

VARIABLES
  conf,    \* the configuration of this PDO
  phase,   \* "idle", "upload" (the COB-ID), "download"
  todo,    \* the downloads that remain, <<object, value>>
  device,  \* the communication and mapping parameters in the drive
  before,  \* ghost: the device as it was at first
  outcome  \* ghost: what the last configure returned

pdoVars == <<conf, phase, todo, device, before, outcome>>

\* valid is bit 31 of the COB-ID reset, rtr bit 30 reset.
Devices == [valid : BOOLEAN, rtr : BOOLEAN, params : [Parameters -> {"old"}],
            count : {2}, slots : {[i \in 1..MaxSlots |-> "old"]}]

PdoInit ==
  /\ conf \in Configurations
  /\ device \in Devices
  /\ before = device
  /\ phase = "idle" /\ todo = <<>> /\ outcome = "none"

-----------------------------------------------------------------------------
(* The downloads of one configure, in order. *)

\* Bit 30 as the configuration wants it, or as it was read.
RtrBit(c, uploaded) == IF c.rtr = "unset" THEN uploaded.rtr ELSE c.rtr = "yes"
CobId(valid, c, uploaded) == <<"cobId", [valid |-> valid, rtr |-> RtrBit(c, uploaded)]>>

\* A parameter that was given a value. A SYNC start value is an error in a RPDO,
\* noticed when its turn comes.
ParameterDownload(c, p) ==
  IF p \notin c.set THEN <<>>
  ELSE <<IF p = "syncStartValue" /\ c.type = "RPDO" THEN <<"illegal", 0>> ELSE <<p, "new">>>>

ParameterDownloads(c) ==
  ParameterDownload(c, "transmissionType") \o ParameterDownload(c, "inhibitTime")
    \o ParameterDownload(c, "eventTimer") \o ParameterDownload(c, "syncStartValue")

\* Mutation: the number of mapped objects is not taken to zero first.
MappingOverwritten(c) ==
  IF c.mappings = <<>> THEN <<>>
  ELSE [i \in 1..Len(c.mappings) |-> <<"slot", <<i, c.mappings[i]>>>>]

\* The mapping is emptied, filled and switched on again.
MappingDownloads(c) ==
  IF c.mappings = <<>> THEN <<>>
  ELSE <<<<"count", 0>>>>
       \o [i \in 1..Len(c.mappings) |-> <<"slot", <<i, c.mappings[i]>>>>]
       \o <<<<"count", Len(c.mappings)>>>>

\* Mutation: the PDO stays valid while its mapping changes.
DownloadsWhileValid(c, uploaded) ==
  <<CobId(c.valid # "no", c, uploaded)>> \o ParameterDownloads(c) \o MappingDownloads(c)

Downloads(c, uploaded) ==
  <<CobId(FALSE, c, uploaded)>> \o ParameterDownloads(c) \o MappingDownloads(c)
    \o (IF c.valid = "no" THEN <<>> ELSE <<CobId(TRUE, c, uploaded)>>)

-----------------------------------------------------------------------------
Configure == /\ phase = "idle"
             /\ phase' = "upload" /\ outcome' = "none"
             /\ UNCHANGED <<conf, todo, device, before>>

Finish(what) == /\ phase' = "idle" /\ todo' = <<>> /\ outcome' = what
                /\ UNCHANGED <<conf, before>>

\* The COB-ID is read; an RTR bit is an error in an RPDO.
ReadCobId == /\ phase = "upload" /\ (conf.rtr = "unset" \/ conf.type = "TPDO")
             /\ phase' = "download"
             /\ todo' = Downloads(conf, device)
             /\ UNCHANGED <<conf, device, before, outcome>>

Obey(d) == CASE d[1] = "cobId" -> [device EXCEPT !.valid = d[2].valid, !.rtr = d[2].rtr]
             [] d[1] \in Parameters -> [device EXCEPT !.params[d[1]] = d[2]]
             [] d[1] = "count" -> [device EXCEPT !.count = d[2]]
             [] d[1] = "slot" -> [device EXCEPT !.slots[d[2][1]] = d[2][2]]

DownloadNext == /\ phase = "download" /\ Head(todo)[1] # "illegal"
                /\ device' = Obey(Head(todo))
                /\ \/ Len(todo) > 1 /\ todo' = Tail(todo) /\ UNCHANGED <<conf, phase, before, outcome>>
                   \/ Len(todo) = 1 /\ Finish("yes")

\* A transfer fails, with the drive having obeyed or not.
Fail == \/ phase = "upload" /\ UNCHANGED device /\ Finish("no")
        \/ phase = "download" /\ UNCHANGED device /\ Finish("no")
        \/ phase = "download" /\ Head(todo)[1] # "illegal" /\ device' = Obey(Head(todo)) /\ Finish("no")

PdoNext == Configure \/ ReadCobId \/ DownloadNext \/ Fail

PdoSpec == PdoInit /\ [][PdoNext]_pdoVars

-----------------------------------------------------------------------------
(* Properties. *)

PdoTypeOK ==
  /\ conf \in Configurations /\ ConstantsFit
  /\ phase \in {"idle", "upload", "download"} /\ (phase = "download" <=> todo # <<>>)
  /\ outcome \in {"none", "yes", "no"}
  /\ device.valid \in BOOLEAN /\ device.rtr \in BOOLEAN
  /\ device.params \in [Parameters -> {"old", "new"}]
  /\ device.count \in 0..MaxSlots

Mapped(d) == SubSeq(d.slots, 1, d.count)

\* The drive never exchanges a PDO whose mapping is half the old one and half
\* the new one, at whatever transfer a configure fails and however often it
\* was begun again: while it is valid, the mapping is one or the other.
ValidMeansWhole == device.valid => Mapped(device) \in {Mapped(before), conf.mappings}

\* A configure that returns true leaves the drive with all of the configuration,
\* whatever earlier attempts have left behind, and with nothing else changed. One
\* that cannot apply to the type of the PDO is never reported as applied and
\* never gets a PDO switched on that was off.
SuccessMeansConfigured ==
  /\ conf.type = "RPDO" /\ (conf.rtr # "unset" \/ "syncStartValue" \in conf.set)
       => outcome # "yes" /\ (device.valid => before.valid)
  /\ outcome = "yes" =>
    /\ device.valid = (conf.valid # "no")
    /\ device.rtr = (IF conf.rtr = "unset" THEN before.rtr ELSE conf.rtr = "yes")
    /\ \A p \in Parameters : device.params[p] = (IF p \in conf.set THEN "new" ELSE "old")
    /\ Mapped(device) = (IF conf.mappings = <<>> THEN Mapped(before) ELSE conf.mappings)

\* PdoProtocol.hpp:73, "Unless a setter has been called by client code, no
\* configuration will be applied for its related value": without setValid a
\* PDO that was not valid stays so. What the code does: it clears bit 31.
UnsetValidIsUntouched ==
  outcome = "yes" /\ conf.valid = "unset" => device.valid = before.valid
=============================================================================
