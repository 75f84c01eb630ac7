------------------------------ MODULE IposNode ------------------------------
(***************************************************************************)
(* One node of the bus: TechnosoftIpos between its callers and its drive.  *)
(* A client thread configures the node when the device is opened and then  *)
(* changes control modes (IControlModeRawImpl.cpp); the heartbeat monitor  *)
(* (TechnosoftIpos::monitorWorker) declares the node lost, resets it and   *)
(* configures it again; an RPC thread changes how modes are implemented    *)
(* (IRemoteVariablesRawImpl.cpp); the reader thread handles TPDO1, boot-up *)
(* messages, heartbeats and the replies the other threads wait for.        *)
(*                                                                         *)
(* A call is a list of steps, each a request to the drive or a wait; what  *)
(* SdoClient, PdoProtocol and DriveStatusMachine do for one of them is     *)
(* modelled there. Here a request is obeyed at once or lost, and confirmed *)
(* in order or not at all. Downloads that only carry parameters are left   *)
(* out: their failure is that of the step after them.                      *)
(***************************************************************************)
EXTENDS Integers, Sequences

CONSTANTS Modes,       \* the modes the client asks for
          InitialMode, \* vars.initialMode
          Confs,       \* [csv, ip]: enableCsv, and whether there is an ipBuffer
          Apart,       \* nobody reconfigures while the mode changes
          PromptNode,      \* a drive shows a new mode, and any frame arrives, within a
                       \* transfer, the timeout of a wait, or the time between two
                       \* calls
          MaxTrouble   \* bound: faults, reboots, lost requests and replies, late heartbeats

VARIABLES conf,        \* how modes are implemented
          rpc,         \* the RPC thread: <<>>, or the configuration it has checked
          actualMode, requested,   \* actualControlMode, requestedcontrolMode
          modes,       \* modesOfOperation
          sync,        \* enableSync
          sw,          \* the state in driveStatus()
          beat,        \* a heartbeat has come since the monitor last looked
          lastNmt,     \* lastNmtState
          nodeCall,    \* [pc, todo, init] of each thread; init: initialize, not through
          dr,          \* the drive
          nodeFrames,  \* frames from it, in order
          trouble,     \* bound: see MaxTrouble
          refused,     \* history: RESET_NODE was not accepted
          masked,      \* history: the mode was "written" by no TPDO, or what it is told
                       \* apart by was "wiped" under it; empty once a TPDO changes it
          last         \* history: [goal, ok, clean, torn] of the client's last call;
                       \* clean: nothing has gone wrong in any call; torn: in some
                       \* call the node was reset, or not yet configured again

node == <<actualMode, requested, modes, sync, sw>>
watch == <<beat, lastNmt>>
nodeGhosts == <<refused, masked, last>>
nodeVars == <<conf, rpc, node, watch, nodeCall, dr, nodeFrames, trouble, nodeGhosts>>

Threads == {"client", "monitor"}
Motion == {"POSITION", "VELOCITY", "TORQUE", "CURRENT", "POSITION_DIRECT"}
External == {"TORQUE", "CURRENT"}  \* extRefTorque
ModeNames == Motion \cup {"IDLE", "FORCE_IDLE"} \* those that setControlModeRaw has a case for
Idle == [pc |-> "idle", todo |-> <<>>, init |-> FALSE]

ASSUME NodeAssumption ==
  /\ Modes \subseteq ModeNames /\ InitialMode \in ModeNames
  /\ Confs \subseteq [csv : BOOLEAN, ip : BOOLEAN]
  /\ MaxTrouble \in Nat

Do(kind, value) == <<[k |-> kind, v |-> value]>>
Booted == [st |-> "SWITCH_ON_DISABLED", sel |-> "none", disp |-> "none", map |-> "none",
           nmt |-> "PRE_OPERATIONAL", hb |-> FALSE]

-----------------------------------------------------------------------------
(* The calls *)

\* Mutation: velocities find RPDO3 as the mode before has left it.
StepsWithoutMap(mode) ==
  CASE mode = "POSITION" ->
         Do("state", "OPERATION_ENABLED") \o Do("select", "pp") \o Do("word", "5")
    [] mode = "VELOCITY" -> Do("state", "OPERATION_ENABLED") \o Do("select", IF conf.csv THEN "csp" ELSE "pv")
    [] mode \in External ->
         Do("state", "OPERATION_ENABLED") \o Do("map", "201C") \o Do("select", "torque") \o Do("word", "4")
    [] mode = "POSITION_DIRECT" ->
         Do("state", "OPERATION_ENABLED") \o Do("map", IF conf.ip THEN "60C1" ELSE "607A")
           \o Do("select", IF conf.ip THEN "ip" ELSE "csp")
    [] OTHER -> Do("unfault", "none") \o Do("state", "SWITCHED_ON") \o Do("select", "none")

\* setControlModeRaw, behind the early return: one row per case label.
Steps(mode) ==
  CASE mode = "POSITION" ->
         Do("state", "OPERATION_ENABLED") \o Do("select", "pp") \o Do("word", "5")
    [] mode = "VELOCITY" /\ conf.csv ->
         Do("state", "OPERATION_ENABLED") \o Do("map", "607A") \o Do("select", "csp") \o Do("word", "6")
    [] mode = "VELOCITY" /\ ~conf.csv ->
         Do("state", "OPERATION_ENABLED") \o Do("map", "60FF") \o Do("select", "pv")
    [] mode \in External ->
         Do("state", "OPERATION_ENABLED") \o Do("map", "201C") \o Do("select", "torque") \o Do("word", "4")
    [] mode = "POSITION_DIRECT" /\ conf.ip ->
         Do("state", "OPERATION_ENABLED") \o Do("map", "60C1") \o Do("select", "ip")
    [] mode = "POSITION_DIRECT" /\ ~conf.ip ->
         Do("unvelocity", "none") \o Do("state", "OPERATION_ENABLED") \o Do("map", "607A") \o Do("select", "csp")
    [] mode = "FORCE_IDLE" -> Do("unfault", "none") \o Do("state", "SWITCHED_ON") \o Do("select", "none")
    [] mode = "IDLE" -> Do("state", "SWITCHED_ON") \o Do("select", "none")

\* ... and the wait for the mode, which the idle modes do without.
Awaited(mode) == IF mode \in Motion THEN Do("await", mode) ELSE <<>>

\* initialize, up to where its result is decided and from there on.
Initialize ==
  Do("setup", "none") \o Do("heartbeat", "none") \o Do("start", "none") \o Do("booted", "none") \o Do("configured", "none")
    \o Do("state", "SWITCHED_ON") \o Do("await", "IDLE") \o Do("mode", InitialMode)

Starts(todo, init) == [pc |-> "next", todo |-> todo, init |-> init]

NodeInit ==
  /\ conf \in Confs /\ rpc = <<>>
  /\ actualMode = "NOT_CONFIGURED" /\ requested = "none" /\ modes = "none" /\ sync = FALSE
  /\ sw = "NOT_READY_TO_SWITCH_ON"
  /\ beat = FALSE /\ lastNmt = "BOOTUP"
  /\ nodeCall = [t \in Threads |-> IF t = "client" THEN Starts(Initialize, TRUE) ELSE Idle]
  /\ dr = Booted /\ nodeFrames = <<>> /\ trouble = 0
  /\ refused = FALSE /\ masked = {}
  /\ last = [goal |-> "none", ok |-> FALSE, clean |-> TRUE, torn |-> FALSE]

At(t, kind) == nodeCall[t].pc = "next" /\ nodeCall[t].todo # <<>> /\ Head(nodeCall[t].todo).k = kind
Arg(t) == Head(nodeCall[t].todo).v
Remaining(t) == Tail(nodeCall[t].todo)

\* The call of t goes on with these steps, or returns, well.
Proceeds(t, todo) ==
  IF todo = <<>>
  THEN /\ nodeCall' = [nodeCall EXCEPT ![t] = Idle]
       /\ last' = IF t = "client" THEN [last EXCEPT !.ok = TRUE] ELSE last
  ELSE nodeCall' = [nodeCall EXCEPT ![t].pc = "next", ![t].todo = todo] /\ UNCHANGED last

\* Returns false; monitorWorker resets a node it could not initialize.
Fails(t) ==
  /\ nodeCall' = [nodeCall EXCEPT ![t] = IF t = "monitor" /\ @.init THEN Starts(Do("resetnode", "none"), FALSE) ELSE Idle]
  /\ last' = [last EXCEPT !.clean = FALSE]

Disturbed == last' = [last EXCEPT !.clean = FALSE]
Torn == last' = [last EXCEPT !.clean = FALSE, !.torn = @ \/ nodeCall["client"].pc # "idle"]
Trouble == trouble < MaxTrouble /\ trouble' = trouble + 1

-----------------------------------------------------------------------------
(* Steps of a call that ask the drive for nothing *)

SetControlMode(mode) ==
  /\ nodeCall["client"].pc = "idle" /\ (Apart => rpc = <<>>)
  /\ PromptNode => nodeFrames = <<>> /\ dr.disp = dr.sel
  /\ nodeCall' = [nodeCall EXCEPT !["client"] = Starts(Do("mode", mode), FALSE)]
  /\ last' = [last EXCEPT !.goal = mode, !.ok = FALSE,
                            !.torn = @ \/ nodeCall["monitor"].pc # "idle" \/ actualMode = "NOT_CONFIGURED"]
  /\ UNCHANGED <<conf, rpc, node, watch, dr, nodeFrames, trouble, refused, masked>>

\* Mutation: cyclic setpoints go on until the new mode shows up.
EnterKeepsSync(t) ==
  /\ At(t, "mode") /\ requested' = Arg(t)
  /\ LET ext == actualMode \in External
         again == Arg(t) = actualMode \/ (ext /\ Arg(t) \in External)
     IN  /\ UNCHANGED sync
         /\ Proceeds(t, IF again THEN Do("confirm", "none") ELSE
              Do("word", "reset") \o (IF ext THEN Do("select", "homing") ELSE <<>>)
                \o Steps(Arg(t)) \o Awaited(Arg(t)))
  /\ UNCHANGED <<conf, rpc, actualMode, modes, sw, watch, dr, nodeFrames, trouble, refused, masked>>

\* setControlModeRaw begins.
Enter(t) ==
  /\ At(t, "mode") /\ requested' = Arg(t)
  /\ LET ext == actualMode \in External
         again == Arg(t) = actualMode \/ (ext /\ Arg(t) \in External)
     IN  /\ sync' = (sync /\ again)
         /\ Proceeds(t, IF again THEN Do("confirm", "none") ELSE
              Do("word", "reset") \o (IF ext THEN Do("select", "homing") ELSE <<>>)
                \o Steps(Arg(t)) \o Awaited(Arg(t)))
  /\ UNCHANGED <<conf, rpc, actualMode, modes, sw, watch, dr, nodeFrames, trouble, refused, masked>>

\* The mode is the one that was asked for: torque or current, at least.
Confirm(t) ==
  /\ At(t, "confirm") /\ actualMode' = requested
  /\ masked' = masked \cup {w \in {"written"} : ~(actualMode = requested \/ {actualMode, requested} \subseteq External)}
  /\ Proceeds(t, Remaining(t))
  /\ UNCHANGED <<conf, rpc, requested, modes, sync, sw, watch, dr, nodeFrames, trouble, refused>>

LeaveVelocity(t) ==
  /\ At(t, "unvelocity")
  /\ Proceeds(t, (IF actualMode = "VELOCITY" /\ ~conf.csv THEN Do("select", "homing") ELSE <<>>) \o Remaining(t))
  /\ UNCHANGED <<conf, rpc, node, watch, dr, nodeFrames, trouble, refused, masked>>

LeaveFault(t) ==
  /\ At(t, "unfault")
  /\ Proceeds(t, (IF actualMode = "HW_FAULT" THEN Do("faultreset", "none") ELSE <<>>) \o Remaining(t))
  /\ UNCHANGED <<conf, rpc, node, watch, dr, nodeFrames, trouble, refused, masked>>

\* controlword: the write may be refused by the queue.
WriteWord(t) ==
  /\ At(t, "word")
  /\ \/ Proceeds(t, Remaining(t)) /\ UNCHANGED trouble
     \/ Trouble /\ Fails(t)
  /\ UNCHANGED <<conf, rpc, node, watch, dr, nodeFrames, refused, masked>>

\* initialize is through: from here on a failure is a warning.
Configured(t) ==
  /\ At(t, "configured")
  /\ beat' = TRUE /\ actualMode' = "CONFIGURED" /\ masked' = masked \cup {w \in {"written"} : actualMode = "HW_FAULT"}
  /\ nodeCall' = [nodeCall EXCEPT ![t].todo = Tail(@), ![t].init = FALSE]
  /\ UNCHANGED <<conf, rpc, requested, modes, sync, sw, lastNmt, dr, nodeFrames, trouble, refused, last>>

-----------------------------------------------------------------------------
(* Requests to the drive *)

Tpdo(st, disp) == <<[t |-> "tpdo", st |-> st, disp |-> disp, to |-> "all"]>>
Boot == <<[t |-> "boot", st |-> "none", disp |-> "none", to |-> "all"]>>
Reply(t) == <<[t |-> "reply", st |-> "none", disp |-> "none", to |-> t]>>

Chain == <<"SWITCH_ON_DISABLED", "SWITCHED_ON", "OPERATION_ENABLED">>
Rank(st) == IF \E k \in 1..3 : Chain[k] = st THEN CHOOSE k \in 1..3 : Chain[k] = st ELSE 0

\* The states requestState passes on its way, the goal included.
Way(from, to) ==
  [k \in 1..(IF Rank(from) < Rank(to) THEN Rank(to) - Rank(from) ELSE 1) |->
     IF Rank(from) < Rank(to) THEN Chain[Rank(from) + k] ELSE to]

\* Whether the drive can do what it is asked for; it does not reply otherwise.
Obeys(r) ==
  CASE r.k = "state" -> dr.nmt = "OPERATIONAL" /\ dr.st # "FAULT"
    [] r.k = "faultreset" -> dr.nmt = "OPERATIONAL" /\ dr.st = "FAULT"
    [] OTHER -> TRUE

\* What becomes of the drive and what it sends.
Obeyed(r) ==
  CASE r.k = "state" -> [dr EXCEPT !.st = r.v]
    [] r.k = "faultreset" -> [dr EXCEPT !.st = "SWITCH_ON_DISABLED"]
    [] r.k = "select" -> [dr EXCEPT !.sel = r.v]
    [] r.k = "map" -> [dr EXCEPT !.map = r.v]
    [] r.k = "heartbeat" -> [dr EXCEPT !.hb = TRUE]
    [] r.k = "start" -> [dr EXCEPT !.nmt = "OPERATIONAL"]
    [] r.k = "setup" -> dr
Sent(r) ==
  CASE r.k = "state" /\ dr.st # r.v ->
         LET way == Way(dr.st, r.v) IN [k \in DOMAIN way |-> Tpdo(way[k], dr.disp)[1]]
    [] r.k = "faultreset" -> Tpdo("SWITCH_ON_DISABLED", dr.disp)
    [] r.k = "start" -> Tpdo(dr.st, dr.disp)
    [] OTHER -> <<>>

\* requestState returns at once if the state is the one it knows.
AlreadyThere(t) ==
  /\ At(t, "state") /\ sw = Arg(t)
  /\ Proceeds(t, Remaining(t))
  /\ UNCHANGED <<conf, rpc, node, watch, dr, nodeFrames, trouble, refused, masked>>

\* requestState, requestTransition: there is no way from the state it knows.
NoWay(t) ==
  /\ \/ At(t, "state") /\ Rank(sw) = 0
     \/ At(t, "faultreset") /\ sw # "FAULT"
  /\ Fails(t)
  /\ UNCHANGED <<conf, rpc, node, watch, dr, nodeFrames, trouble, refused, masked>>

Request(t) ==
  /\ \/ \E kind \in {"select", "map", "heartbeat", "setup"} : At(t, kind)
     \/ At(t, "state") /\ sw # Arg(t) /\ Rank(sw) # 0
     \/ At(t, "faultreset") /\ sw = "FAULT"
  /\ PromptNode => dr.disp = dr.sel
  /\ nodeCall' = [nodeCall EXCEPT ![t].pc = "asked"]
  /\ LET r == Head(nodeCall[t].todo) IN
     \/ /\ Obeys(r) /\ dr' = Obeyed(r) /\ nodeFrames' = nodeFrames \o Sent(r) \o Reply(t)
        /\ UNCHANGED <<trouble, last>>
     \/ ~Obeys(r) /\ UNCHANGED <<dr, nodeFrames, trouble, last>>
     \/ Obeys(r) /\ Trouble /\ Disturbed /\ dr' = Obeyed(r) /\ nodeFrames' = nodeFrames \o Sent(r)
     \/ Trouble /\ Disturbed /\ UNCHANGED <<dr, nodeFrames>>
  /\ UNCHANGED <<conf, rpc, node, watch, refused, masked>>

\* START_REMOTE_NODE has no reply.
StartNode(t) ==
  /\ At(t, "start")
  /\ \/ /\ dr' = Obeyed(Head(nodeCall[t].todo)) /\ nodeFrames' = nodeFrames \o Sent(Head(nodeCall[t].todo))
        /\ Proceeds(t, Remaining(t)) /\ UNCHANGED trouble
     \/ Trouble /\ Fails(t) /\ UNCHANGED <<dr, nodeFrames>>
  /\ UNCHANGED <<conf, rpc, node, watch, refused, masked>>

\* awaitState(SWITCH_ON_DISABLED), unless a statusword is known.
NodeStarted(t) ==
  /\ At(t, "booted") /\ sw # "NOT_READY_TO_SWITCH_ON"
  /\ Proceeds(t, Remaining(t))
  /\ UNCHANGED <<conf, rpc, node, watch, dr, nodeFrames, trouble, refused, masked>>

NodeSilent(t) ==
  /\ At(t, "booted") /\ sw = "NOT_READY_TO_SWITCH_ON" /\ nodeFrames = <<>>
  /\ Fails(t)
  /\ UNCHANGED <<conf, rpc, node, watch, dr, nodeFrames, trouble, refused, masked>>

NoReply(t) ==
  /\ nodeCall[t].pc = "asked" /\ \A k \in DOMAIN nodeFrames : nodeFrames[k].to # t
  /\ PromptNode => nodeFrames = <<>>
  /\ Fails(t)
  /\ UNCHANGED <<conf, rpc, node, watch, dr, nodeFrames, trouble, refused, masked>>

-----------------------------------------------------------------------------
(* awaitControlMode *)

ModeIsThere(t) ==
  /\ At(t, "await") /\ actualMode = Arg(t)
  /\ Proceeds(t, Remaining(t))
  /\ UNCHANGED <<conf, rpc, node, watch, dr, nodeFrames, trouble, refused, masked>>

ModeIsNot(t) ==
  /\ At(t, "await") /\ actualMode # Arg(t)
  /\ nodeCall' = [nodeCall EXCEPT ![t].pc = "opening"]
  /\ UNCHANGED <<conf, rpc, node, watch, dr, nodeFrames, trouble, nodeGhosts>>

\* Mutation: the observer lets two threads wait at once.
OpenWindowShared(t) ==
  /\ nodeCall[t].pc = "opening" /\ nodeCall' = [nodeCall EXCEPT ![t].pc = "waiting"]
  /\ UNCHANGED <<conf, rpc, node, watch, dr, nodeFrames, trouble, nodeGhosts>>

OpenWindow(t) ==
  /\ nodeCall[t].pc = "opening" /\ \A u \in Threads : nodeCall[u].pc \notin {"waiting", "woken"}
  /\ nodeCall' = [nodeCall EXCEPT ![t].pc = "waiting"]
  /\ UNCHANGED <<conf, rpc, node, watch, dr, nodeFrames, trouble, nodeGhosts>>

\* The observer was notified: await returns true.
ModeChanged(t) ==
  /\ nodeCall[t].pc = "woken"
  /\ Proceeds(t, Remaining(t))
  /\ UNCHANGED <<conf, rpc, node, watch, dr, nodeFrames, trouble, refused, masked>>

Expire(t) ==
  /\ nodeCall[t].pc = "waiting"
  /\ PromptNode => nodeFrames = <<>> /\ dr.disp = dr.sel
  /\ Fails(t)
  /\ UNCHANGED <<conf, rpc, node, watch, dr, nodeFrames, trouble, refused, masked>>

-----------------------------------------------------------------------------
(* The reader thread *)

Shown(disp) ==
  CASE disp = "torque" -> IF requested = "TORQUE" THEN "TORQUE" ELSE "CURRENT"
    [] disp = "pp" -> "POSITION"
    [] disp = "pv" -> IF conf.csv THEN "UNKNOWN" ELSE "VELOCITY"
    [] disp = "ip" -> "POSITION_DIRECT"
    [] disp = "csp" -> IF conf.csv THEN "VELOCITY" ELSE "POSITION_DIRECT"
    [] OTHER -> "UNKNOWN"
Enables(disp) ==
  CASE disp \in {"torque", "csp"} -> TRUE
    [] disp = "pv" -> ~conf.csv
    [] disp \in {"pp", "ip"} -> FALSE
    [] OTHER -> sync

\* interpretModesOfOperation and interpretStatusword, as the mode they leave.
AfterModes(f, mode) == IF f.disp = modes THEN mode ELSE Shown(f.disp)
AfterStatus(f, mode) ==
  CASE f.st = "FAULT" -> "HW_FAULT" [] f.st = "SWITCHED_ON" -> "IDLE" [] OTHER -> mode

\* Mutation: the modes are looked at last.
handleTpdo1StatusFirst(f) ==
  /\ actualMode' = AfterModes(f, AfterStatus(f, actualMode))
  /\ sync' = IF f.disp = modes THEN sync ELSE Enables(f.disp)
  /\ modes' = f.disp /\ sw' = f.st
  /\ masked' = {w \in masked : actualMode' = actualMode}
  /\ nodeCall' = IF f.disp = modes THEN nodeCall
             ELSE [t \in Threads |-> IF nodeCall[t].pc = "waiting" THEN [nodeCall[t] EXCEPT !.pc = "woken"] ELSE nodeCall[t]]
  /\ UNCHANGED <<watch, last>>

\* handleTpdo1: the statusword has the last word.
handleTpdo1(f) ==
  /\ actualMode' = AfterStatus(f, AfterModes(f, actualMode))
  /\ sync' = IF f.disp = modes THEN sync ELSE Enables(f.disp)
  /\ modes' = f.disp /\ sw' = f.st
  /\ masked' = {w \in masked : actualMode' = actualMode}
  /\ nodeCall' = IF f.disp = modes THEN nodeCall
             ELSE [t \in Threads |-> IF nodeCall[t].pc = "waiting" THEN [nodeCall[t] EXCEPT !.pc = "woken"] ELSE nodeCall[t]]
  /\ UNCHANGED <<watch, last>>

\* Mutation: a boot-up message is a heartbeat like any other.
handleNmtAlive(state) == beat' = TRUE /\ lastNmt' = IF state = "BOOTUP" THEN lastNmt ELSE state

handleNmt(state) == beat' = TRUE /\ lastNmt' = state

ReadNext ==
  /\ nodeFrames # <<>> /\ nodeFrames' = Tail(nodeFrames)
  /\ LET f == Head(nodeFrames) IN
     \/ f.t = "tpdo" /\ handleTpdo1(f)
     \/ f.t = "boot" /\ handleNmt("BOOTUP") /\ UNCHANGED <<actualMode, modes, sync, sw, nodeCall, masked, last>>
     \/ /\ f.t = "reply"
        /\ IF nodeCall[f.to].pc = "asked" THEN Proceeds(f.to, Remaining(f.to)) ELSE UNCHANGED <<nodeCall, last>>
        /\ UNCHANGED <<actualMode, modes, sync, sw, watch, masked>>
  /\ UNCHANGED <<conf, rpc, requested, dr, trouble, refused>>

ReadHeartbeat ==
  /\ dr.hb /\ nodeFrames = <<>> /\ ~beat /\ handleNmt(dr.nmt)
  /\ UNCHANGED <<conf, rpc, node, nodeCall, dr, nodeFrames, trouble, nodeGhosts>>

-----------------------------------------------------------------------------
(* The heartbeat monitor *)

Look(late) ==
  /\ nodeCall["monitor"].pc = "idle" /\ beat' = FALSE
  /\ PromptNode => nodeFrames = <<>>
  /\ IF late THEN Trouble /\ dr.hb /\ ~beat ELSE UNCHANGED trouble /\ (dr.hb => beat)
  /\ UNCHANGED lastNmt

\* RESET_NODE is accepted, or refused, and nobody looks at which.
ResetNode ==
  \/ dr' = Booted /\ nodeFrames' = nodeFrames \o Boot /\ UNCHANGED refused
  \/ trouble < MaxTrouble /\ refused' = TRUE /\ UNCHANGED <<dr, nodeFrames>>

Lost ==
  /\ \E late \in BOOLEAN : Look(late)
  /\ actualMode # "NOT_CONFIGURED" /\ ~beat
  /\ actualMode' = "NOT_CONFIGURED" /\ masked' = masked \cup {w \in {"written"} : actualMode = "HW_FAULT"}
  /\ ResetNode /\ Torn
  /\ nodeCall' = [nodeCall EXCEPT !["monitor"] = Starts(Do("wipe", "none"), FALSE)]
  /\ UNCHANGED <<conf, rpc, requested, modes, sync, sw>>

\* driveStatus()->reset(), vars.reset()
Wipe ==
  /\ At("monitor", "wipe")
  /\ sw' = "NOT_READY_TO_SWITCH_ON" /\ requested' = "none" /\ modes' = "none" /\ sync' = FALSE
  /\ masked' = masked \cup {w \in {"wiped"} : actualMode \in Motion}
  /\ Proceeds("monitor", <<>>)
  /\ UNCHANGED <<conf, rpc, actualMode, watch, dr, nodeFrames, trouble, refused>>

Rebooted == actualMode = "NOT_CONFIGURED" /\ beat /\ lastNmt = "BOOTUP"

Reinitialize ==
  /\ Look(FALSE) /\ Rebooted
  /\ nodeCall' = [nodeCall EXCEPT !["monitor"] = Starts(Initialize, TRUE)]
  /\ UNCHANGED <<conf, rpc, node, dr, nodeFrames, nodeGhosts>>

AllWell ==
  /\ Look(FALSE) /\ ~Rebooted /\ (actualMode # "NOT_CONFIGURED" => beat)
  /\ UNCHANGED <<conf, rpc, node, nodeCall, dr, nodeFrames, nodeGhosts>>

\* After a failed initialize.
ResetAgain ==
  /\ At("monitor", "resetnode") /\ ResetNode
  /\ Proceeds("monitor", <<>>)
  /\ UNCHANGED <<conf, rpc, node, watch, trouble, masked>>

-----------------------------------------------------------------------------
(* The RPC thread: setRemoteVariableRaw *)

CheckConf(c) ==
  /\ rpc = <<>> /\ c # conf
  /\ Apart => nodeFrames = <<>> /\ dr.disp = dr.sel /\ \A t \in Threads : nodeCall[t].pc = "idle"
  /\ c.ip # conf.ip => actualMode # "POSITION_DIRECT" /\ requested # "POSITION_DIRECT"
  /\ c.csv # conf.csv => actualMode # "VELOCITY"
  /\ rpc' = <<c>>
  /\ UNCHANGED <<conf, node, watch, nodeCall, dr, nodeFrames, trouble, nodeGhosts>>

ApplyConf ==
  /\ rpc # <<>> /\ conf' = rpc[1] /\ rpc' = <<>>
  /\ Apart => \A t \in Threads : nodeCall[t].pc = "idle"
  /\ UNCHANGED <<node, watch, nodeCall, dr, nodeFrames, trouble, nodeGhosts>>

-----------------------------------------------------------------------------
(* The drive *)

Adopt ==
  /\ dr.disp # dr.sel
  /\ dr' = [dr EXCEPT !.disp = dr.sel]
  /\ nodeFrames' = IF dr.nmt = "OPERATIONAL" THEN nodeFrames \o Tpdo(dr.st, dr.sel) ELSE nodeFrames
  /\ UNCHANGED <<conf, rpc, node, watch, nodeCall, trouble, nodeGhosts>>

Fault ==
  /\ Trouble /\ dr.st # "FAULT" /\ dr' = [dr EXCEPT !.st = "FAULT"]
  /\ nodeFrames' = IF dr.nmt = "OPERATIONAL" THEN nodeFrames \o Tpdo("FAULT", dr.disp) ELSE nodeFrames
  /\ Disturbed
  /\ UNCHANGED <<conf, rpc, node, watch, nodeCall, refused, masked>>

Reboot ==
  /\ Trouble /\ dr' = Booted /\ nodeFrames' = nodeFrames \o Boot
  /\ Torn
  /\ UNCHANGED <<conf, rpc, node, watch, nodeCall, refused, masked>>

-----------------------------------------------------------------------------
Step(t) ==
  \/ Enter(t) \/ Confirm(t) \/ LeaveVelocity(t) \/ LeaveFault(t) \/ WriteWord(t) \/ Configured(t)
  \/ AlreadyThere(t) \/ NoWay(t) \/ Request(t) \/ StartNode(t) \/ NodeStarted(t) \/ NodeSilent(t) \/ NoReply(t)
  \/ ModeIsThere(t) \/ ModeIsNot(t) \/ OpenWindow(t) \/ ModeChanged(t) \/ Expire(t)

Monitor == Lost \/ Wipe \/ Reinitialize \/ AllWell \/ ResetAgain

NodeNext ==
  \/ \E mode \in Modes : SetControlMode(mode)
  \/ \E t \in Threads : Step(t)
  \/ ReadNext \/ ReadHeartbeat \/ Monitor
  \/ (\E c \in Confs : CheckConf(c)) \/ ApplyConf
  \/ Adopt \/ Fault \/ Reboot

NodeSpec == NodeInit /\ [][NodeNext]_nodeVars

Fairness ==
  /\ \A t \in Threads : SF_nodeVars(Step(t))
  /\ WF_nodeVars(ReadNext) /\ WF_nodeVars(ReadHeartbeat) /\ SF_nodeVars(Monitor) /\ WF_nodeVars(Adopt)

NodeFairSpec == NodeSpec /\ Fairness
-----------------------------------------------------------------------------
(* Properties *)

DriveModes == {"none", "homing", "pp", "pv", "torque", "ip", "csp"}
Objects == {"none", "607A", "60FF", "201C", "60C1"}
DriveStates == {"NOT_READY_TO_SWITCH_ON", "FAULT", "SWITCH_ON_DISABLED", "SWITCHED_ON", "OPERATION_ENABLED"}
ControlModes == Motion \cup {"NOT_CONFIGURED", "CONFIGURED", "IDLE", "HW_FAULT", "UNKNOWN"}

\* Everything is of its kind, only the monitor resets the node, only one thread
\* waits for a mode, and what getControlMode returns is a mode, unless the early
\* return of one thread has stored what another one had just asked for or wiped
\* (IControlModeRawImpl.cpp:48): then it may be 0, or FORCE_IDLE.
NodeTypeOK ==
  /\ conf \in Confs /\ (actualMode \in ControlModes \/ "written" \in masked) /\ modes \in DriveModes /\ sw \in DriveStates
  /\ {sync, beat, refused, dr.hb} \subseteq BOOLEAN /\ masked \subseteq {"written", "wiped"}
  /\ requested \in ModeNames \cup {"none"}
  /\ nodeCall["client"].todo = <<>> \/ Head(nodeCall["client"].todo).k \notin {"wipe", "resetnode"}
  /\ \E t \in Threads : \A u \in Threads \ {t} : nodeCall[u].pc \notin {"waiting", "woken"}
  /\ dr.sel \in DriveModes /\ dr.disp \in DriveModes /\ dr.map \in Objects
  /\ dr.st \in DriveStates \ {"NOT_READY_TO_SWITCH_ON"}
  /\ dr.nmt \in {"PRE_OPERATIONAL", "OPERATIONAL"} /\ trouble \in 0..MaxTrouble

\* How a mode is carried out by the drive, and what its cyclic setpoints need.
DriveMode(mode) ==
  CASE mode = "POSITION" -> "pp"
    [] mode = "VELOCITY" -> IF conf.csv THEN "csp" ELSE "pv"
    [] mode \in External -> "torque"
    [] mode = "POSITION_DIRECT" -> IF conf.ip THEN "ip" ELSE "csp"
Mapped(mode) ==
  CASE mode = "VELOCITY" -> IF conf.csv THEN "607A" ELSE "60FF"
    [] mode \in External -> "201C"
    [] mode = "POSITION_DIRECT" -> IF conf.ip THEN "60C1" ELSE "607A"

Reported == nodeFrames = <<>> /\ dr.disp = dr.sel /\ dr.nmt = "OPERATIONAL"

\* When nothing more is to come from the drive a fault is what getControlMode
\* returns, unless a thread that had looked at the mode before wrote over it:
\* setControlModeRaw in its early return (IControlModeRawImpl.cpp:48) or
\* initialize (ICanBusSharerImpl.cpp:120), and a mode of motion is the one the
\* drive is in.
ModeIsShown ==
  Reported /\ masked = {} =>
     /\ dr.st = "FAULT" => actualMode = "HW_FAULT"
     /\ actualMode = "POSITION" => dr.sel = "pp"
     /\ actualMode = "VELOCITY" => dr.sel \in {"pv", "csp"}
     /\ actualMode \in External => dr.sel = "torque"
     /\ actualMode = "POSITION_DIRECT" => dr.sel \in {"csp", "ip"}

\* A call of setControlModeRaw that returned true, and no earlier one that
\* failed, has left the drive enabled, in the mode, with RPDO3 mapped to its
\* setpoints and the mode shown, whatever modes it came through before.
SuccessMeansSelected ==
  last.ok /\ last.clean /\ last.goal # "none" /\ (\A t \in Threads : nodeCall[t].pc = "idle") =>
     IF last.goal \in {"IDLE", "FORCE_IDLE"}
     THEN dr.st = "SWITCHED_ON" /\ dr.sel = "none"
     ELSE /\ dr.st = "OPERATION_ENABLED" /\ dr.sel = DriveMode(last.goal)
          /\ last.goal # "POSITION" => dr.map = Mapped(last.goal)
          /\ actualMode = last.goal
          /\ sync = (last.goal # "POSITION" /\ DriveMode(last.goal) # "ip")

\* Cyclic setpoints go to an enabled drive only while RPDO3 is mapped to what the
\* mode shown would have synchronize send, in the middle of a change of mode, too,
\* after faults and failed calls, unless a call went on while the node was reset
\* and configured again (ICanBusSharerImpl.cpp:194-243, IControlModeRawImpl.cpp:52).
SyncMatchesMap ==
  /\ sync /\ actualMode \in Motion \ {"POSITION"}
  /\ dr.nmt = "OPERATIONAL" /\ dr.st = "OPERATION_ENABLED" /\ ~last.torn
  => dr.map = Mapped(actualMode)

\* A node that boots, whenever that is, is operational, produces heartbeats and
\* counts as configured sooner or later, unless RESET_NODE was refused by the
\* queue, which TechnosoftIpos.cpp:547 does not look at, or a client wrote its mode
\* over NOT_CONFIGURED (IControlModeRawImpl.cpp:48), so that the monitor cannot see
\* that there is something to do.
BootUnderWay == \E k \in DOMAIN nodeFrames : nodeFrames[k].t = "boot"
InService == actualMode # "NOT_CONFIGURED" /\ dr.nmt = "OPERATIONAL" /\ dr.hb
ConfiguredAgain == BootUnderWay ~> (refused \/ "written" \in masked \/ InService)

\* StateVariables.hpp:70, "Wait with timeout for requested control mode change":
\* when it says that the mode has changed, the mode is the one that was asked for.
AwaitMeansMode ==
  \A t \in Threads :
     nodeCall[t].pc = "woken" => actualMode = Arg(t) \/ actualMode = "HW_FAULT"

\* IRemoteVariablesRawImpl.cpp:61, "check on vars.requestedControlMode to avoid race
\* conditions during mode switch": the buffer is not exchanged while a change to
\* POSITION_DIRECT is under way.
BufferStaysWhileSwitching ==
  [][conf'.ip # conf.ip => actualMode # "POSITION_DIRECT" /\ requested # "POSITION_DIRECT"]_nodeVars
=============================================================================
