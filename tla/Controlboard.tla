---------------------------- MODULE Controlboard ----------------------------
(***************************************************************************)
(* CanBusControlboard between the clients that call its interfaces and the *)
(* raw devices of the nodes. Every call is planned by DeviceMapper -- which *)
(* device gets which of its axes and which part of the caller's arrays --   *)
(* and carried out by a FutureTask, one device after the other or by a pool *)
(* of threads. The calls of several clients are not kept apart.             *)
(*                                                                         *)
(* Axes and places in arrays count from 0, devices from 1. The raw devices  *)
(* are external: a raw call does what it is told and returns true or false. *)
(***************************************************************************)
EXTENDS Integers, Sequences, FiniteSets, SequencesExt, MotorInterfaces

CONSTANTS Boards,   \* the raw devices as opened: [id, axes, ifaces]
          Clients,
          Offered,  \* the calls each client makes
          Groups,   \* the lists of joints asked for
          Requests, \* the arguments of setRemoteVariable
          Pools     \* numbers of threads a task may be shared by; 0: none

VARIABLES
  workers,  \* the threads of the task factory
  pc,       \* "idle", "in" a call, or "out" of one with its outcome
  job,      \* the call of each client, its arguments, deferred raw calls, those under way, the joint result
  log,      \* ghost: the raw calls of the call that have returned, with their results
  outcome   \* what the call returned: value and flag

vars == <<workers, pc, job, log, outcome>>

-----------------------------------------------------------------------------
(* DeviceMapper *)

\* The interfaces that can tell the number of axes; a device with none of them
\* is not registered.
Countable == {"ICurrentControl", "IEncodersTimed", "IImpedanceControl", "IMotor", "IMotorEncoders",
              "IPositionControl", "IPositionDirect", "IPWMControl", "IVelocityControl", "ITorqueControl"}
Devices == SelectSeq(Boards, LAMBDA b : b.ifaces \cap Countable # {})

Offset(d) == FoldLeft(LAMBDA sum, b : sum + b.axes, 0, SubSeq(Devices, 1, d - 1))
getControlledAxes == Offset(Len(Devices) + 1)
DeviceOf(j) == CHOOSE d \in 1..Len(Devices) : Offset(d) <= j /\ j < Offset(d) + Devices[d].axes
Has(d, iface) == iface \in Devices[d].ifaces

\* A deferred raw call: a device, its local axes, where their values begin.
Deferred(d, locals, at) == [dev |-> d, locals |-> locals, at |-> at]
WholeDevice(d) == Deferred(d, [k \in 1..Devices[d].axes |-> k - 1], Offset(d))

\* Mutation: a device is looked up once, whatever comes in between.
GetDevicesOnce(joints) ==
  LET first(i) == \A k \in 1..(i - 1) : DeviceOf(joints[k]) # DeviceOf(joints[i])
      begins == {i \in 1..Len(joints) : first(i)}
      run(i) == SelectSeq(joints, LAMBDA j : DeviceOf(j) = DeviceOf(joints[i]))
      deferred(i) == Deferred(DeviceOf(joints[i]),
                              [k \in 1..Len(run(i)) |-> run(i)[k] - Offset(DeviceOf(joints[i]))], i - 1)
  IN  [n \in 1..Cardinality(begins) |-> deferred(SetToSortSeq(begins, <)[n])]

\* A device for each run of joints that belong to it.
getDevices(joints) ==
  LET dev(i) == DeviceOf(joints[i])
      begins == {i \in 1..Len(joints) : i = 1 \/ dev(i) # dev(i - 1)}
      length(i) == CHOOSE n \in 1..(Len(joints) - i + 1) :
                     /\ \A k \in i..(i + n - 1) : dev(k) = dev(i)
                     /\ i + n \in begins \cup {Len(joints) + 1}
      deferred(i) == Deferred(dev(i), [k \in 1..length(i) |-> joints[i + k - 1] - Offset(dev(i))], i - 1)
  IN  [n \in 1..Cardinality(begins) |-> deferred(SetToSortSeq(begins, <)[n])]

\* mapSingleJoint, mapAllJoints, mapJointGroup: what is called, and whether it is called.
Targets(c, joints) ==
  CASE c.kind = "single" -> <<Deferred(DeviceOf(joints[1]), <<joints[1] - Offset(DeviceOf(joints[1]))>>, 0)>>
    [] c.kind = "all" -> [d \in 1..Len(Devices) |-> WholeDevice(d)]
    [] c.kind = "group" -> getDevices(joints)

Plan(c, joints) ==
  LET targets == Targets(c, joints)
      able == SelectSeq(targets, LAMBDA t : Has(t.dev, c.iface))
      goes == IF c.every THEN able = targets ELSE able # <<>>
  IN  [todo |-> IF goes THEN able ELSE <<>>, ok |-> goes]

-----------------------------------------------------------------------------
(* IRemoteVariables. A request is a sequence of entries [key, wellFormed]: the  *)
(* key is "all" or the id of a node. setRemoteVariable in "multi" mode goes     *)
(* through it until an entry is no list or is for all nodes; what came before   *)
(* stays done.                                                                  *)

AllNodes == [key |-> "all", wellFormed |-> TRUE]
Named(key) == {d \in 1..Len(Devices) : Devices[d].id = key}

\* setSingleKeyValuePair: the raw calls of an entry.
EntryTargets(e) ==
  IF ~e.wellFormed THEN <<>>
  ELSE IF e.key = "all" THEN SelectSeq([d \in 1..Len(Devices) |-> WholeDevice(d)], LAMBDA t : Has(t.dev, "IRemoteVariables"))
  ELSE LET ds == {d \in Named(e.key) : Has(d, "IRemoteVariables")}
       IN  IF ds = {} THEN <<>> ELSE <<WholeDevice(CHOOSE d \in ds : TRUE)>>

EntryFits(e) == e.wellFormed /\ (e.key = "all" \/ EntryTargets(e) # <<>>)

PlanRemote(entries) ==
  LET stops == {i \in 1..Len(entries) : Len(entries) > 1 /\ (~entries[i].wellFormed \/ entries[i].key = "all")}
      taken == IF stops = {} THEN entries ELSE SubSeq(entries, 1, Head(SetToSortSeq(stops, <)) - 1)
  IN  [todo |-> FlattenSeq([i \in 1..Len(taken) |-> EntryTargets(taken[i])]),
       ok |-> stops = {} /\ \A i \in 1..Len(taken) : EntryFits(taken[i])]

-----------------------------------------------------------------------------
(* The calls *)

Nothing == [call |-> [kind |-> "none", iface |-> "", name |-> "", raw |-> "", every |-> FALSE], args |-> <<>>,
            todo |-> <<>>, busy |-> {}, ok |-> FALSE, counts |-> TRUE]
NoOutcome == [value |-> FALSE, flag |-> "unset"]

Init ==
  /\ workers \in Pools
  /\ pc = [c \in Clients |-> "idle"]
  /\ job = [c \in Clients |-> Nothing]
  /\ log = [c \in Clients |-> <<>>]
  /\ outcome = [c \in Clients |-> NoOutcome]

Arguments(f) ==
  CASE f.kind = "single" -> {<<j>> : j \in -1..getControlledAxes}
    [] f.kind = "all" -> {<<>>}
    [] f.kind = "group" -> Groups
    [] f.kind = "remote" -> Requests

\* CHECK_JOINT; joints in lists are not checked.
InRange(f, args) == f.kind = "single" => args[1] \in 0..(getControlledAxes - 1)

PlanOf(f, args) == IF f.kind = "remote" THEN PlanRemote(args) ELSE Plan(f, args)

Call(c) ==
  /\ pc[c] = "idle"
  /\ \E f \in Offered[c] : \E args \in Arguments(f) :
       LET plan == IF InRange(f, args) THEN PlanOf(f, args) ELSE [todo |-> <<>>, ok |-> FALSE]
           \* getRemoteVariable of all nodes answers for those that do and is content.
           whatever == f.name = "getRemoteVariable" /\ args = <<AllNodes>>
       IN  job' = [job EXCEPT ![c] = [call |-> f, args |-> args, todo |-> plan.todo, busy |-> {},
                                      ok |-> plan.ok, counts |-> ~whatever]]
  /\ pc' = [pc EXCEPT ![c] = "in"]
  /\ UNCHANGED <<workers, log, outcome>>

\* Single joints and remote variables are no tasks: the client makes the raw call itself.
InOwnThread(c) == workers = 0 \/ job[c].call.kind \in {"single", "remote"}
Pooled == {c \in Clients : pc[c] = "in" /\ ~InOwnThread(c)}
Occupied == FoldSet(LAMBDA c, n : n + Cardinality(job[c].busy), 0, Pooled)

\* A raw call begins: after the one before has returned, or when a thread of the pool is free.
StartTask(c) ==
  /\ pc[c] = "in" /\ job[c].todo # <<>>
  /\ IF InOwnThread(c) THEN job[c].busy = {} ELSE Occupied < workers
  /\ job' = [job EXCEPT ![c].todo = Tail(@), ![c].busy = @ \cup {Head(job[c].todo)}]
  /\ UNCHANGED <<workers, pc, log, outcome>>

\* A raw call returns, checkMotionDone with the flags of its axes; the joint
\* result is taken over all of them, failed or not.
FinishTask(c, t, result, done) ==
  /\ t \in job[c].busy
  /\ job' = [job EXCEPT ![c].busy = @ \ {t}, ![c].ok = @ /\ (result \/ ~job[c].counts)]
  /\ log' = [log EXCEPT ![c] = Append(@, [task |-> t, result |-> result, done |-> done])]
  /\ UNCHANGED <<workers, pc, outcome>>

Answers(c, t) == IF job[c].call.name = "checkMotionDone" THEN SUBSET (1..Len(t.locals)) ELSE {{}}

\* The places of the array of flags that were set; it is filled with false before.
Flags(c) == UNION {{log[c][i].task.at + k - 1 : k \in log[c][i].done} : i \in 1..Len(log[c])}

FlagCount(c) == IF job[c].call.kind = "all" THEN getControlledAxes ELSE Len(job[c].args)

\* checkMotionDone of all joints or a list.
Verdict(c) ==
  IF job[c].call.name = "checkMotionDone" /\ job[c].call.kind # "single" /\ job[c].ok
  THEN IF 0..(FlagCount(c) - 1) \subseteq Flags(c) THEN "done" ELSE "moving"
  ELSE "unset"

Return(c) ==
  /\ pc[c] = "in" /\ job[c].todo = <<>> /\ job[c].busy = {}
  /\ pc' = [pc EXCEPT ![c] = "out"]
  /\ outcome' = [outcome EXCEPT ![c] = [value |-> job[c].ok, flag |-> Verdict(c)]]
  /\ UNCHANGED <<workers, job, log>>

\* Nothing of a call is left in the board.
GoOn(c) ==
  /\ pc[c] = "out"
  /\ pc' = [pc EXCEPT ![c] = "idle"]
  /\ job' = [job EXCEPT ![c] = Nothing]
  /\ log' = [log EXCEPT ![c] = <<>>]
  /\ outcome' = [outcome EXCEPT ![c] = NoOutcome]
  /\ UNCHANGED workers

Next ==
  \E c \in Clients :
    \/ Call(c)
    \/ StartTask(c)
    \/ \E t \in job[c].busy, result \in BOOLEAN : \E done \in Answers(c, t) : FinishTask(c, t, result, done)
    \/ Return(c)
    \/ GoOn(c)

Spec == Init /\ [][Next]_vars

-----------------------------------------------------------------------------
(* Properties *)

Entries(c) == {log[c][i] : i \in 1..Len(log[c])}

TypeOK ==
  /\ workers \in Pools
  /\ \A c \in Clients :
       /\ pc[c] \in {"idle", "in", "out"}
       /\ job[c].call \in Offered[c] \cup {Nothing.call}
       /\ outcome[c].flag \in {"unset", "done", "moving"}
       /\ pc[c] # "in" => job[c].todo = <<>> /\ job[c].busy = {}
  /\ Occupied <= workers

\* <<axis, place in the caller's arrays>> as reached by the raw calls, and as asked for.
Reached(c) ==
  FlattenSeq([i \in 1..Len(log[c]) |->
    LET t == log[c][i].task IN [k \in 1..Len(t.locals) |-> <<Offset(t.dev) + t.locals[k], t.at + k - 1>>]])
Served(f) == {j \in 0..(getControlledAxes - 1) : f.every \/ Has(DeviceOf(j), f.iface)}
Asked(f, args) ==
  IF f.kind = "all" THEN {<<j, j>> : j \in Served(f)} ELSE {<<args[i], i - 1>> : i \in 1..Len(args)}

\* The devices a request for remote variables is about.
Addressed(args) ==
  {d \in 1..Len(Devices) : \E i \in 1..Len(args) : args[i].key \in {"all", Devices[d].id}}

\* A call returns true exactly when every joint asked for was reached once, with
\* its own place in the arrays, and no raw call failed, whatever other clients
\* do: a call for all joints leaves out devices that cannot do it, one for a list
\* with such a joint reaches nothing. A successful setRemoteVariable was accepted
\* by every node it is for.
TrueMeansReached ==
  \A c \in Clients : LET f == job[c].call
                         args == job[c].args
                         none_failed == \A e \in Entries(c) : e.result
    IN  pc[c] = "out" =>
          /\ f.kind \in {"single", "all", "group"} =>
               /\ outcome[c].value <=>
                    /\ none_failed
                    /\ ToSet(Reached(c)) = Asked(f, args) /\ Len(Reached(c)) = Cardinality(Asked(f, args))
                    /\ f.kind = "all" => Asked(f, args) # {}
               /\ Reached(c) # <<>> => ToSet(Reached(c)) = Asked(f, args)
          /\ f.name = "setRemoteVariable" /\ outcome[c].value =>
               /\ none_failed
               /\ \A d \in Addressed(args) : Has(d, f.iface) => \E e \in Entries(c) : e.task.dev = d

\* When checkMotionDone of a list or of all joints says that the motion is done,
\* the raw devices said so of each of these joints during the call; a device
\* that was not asked does not count as at rest.
DoneMeansAllDone ==
  \A c \in Clients :
    outcome[c].flag = "done" =>
      LET joints == IF job[c].call.kind = "all" THEN 0..(getControlledAxes - 1) ELSE ToSet(job[c].args)
          said(e) == {Offset(e.task.dev) + e.task.locals[k] : k \in e.done}
      IN  \A j \in joints : \E e \in Entries(c) : j \in said(e)
=============================================================================
