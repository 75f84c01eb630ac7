# A verification development of TEO body

TLA+ models of *teo-body*, the software that moves the robot TEO through CAN
buses; model checks of them with TLC; and proofs, checked by TLAPS, that the most
important of their properties hold for every number of threads, nodes and frames. The
source under `src/` is the reference: each definition that models code is listed
in `PROJECT.json` (`map`) with the lines it stands for.

Check everything from this directory with

    tlc -config <X>.cfg <module>         # the runs, listed in section 3
    tlapm <Name>Proofs.tla               # the proofs, listed in section 4

## 1. The system

One process (`launchCanBus`, `launchTeoBody`...) opens, per CAN bus, a driver
(`CanBusHico`, `CanBusPeak`, `CanBusSocket`, `CanBusFake`), a reader and a writer
thread, and a *raw device* per CAN node (`TechnosoftIpos` for the motor drives,
`CuiAbsolute`, `LacqueyFetch`, `DextraCanControlboard`). `CanBusControlboard`
presents them all as one YARP controlboard. Threads of control clients call into
it, and through it into the raw devices, at any time.

    control threads --> CanBusControlboard --> raw device (TechnosoftIpos)
     JointCalibrator      DeviceMapper           |  SdoClient, DriveStatusMachine,
                                                 |  PdoProtocol, NmtProtocol...
    SYNC thread ---synchronize()---------------->|        ^
         |                                       v        | notifyMessage
         +--- SYNC frame -----> YarpCanSenderDelegate     |
                                  | bufferMutex           |
                        writer thread: flush        reader thread --> SdoReplier
                                  v                       |
                               canWrite  ... bus ...  canRead

What the parts have in common is *waiting*: a control thread sends a frame and
blocks in a `StateObserver` until the reader thread has seen the answer, or a
timeout elapses. Everything is asynchronous: frames queue up, may be refused or
dropped, and replies may come before their caller waits or after it has given up.
Variables that threads share are atomic each for itself, or behind a mutex each for
itself; what reads one and writes another is not. A drive can restart at any time.

### Inventory

| Component (source) | State | Operations | Interacts through | What is hard | What makes it correct |
|---|---|---|---|---|---|
| State observer (`StateObserverLib`) | registered semaphore with `count` and `wakeups`, pointer to the caller's storage, `active`, two mutexes | `await`, `notify`, destructor | shared memory, a condition variable | notification, timeout and return in any order; pointers to a caller's stack | nobody writes through a stale pointer; no post is lost; a call returns |
| Transmission queue (`CanRxTxThreads.cpp`, `YarpCanSenderDelegate.cpp`) | `canBuffer`, `preparedMessages` | `prepareMessage`, `flush`, partial writes, errors | `bufferMutex`, CAN driver | full queue, partial writes, drops | order kept, nothing lost except on errors, nothing stays for ever |
| CAN drivers (`CanBusHico`, `CanBusPeak`) | filters, mutex | `canRead`, `canWrite`, `canIdAdd`, `canIdDelete` | system calls; reader and writer thread | one mutex for both directions, held while waiting; few hardware filters | every frame is told of; both threads get their turn; nodes are heard |
| SYNC cycle (`SyncPeriodicThread.cpp`) | period, the queue | `synchronize` of each raw device, SYNC frame, flush | the queue, the writer thread | the writer flushes at any time, the queue refuses | a SYNC separates the setpoints of one period from those of the next |
| Drive status machine (`DriveStatusMachine.cpp`) | controlword, statusword, observer, tables | `update`, `reset`, `controlword`, `requestTransition`, `requestState`, `awaitState` | `stateMutex`, RPDO, statuswords | reads that are stale when used; statuswords of earlier calls; faults | success is about *this* request; no stale word enables a drive; requests end |
| SDO client (`SdoClient.cpp`) | observer, operation of the calling thread | `upload`, `download`, `ping`, `notify` | frames to and from the drive | late replies, lost requests, segments with a toggle bit | a success tells the truth about the dictionary |
| PDO protocol (`PdoProtocol.cpp`) | configuration, identification | `configure`, `write`, `accept` | SDO client | a sequence of transfers, each of which may fail, begun again | a PDO is never valid with half a mapping |
| CANopen node (`CanOpenNode.cpp`, NMT, EMCY) | handlers | `notifyMessage` | reader thread | none by itself | dispatch by COB-ID |
| TechnosoftIpos: modes and life of the node | `actualControlMode`, `requestedcontrolMode`, `enableSync`, `lastNmtState`, `lastHeartbeat` | `setControlModeRaw`, `initialize`, `monitorWorker`, `handleTpdo1`, `handleNmt` | all of the above | monitor, reader and callers write the same atomics; restarts in mid-call | the mode told is the mode of the drive; a node that restarts is configured again |
| TechnosoftIpos: targets | `synchronousCommandTarget`, `prevSyncTarget` | setters of cyclic modes, `synchronize`, `clipSyncPositionTarget` | SYNC thread and callers | targets change while a step is clipped | no step is longer than the maximum velocity allows |
| TechnosoftIpos: moves | controlword bits 4, 6, 8 | `positionMove`, `relativeMove`, `stop`, `handleTpdo1` | callers and reader change one word | lost updates | each accepted move is taken once; a halt ends |
| Interpolated position buffer | queue, integrity counter, flags | `addSetpoint`, `popBatch`, `interpretIpStatus` | `queueMutex`, reader and control threads | the counter wraps; flags left from earlier motions | batches are gapless and in order; motion starts with a full drive |
| TechnosoftIpos: settings, encoder | limits, reference speeds; `EncoderRead` | setters and getters; `setEncoder`, TPDO3 | SDO, monitor thread; reader | restarts between download and store; late frames | host and drive agree |
| Brokers and life cycle (`CanBusBroker.cpp`, `DeviceDriverImpl.cpp`) | threads, bus devices | open, close, failures of open | everything | order of start and stop | no thread outlives what it uses |
| SDO replier (`SdoReplier.cpp`) | the SDO client of the current request | `read`, `notifyMessage` | port threads, reader thread | the client is deleted while the reader looks at it | one reply each, that is true |
| Control interfaces, device mapper (`I*Impl.cpp`, `YarpDeviceMapperLib`) | tables of axes, tasks | every call of 20 interfaces, for one joint, all or a list | thread pool (vendored) | devices without the interface; one raw call of several failing | every joint asked for is reached once, with its own part of the arrays |
| Emulated controlboard | encoders, velocities, targets | moves, stops, `run` | periodic thread and callers | calls between the steps of the thread | joints stop at target and limits |
| Joint calibrator | configurations | `homing...`, `park...` | position control of a device | failures in the middle, overlapping calls | speeds come back; "done" means there |
| Dextra hand | `setpoints` | moves, encoders | serial or CAN link | several callers, messages in pieces | the memory is what the hand was told |
| Absolute encoder Cui, with its firmware | observers, `retry`, `encoder` | `poll`, push start and stop, `notifyMessage` | CAN, the PIC | lost and late answers without numbers | a poll tells a recent position |
| AMOR arm | handle, mode | orders and questions | vendor library | read, change and write all joints | other joints stay |
| Sensors (Wiimote, Phidget, Leap, SpaceNavigator, Jr3) | last event or packet | `read`, threads and handlers | vendor libraries | readings made of parts, threads that wait | readings are whole and recent |
| Lacquey gripper, sharer interfaces, port monitors, programs | none of interest | | | | |

`PROJECT.json` lists every component, its status and, under `hazards`, what in this
code can go wrong that a test would hardly reach, at its line.

## 2. The modules

| Module | Models | Needs |
|---|---|---|
| `ObserverSpec` | what an observer promises: turns, windows, signals | |
| `StateObserver`, `StateObserverProofs` | `StateObserver.cpp`, section by section | `ObserverSpec` (implements it) |
| `CanWriter`, `CanWriterProofs` | the queue of one bus | |
| `SyncCycle` | the SYNC thread over a queue | `CanWriter` (instance) |
| `CanTransfer`, `CanFilters` | `canRead` and `canWrite` of the drivers; acceptance filters | |
| `Cia402` | tables of `DriveStatusMachine.cpp`, and the drive they are about | |
| `DriveStatusMachine`, `DriveStatusMachineProofs` | controllers, mode threads, reader, monitor, drive | `Cia402`, `ObserverSpec` |
| `SdoClient` | SDO operations and an SDO server | `ObserverSpec` (instance) |
| `PdoProtocol` | `configure` over transfers that fail | |
| `CanopenProofs` | proofs about transfers and configurations | `SdoClient`, `PdoProtocol` |
| `IposNode` | control modes, heartbeat monitor, restarts | |
| `IposTargets` | targets of the cyclic modes and the SYNC thread | |
| `IposMoves` | profile positions, stops and the reader's part in them | |
| `IpBuffer` | interpolated positions, with the buffer of the drive | |
| `IposSettings`, `IposEncoder` | limits and reference speeds; the encoder | |
| `IposProofs` | proofs about settings, targets, SYNC cycle and moves | `IposSettings`, `IposTargets`, `SyncCycle`, `IposMoves`, `CanWriterProofs` (instance) |
| `BoardLifecycle` | open and close of `CanBusControlboard` | |
| `CanBusProofs` | proofs about drivers, filters and the life of a board | `CanTransfer`, `CanFilters`, `BoardLifecycle` |
| `MotorInterfaces`, `Controlboard` | the interfaces, and how calls are mapped and carried out | |
| `SdoReplier` | remote SDO requests | |
| `DextraHand`, `DextraHandProofs` | the hand, its clients and the serial or CAN link | |
| `EmulatedJoints`, `JointCalibrator`, `CuiEncoder` | the device of that name | |
| `AmorArm` | orders to the arm and questions about it | |
| `DeviceProofs` | proofs about control modes and about the arm | `IposNode`, `AmorArm` |
| `WiimoteSensor`, `AnalogSensors` | the sensors | |
| `MC...` | instances for TLC | |

The layering is the argument: the observer is modelled once at the level of its
mutexes and semaphore and *proved* to implement `ObserverSpec`; modules whose code
waits in an observer instantiate `ObserverSpec` in its place, or take a wait for one
step where nothing in them depends on more. What `SdoClient` shows of a transfer (it
may fail although the drive has obeyed) is what `PdoProtocol`, `IposNode`,
`IposSettings` and `IposEncoder` assume of one; what `CanWriter` shows of the queue
(it refuses, or it keeps the order) is what all senders assume.

In all modules an action is a section of code between two points at which another
thread may do something that matters. Names of actions are those of functions where
a function is one action. Variables marked *ghost* are history that only properties
read.

### 2.1 StateObserver and ObserverSpec

`await` is `Call` (the caller brings its storage), `LockAwait`, `CheckInactive` or
`CheckActive` (the test of `active`), `Register` (a new semaphore and the
storage, under `registryMutex`), `SemWait` (`wait` up to the condition variable),
`SemWake` or `SemTimeout` (`wait_for` ends with its predicate true or false, and the
counters are put in order), and `Unregister`. `notify` is `NotifyCheck` and
`NotifyLocked`; the destructor is `Deactivate` and `InterruptLocked`. `MaxCount`
bounds how often one semaphore is posted.

`ObserverSpec` has four states of a call and no mutex. The refinement mapping reads
"woken" off the counters: before the wait, `count > 0`; asleep, `wakeups > 0`;
afterwards, the verdict.

### 2.2 CanWriter, SyncCycle, CanTransfer, CanFilters

Whatever runs under `bufferMutex` is one action: `PrepareMessage`, `RefuseMessage`,
`FlushNothing`, `FlushError` (bus off, or a failing `canWrite` after k frames: the
whole queue is dropped) and `FlushWrite` (`handlePartialWrite` included). A message
is its ordinal among those accepted, so that order and loss can be stated. In
`SyncCycle`, `next` walks over the handles of the bus, the SYNC frame and the flush,
while `WriterFlush` and `PrepareOther` happen at any time.

`CanTransfer` has the reader and the writer on one driver: `Lock` is
`canBusReady`, `Ready` and `Timeout` are `waitUntilTimeout`, `MoveOne` is the
loop of Hico, `MoveList` the call of Peak. `CanFilters` computes masks and ranges as
the two drivers do, from the set of identifiers; `endless` is the loop of
`FilterManager.cpp:227` that never ends.

### 2.3 Cia402 and DriveStatusMachine

A word is the set of its 1 bits. `Cia402` holds the four tables of the source and,
external, how a CiA 402 drive decodes a controlword, moves, and encodes its
statusword; bit 5 is free in the states where the standard leaves it free. Every call
to the class takes and gives back `stateMutex`, so that each is an action: `FindPath`,
`FindTransition`, `ReadWord`, `Write`/`WriteFails`, `Store`, `Check`, the steps of
the observer, `Recheck` and `Proceed` for a controller; `ReadMode`, `Write`, `Store`
for a *mode thread*, which stands for every `controlword(controlword().set(...))` of
`TechnosoftIpos`; `Update` for the reader; `Reset` for the monitor.

### 2.4 SdoClient and PdoProtocol

`Send` is the first half of `performTransfer`, `OpenWindow`, `Expire` and `Return`
its wait, and one action per branch handles the reply. An object holds one value per
segment, an expedited one a single value (`Contents`, `Plain`); `by` in a frame is a ghost: which transfer it belongs to. The server is external: one
session, toggle bit checked, allowed to abort at any time.

`PdoProtocol` lays out the downloads of `configure` (`Downloads`), in the order of the
source: PDO invalid, parameters, mapping emptied, filled and counted, PDO valid.
`DownloadNext` and `Fail` take them one by one; an option that is illegal for the
type of the PDO is found when its turn comes.

### 2.5 The Technosoft drive

`IposNode`: a call is a list of steps (`nodeCall[t].todo`), each a request to the drive or
a wait, so that `setControlModeRaw` and `initialize` of two threads interleave at
each of them. `Read` is the reader with a TPDO1 (modes, then statusword), a boot-up
message or a reply; `Look`, `ResetNode`, `Lost`, `Reinitialize`... are
`monitorWorker`. The drive obeys at once or the request is lost, faults and restarts.

`IposTargets` takes the atomics of `StateVariables` one by one:
`clipSyncPositionTarget` reads the target, the previous target, stores and, when the
step is short enough, reads the target again. `IposMoves` splits each change of the
controlword into reading it, sending the changed word and storing that, for callers
(`positionMove`, `stop`) and for the reader. `IpBuffer` has the queue of the host, the
batches on their way and the buffer of the drive; points are numbered. `IposSettings`
puts a step between the download of a setting and its assignment, and lets the drive
restart there; `IposEncoder` does so for the position, with frames on their way.

### 2.6 Boards

`BoardLifecycle`: every step of `open` may fail (`ok`), after which `close` takes down
what there is. `MotorInterfaces` is the table of all calls with their interface
and kind, `Controlboard` what mapping makes of a call: a plan of tasks, carried out in
the calling thread (or, with `Pools`, by the pool that `DeviceMapper` offers and no
plugin enables), and how results and flags are put together.
`SdoReplier` numbers the clients it creates, so that following a pointer to one that is
gone can be told (`crashed`).

### 2.7 Other devices

`EmulatedJoints` steps through `run` (`getEncsRaw`, `Move`, `Check`, `StopVelocity`,
`StopStatus`, `setEncsRaw`) and lets calls in between, each assignment a step.
`JointCalibrator` steps through `move`, every call of the device may fail.
`DextraHand` sends a message whole (serial) or in pieces (CAN) and stores it
afterwards. `CuiEncoder` has the host with its retries, the firmware with its one
receive buffer, and the wire. `AmorArm` reads, changes and writes vectors of all
joints. `WiimoteSensor` is the dispatcher thread, `AnalogSensors` the four devices
that are read directly.

## 3. The runs

A run is expensive to start and cheap to share, so each passing run checks several
modules: its MC module has a variable `part`, chosen in the initial state and never
changed, and slots `s1`, `s2`... that each part uses for the variables of its module
(the parts whose modules the MC module extends use the variables of these: among them are
all that section 4 proves something about).
The states of a run are the disjoint union of those of its parts. A property of
the run is that of its module under the condition that its part was chosen; where two
modules promise the same kind of thing, one property of the run has both as
conjuncts (its comment says which). Fairness is that of the modules.

| Run | Distinct states | Parts |
|---|---|---|
| `canopen` (`MCCanopen`, `Canopen.cfg`) | 373,838 | observer, alone, lateDrive, pdo, timely, lateSdo |
| `can_writer` (`MCCanWriter`, `CanWriter.cfg`) | 218,138 | wire, life, transfer, filters, cui, emulated, wiimote |
| `clients` (`MCClients`, `Clients.cfg`) | 3,233,373 | drive, targets, settings, node, cyclic, calls, hand, home, encoder, replier, sensors |
| `ipos` (`MCIpos`, `Ipos.cfg`) | 493,515 | arm, boot, buffered, moves |

What each shows:

- *canopen*: the observer keeps its windows apart and implements `ObserverSpec`
  (`OneWindow`, `WakeupBalance`, `WritesOnlyInWindow`, `ImplementsObserverSpec`), and a
  call that has its turn returns (`GrantedCallReturns`). A request that succeeds is about
  itself, while the drive is in time, and the tables are those of the drive, in time or
  not (`DriveIsKnown`). A PDO that is valid has a whole mapping
  (`ValidMeansWhole`), a success means configured (`SuccessMeansConfigured`). Uploads
  and downloads tell the truth about each segment (`SuccessTellsTheDictionary`, with
  replies in time). Requests and operations end, whatever is lost (`CallsEnd`).
- *can_writer*: frames leave in order, all of them but those a failed flush dropped
  (`WireInOrder`, `Conservation`, `EveryMessageLeaves`). Boards come up and go down
  with nothing dangling and nodes left in reset (`NothingDangling`,
  `LastWordIsReset`). Drivers tell of every frame (`EveryFrameCounts`), and nodes with
  neighbours are heard (`NeighboursAreHeard`). Polls of
  the encoder are recent (`PollIsRecent`). Emulated joints stop where they should, and
  published events are those that came (`MovesAndReadsAreTrue`). Reader and writer take turns, moves, requests and `close`
  end (`WaitsEnd`).
- *clients*: no stale word enables a drive that nobody asked to enable
  (`NeverEnabledUnasked`), and the program believes of it what is the case
  (`TablesMatchDrive`); steps are bounded (`StepsAreBounded`); settings survive
  restarts and homing (`SettingsSurvive`); modes are those of the drive
  (`ModesAreTrue`, which has `SuccessMeansSelected` for all modes); cycles are whole
  (`CyclesAreWhole`); what callers are told is true (`AnswersAreTrue`); the hand is what
  the board remembers (`MemoryIsHand`).
- *ipos*: interpolated points arrive in order and the drive complains only after a loss
  (`PointsInOrder`, `TroubleOnlyAfterLoss`), motion starts with a full drive
  (`StartsFull`); moves are taken once, with their own target (`MovesAreTaken`); motions
  begin, halts end, restarted nodes are configured (`WhatBeginsEnds`), and a quiet node
  shows the mode of its drive (`ModeIsShown`), which is in the mode that a call said it is in
  (`SuccessMeansSelected`). Joints of the
  AMOR arm nobody asked for stay (`UnaskedStays`).

Why the bounds are enough:

- *observer*: two waiters contend for `awaitMutex` and reuse what the first left
  behind; two notifiers and the destructor post on one semaphore. *wire*: three slots
  and six messages fill the queue twice over. *life*: two buses, one node
  alone on its bus, one fake, one without monitor. The proofs cover every other size.
- *alone*, *lateDrive*: two frames each way let a change of the drive come behind an older one;
  three goals, both single transitions. *drive*: a controller, a mode thread, the
  monitor and no timing at all; one frame each way suffices, since the stale words are
  those of the threads. The part ends where somebody asks for enabling, since
  `NeverEnabledUnasked` promises nothing from there on; `canopen` has the drive enabled.
  *settings* and *home* end in the same way where threads mix their settings, or two
  procedures have a joint in common (`Excused`).
- *pdo*: `valid` and `rtr` with each value or none, no parameter, one, two and all of
  them, no mapping, a shorter and a longer one, any number of repetitions. *timely*: three segments, so that the toggle bit takes both
  values and one twice; two values, so that a mix-up shows. *lateSdo*: one
  expedited object and one of two segments; any frame may be late or lost.
- *cyclic*: two drives, two periods, three slots: one period just fits, so that any
  other message makes the queue refuse a setpoint or the SYNC.
- *node*: a mode of each kind and both ways to implement it, and one mishap (fault, restart,
  loss, late heartbeat) at any point, which is also what a call is able to recover from.
- *buffered*: batches of two and three around a counter of three bits, from two below
  its end, and eight points, which go round it once. *moves*: two calls, so that a move meets a move or a stop; any word may
  be refused. *targets*: steps of one, targets of two: each needs clipping.
- *settings*: two calls of a client and one restart, in any order. *encoder*: two
  frames and two calls, so that a frame sent before is handled after.
- *calls*: four devices of different abilities, lists that repeat, come back and ask too
  much, with and without a pool. *arm*, *hand*, *home*: two clients and two
  orders meet at any step. *filters*: six identifiers, of which some are neighbours,
  for two hardware filters.
- *transfer*: three frames for calls of two. *cui*: two readings that need
  normalisation, two tries. *emulated*: two orders and steps of two, which miss
  targets and limits by one. *wiimote*, *sensors*, *replier*: two or three events
  for each kind of them.

Deadlock is checked in all runs, since no `.cfg` switches it off.

### Assumptions of fairness

An MC module states the fairness of each of its modules for the steps of that part
(`part = "node" /\ Step(t)`): in any other part such a step is never enabled.

- `GrantedCallReturns`: a thread that holds `awaitMutex` is scheduled, and `wait_for` is
  timed. `LockAwait` is not fair, since `std::mutex` is not.
- `EveryMessageLeaves`: the writer runs every few milliseconds
  (`CanRxTxThreads.cpp:216-227`) and the controller takes at least one frame in the end.
- `CallsEnd`: threads run; what was sent is taken by the drive and statuswords are
  handled. Nothing obliges the drive to report, and SDO frames need not arrive.
- `WaitsEnd`: threads within a call run. `Lock` of a driver is *strongly* fair: the
  mutex knows no order, but each thread sleeps between two calls
  (`CanRxTxThreads.cpp:73`), so that the other one finds it free again and again. The
  timer of the emulated board's thread fires. The firmware is a loop. The Wiimote's
  thread runs when `poll` returns; nothing makes events come.
- `WhatBeginsEnds`: in `IposNode`, `Step` and `Monitor` are strongly fair, since a
  thread may wait for a reply, or the monitor for its period, that comes and goes; a
  restarting drive sends its message, which is read. In `IposMoves` the event timer of
  TPDO1, which `initialize` configures, sends the statusword again.

### What the violations show

1. `await_gives_up` (`DriveStatusMachine.cpp:239-244`). `awaitState` compares the state,
   then registers with the observer. A statusword handled in between is stored and
   notifies nobody: `NoWaitForWhatIsThere` fails where the wait begins in the goal with
   no frame under way, so that it can only time out, and the call returns false. The
   header promises to await "until drive reaches given state".
2. `sdo_late_reply` (`SdoClient.cpp:344`). After a timeout nothing tells the drive to
   abort, and a reply names the object, not the request: the late reply to one operation
   ends the next one on the same object well.
3. `pdo_unset_valid` (`PdoProtocol.cpp:204`). A configuration that does not call
   `setValid` switches on a PDO that was off; the header says a value without a
   setter is left alone.
4. `await_mode` (`StateVariables.cpp:260`). Any change of mode ends the wait for one well.
5. `buffer_stays` (`IRemoteVariablesRawImpl.cpp:86`). The check of the requested mode is
   over when the buffer is deleted; a change of mode in between uses it.
6. `hico_filters` (`FilterManager.cpp:227`). `i < seq.size()` where `j` is meant: lone
   identifiers get no filter, or the loop reads past the end for ever, whether they come
   with `open` (`parseIds`, as in the trace) or with `canIdAdd`.
7. `stop_is_kept` (`TechnosoftIpos.cpp:294`). The reader and `stop` change the same word;
   the halt bit is lost and the joint moves on.
8. `cui_push` (`CuiAbsolute.cpp:31`). The thread that has asked for push mode and got the
   acknowledgement normalises it through a null pointer.

Counterexamples that are findings of no document, and for which properties are stated
in a weaker form (the ghosts that excuse them are named): `SuccessIsFresh` is
restricted to states with power on, because bit 5 wakes a waiter although the state is
the same; a stale word can undo a quick stop; a call that returns early may store a mode
over one the reader has just set, and a TPDO1 between the two stores of
`TechnosoftIpos.cpp:546-549` is wiped by the second one (`masked`); settings that cross a restart are stored
and loaded differently for good (`torn`), and a `refSpeed` above a velocity limit that
was lowered later makes every `initialize` after a restart fail; a position frame sent
before `setEncoder` reverts it for a period (`crossed`); a target written while the
SYNC thread clips makes a longer step (`torn`); joints of the emulated board that are
ordered while they are stopped lose the order or run away (`raced`); homing that fails
midway leaves the speeds of homing (`spoiled`); requests to the SDO replier that are too
short, or overlap, end the process (`short`, `overlapped`, `tight`); an order to all
joints of AMOR adds to uninitialised memory (`wild`); over CAN each frame to the Dextra
hand repeats the first eight bytes; two callers of one Cui encoder break `PollIsRecent`.

## 4. What is proved

The theorems hold for every value of the constants that the named assumptions allow;
none uses the bounds of a run. Each proof is an invariant with one lemma per group of
actions, and a last temporal step. Where a part of an invariant stands under a condition
(`~torn`, `~clashed`...), that is the ghost which excuses the property itself.

- **`StateObserverProofs`** (any waiters, notifiers, payloads; `NoWaiterAssumption`,
  `MaxCountAssumption`). `IInv` is the type invariant, `OneWindow`, `WakeupBalance` and
  `SettledOnLeave`: what a call finds on its semaphore when it leaves must be known, or
  else the next semaphore could start in debt. From it follow `TypeCorrect`,
  `WindowIsOwned`, `NoPostIsLost`, and the action property `WritesAreOwned`: nobody
  writes to the stack of a call that has gone. `Refinement` shows that the observer
  implements `ObserverSpec`, action by action: a `notify` that comes between
  registration and wait maps to the same `Signal` as one that comes during it.
- **`CanWriterProofs`** (any buffer size, any bound on messages;
  `BufferSizeAssumption`, `MaxAcceptedAssumption`). `Fifo` and `NothingElseIsLost` are
  not inductive: that the wire is in order after a partial write needs
  `BufferIsTail` (the buffer holds the last accepted messages) and
  `WireBeforeBuffer` (all that is on the wire is older than what waits).
- **`CanBusProofs`**, four parts.
  *Drivers* (any ways to open one, sizes of calls, frames, errors; `ConstantsFit`).
  `TransferTyped` and `NoFrameUncounted`: a call that returns true tells of each frame it
  has moved. This is about calls that have returned; the invariant says of one under way
  that its count agrees with the interface and has room for another frame (`Counted`),
  which holds because only it has the mutex (`Exclusive`).
  *Boards* (any buses, nodes and assignment of nodes to buses; `BusOfAssumption`).
  `LifecycleNothingDangling` and `LifecycleLastWordIsReset`, from an invariant in three
  parts: what is there while the board is built (`Building`), what `finalize` has done
  (`Finalizing`), and that threads go before brokers, brokers before nodes and nodes
  before bus devices (`Shrinking`).
  *Filters* (any set of identifiers of nodes, any capacity; `FiltersFit`).
  `FiltersAreTyped`, and `AllNeighboursHeard`: what passes the filters of the interface
  includes the frames of each node that has a neighbour, and for Peak of each node. The
  property speaks of what passes now; `RunsHeard` and `PeakHeard` say which filters those
  are that an earlier, successful call has left. That every run of consecutive
  identifiers is inside one range takes induction, for which the least element of a set of
  numbers stands in (`HasLeast`, `AllNumbers`).
  *The encoder* (any places of the shaft, repetitions, frames under way and losses;
  `PromptPic`). `PollsAreRecent`: a poll that succeeds tells where the shaft has been
  during the call. An answer does not say which request it answers, so this is about
  what is left over: no answer is ahead when a request is sent, and one at most while
  its sender waits (`OneAhead`, `AnswersAreOwn`), which was made during the call. `ByMode`
  keeps the streams of push mode apart from polls. `PromptPic` asks for one caller and a
  timeout that fires only when no answer comes any more; without either TLC finds an
  old place in a new call. `EncoderIsTyped` is the type invariant.
- **`DriveStatusMachineProofs`** (any controllers and mode threads, frames under way,
  timeouts; `ConstantsFit`). `NotEnabledUnasked`: until a call goes for ENABLE_OPERATION
  no stale statusword or stored controlword enables the drive. `Unasked` follows bit 3
  through every place in which it could be: transitions looked up, words that threads
  have read and not sent, words under way, the stored word, and, since `update` makes a
  controlword of a statusword, the statuswords under way. `Told` adds that the last
  statusword under way tells the state of the drive, whence `BeliefHolds`: when none is,
  the program believes what is the case. `TablesHold` is all of `TablesMatchDrive`: to this it
  adds the tables of the source, compared with the drive for each state, transition and
  further bits of the stored word (`DriveObeysTable`), and their paths, none of which has a
  shorter one to its goal (`PathsShortest`, for which `Reached` is unrolled as far as
  the longest path goes, `Unrolled`);
  `MachineTyped` is the type invariant.
- **`CanopenProofs`**, two parts.
  *Configurations* (any configurations, any number of objects; `ConstantsFit`).
  `NeverHalfMapped`: a valid PDO has its old mapping or the new one. Downloads are numbered
  by their place (`IsDownload`, from lemmas about the sequence that `configure` lays
  out); `Progress` says what is done when the k-th is due, above all that the PDO is
  off until the last one, and `Whole` that a mapping nobody configures stays.
  `AllIsConfigured`: a success means that drive and configuration agree, whatever earlier
  attempts have left behind; for this `Progress` also says which parameters and slots
  are done, and `Kept` what no attempt changes. `ConfigureTyped` is the type invariant.
  *Transfers* (any threads, objects, contents, numbers of segments and of frames, and any
  loss; `SdoFits`). `SuccessTells`: a download that succeeds has put each segment in its
  place, and what an upload has received is what is there. No reply says which
  request it answers, so this needs `OneThread`: a single caller, whose transfers do not
  time out while a frame is under way (`sdo_late_reply` shows what happens otherwise). Then
  at most one frame is under way (`InTurn`): the request in turn, while the session of the
  server has the parts the client has (`Ready`), or the reply to it, which is true while
  the session has what the client will have (`TrueReply`); `Uploaded` says that what was
  received stays true. `ExpeditedIsTheObject` needs neither: given the values each object ever
  holds (`HoldsOnly`, for any assignment `held` of values to objects), an expedited upload
  returns one that its own object has held (`AllFromObject`: so does every reply under
  way), for any threads and however late. `SdoIsTyped` is the type invariant.
- **`IposProofs`**, four parts.
  *Settings* (any clients, limits, speeds, scales, calls, restarts; `SettingsFit`).
  `SettingsStay`: a configured drive has the stored limits and reference speeds.
  `Settled` says which settings a drive that is being configured has already, and that
  what was downloaded and is yet to be stored is loaded; `AtWork` that whoever stores
  is at the head of its list. `SettingsAreTyped` is the type invariant.
  *Targets* (any clients, units, velocities, refusals; `UnitsAssumption`). `Bounded`: a
  cyclic position departs from the one sent last by no more than the maximum velocity
  allows, times the periods in which the queue refused it. By itself this is true only
  when the step is taken. `Ahead` says how far the previous target may have run ahead of
  what was sent, `Current` that what the SYNC thread has read is still so, `OneStep` what
  it is about to send, and `Prepared` that a client which prepares direct positions is
  alone in doing so. All four are under `~torn`: a client that writes a target while the
  SYNC thread clips breaks them.
  *SYNC cycle* (any list of drives, any queue and any other traffic; `CycleFits`). The
  queue of a period is a queue: `IsQueue` shows that `SyncCycle` takes the steps of
  `CanWriter`, so that the invariant of `CanWriterProofs` holds of it and the wire is an
  ordered part of what was accepted. What remains is that the thread gets its messages
  accepted in order: no message is of a period that has not begun, and the SYNC of the
  current one is not in the queue before its turn (`Begun`), whence `AcceptedInOrder`.
  `PeriodsStayApart`: a SYNC on the wire is behind the setpoints of its own period and
  before those of the next, whatever was refused, dropped or flushed by others.
  `SetpointsDoNotPileUp` (between two SYNCs on the wire a drive gets no more setpoints
  than periods went by) needs in addition that no drive is listed twice
  (`NoHandleTwice`: `open` registers each node with the reader once), and the invariant
  `Tidy`. `CyclesStayWhole` is both.
  *Moves* (any targets, orders, calls, frames; `MovesFit` and `OneCaller`).
  `EveryMoveTaken`: every move for which true was returned is taken, with its own
  target, once and in order. The drive takes a move when bit 4 rises, and both queues may
  hold any number of frames. `Tame(k)` says what they look like: bit 4 only falls along
  the words under way (`Chain`), but for one rise at most, at place k, which is the move
  ordered and not yet taken (`Rising`); if the last word has bit 4 and no rise is under
  way, then a statusword with bit 12 is on its way or in the hands of the reader
  (`AckComes`), and it comes before the reply to a transfer, so that the next move
  finds bit 4 low (`Lowered`); the target in the drive is that of the move in hand
  (`Asks`, `Transfers`); and what the reader is going to send or store does not raise the
  bit (`Reads`, `Stored`). `OneCaller` asks for one caller and a drive that tells a change
  at once, and both are needed: TLC finds two moves taken as one when two callers raise
  the bit in two words, and when the drive holds the acknowledgement back until the
  next transfer is answered. The theorem excuses what the property does: a queue that
  refuses a word of the reader, and reader and client changing the word at once while
  a stop is asked for.
- **`DextraHandProofs`** (any fingers, clients, bounds of setpoints and pieces of a
  message; `HandFits`). `EncodersAreHand`: when all is quiet, the memory of the board is
  what the hand does. The invariant is about the setpoints the hand will have when it has
  received what is on its way (`Latest`): over the serial port pieces follow each
  other without a gap (`Gapless`), and `Told` relates `Latest` to the memory and to what
  a client sends and has not stored; `Alone` says who interfered. `HandIsTyped` is the
  type invariant.
- **`DeviceProofs`**, three parts.
  *Control modes* (any modes and ways to implement them, any number of mishaps;
  `NodeAssumption`). `ModesAreShown`: when nothing is under way and everybody is at rest,
  a drive with power in a mode the program knows shows that mode, and the fault of a drive is
  shown. `Told` is about what the reader will have heard: the last TPDO1 under way tells the mode
  and the state the drive is in, and if none is, the program has both already, unless `masked`.
  Everything that changes the drive sends a TPDO1 behind those on their way, and the
  reader takes them in order, so that this holds at any time, for any threads and whether or
  not the drive is prompt. `NodeIsTyped` is the type invariant, which lists for each step
  of a call where it may stand.
  *Calls that return true* (any modes, `Apart`, `CyclicIsOne`; any drive, `PromptNode` or not).
  `SuccessSelects`: a call that returned true, with no failed one before it, has left the drive
  enabled, in the mode, mapped, and the mode shown. That a step was answered says nothing of
  the mode, which `awaitControlMode` reads in what a TPDO1 told, so that the invariant has to say
  for each point of a call (`Stage`) what the drive is in, what is shown, and what TPDO1s are
  under way. `Wire` puts TPDO1s and the reply to a request in order: a TPDO1 that shows the mode
  before is read before the reply to the request that selects the new one, so that it wakes no wait
  for it, and all that come later show the new one, however late they are. `Plain` says that
  what the drive is told to be in, shows or is shown as is told apart by `handleTpdo1`, which makes
  a mode that is shown the one of the drive, with its setpoints on or off (`ShownRight`, in any step
  of a call); a call that has waited for it has it shown (`Turning`). `RpcHeld` keeps a new
  configuration away from calls, and `Calm` says that all is well, which is what `last.clean`
  stands for: after a fault, a failed call or a reboot nothing is claimed.
  TLC finds the property violated without `Apart` (a mode is mapped by one
  configuration and shown by the other) and without `CyclicIsOne`, which says that `enableCsv`
  comes with an `ipBuffer`: without one POSITION_DIRECT is cyclic position, which
  `handleTpdo1` shows as VELOCITY if `enableCsv` is set, and a call for POSITION_DIRECT returns
  true with VELOCITY shown. The runs have a drive that is prompt: that it need not be is proved only.
  *The arm* (any joints, clients, lists, references; `TopAssumption`).
  `Undisturbed`: joints that nobody asked for stay. An order writes a vector read
  earlier, so that the local vectors of all clients (`LocalStays`) and both
  states of the arm (`ArmStays`) belong to the invariant.

Only model-checked: liveness, which would need `ENABLED`; `SuccessIsFresh`, `StoredWordIsHarmless`,
`SyncMatchesMap` of `IposNode`, `IpBuffer` and the remaining modules, whose
invariants have been stated but not strengthened to inductive ones.

## 5. Not modelled

Whole components:

- *CANopen node* dispatch: `notifyMessage` selects a handler by COB-ID and parses; what
  the handlers do is in the modules of their owners. NMT commands and heartbeats are steps
  of `IposNode`.
- *Lacquey gripper*: one conversion of a command into a frame. *CAN sharer interfaces*:
  declarations, and fixed-point conversions. *Port monitors*: conversion of
  messages. None keeps a state.
- *Programs*: command lines and user interfaces over interfaces that are modelled.
- *TextilesHand, AravisGigE, FakeJoint*: a byte on a serial port, a camera library, and
  a device that does nothing and answers true to everything.
- *Firmware*: of the PIC of the absolute encoder, the command loop is in `CuiEncoder`;
  `ECAN.c` and `ECAN.h`, the registers of its CAN controller, are a vendor's library.
- `nonstd/optional.hpp` is vendored.

Within modelled components:

- *Time stamps, dumps of messages, bus load*: the ports of `CanRxTxThreads`,
  `SyncPeriodicThread` and `BusLoadMonitor` tell of frames and influence none.
- *Sizes*: SDO data has the size of its object, records of the interpolation buffer
  and PDOs are not packed into bytes. The one boundary that is visible in the code (the
  empty string of `SdoClient.cpp:219`) is listed as a hazard.
- *Two threads on one `SdoClient`*: nothing holds a send and its wait together, and no
  property is left to state.
- *After a destructor*: a caller that has passed the check of `active`
  (`StateObserver.cpp:83`) uses memory that is gone.
- *`IposNode` with `IpBuffer`*: that the reader uses a deleted buffer lies between them;
  their product is beyond TLC. The violation `buffer_stays` shows the half of it that
  is in `IposNode`.
- *Drivers*: `CanBusSocket` and `CanBusFake` keep no state; bit rates are stored and
  not used again. Hico cannot delete identifiers once its filters have overflowed; Peak
  is left with code 0 and mask 0x780 after the last deletion; both are in
  `CanFilters`, but nothing is promised about them.
- *Thread pool*: vendored; `Controlboard` assumes that tasks run, each once, in any
  order. `enableParallelization` is never called by the board: the pool is modelled
  because `DeviceMapper` offers it. Joints of a group are not checked for their range, and
  a list that comes back to a device runs that device twice at once.
- *Several `setRemoteVariable` entries*: the first that fails ends the call, entries
  before it stay set. `Controlboard` does so; no property says more.
- *Emulated board*: one speed for all joints, and positions within a horizon.
  Setters of control modes are declared and defined nowhere. `relativeMove` of all
  joints by zero leaves a speed that is no number; the index check `j > axes` is off by
  one.
- *Life cycle*: ports, parsing of the configuration and a null `busLoadMonitor` in
  `createPorts`. The writer thread does not flush on stop, so that the last
  RESET_NODE may stay in the queue: `LastWordIsReset` is about the word, not the wire.
- *iPOS*: reports about faults, currents and temperatures, fixed answers of getters.
  `getMotorEncodersRaw` returns the speed, and the first frame after a configuration
  shows as a jump of the speed; a stop of a joint at rest leaves the halt bit until
  a statusword with bit 10.
- *Dextra*: the parser of replies (called by nobody) and the checksum. Setpoints
  are uninitialized until the first move, `setEncoder` changes the memory and not the
  hand, and `stop` is refused.
- *Sensors*: `PhidgetSpatial::close` leaves its data handler registered; the event of
  the Wiimote is a member without a value until the first event, and `yawActive` is
  shared by all instances; of the requests to Jr3 only the last is looked at.

## 6. State of the plan

Done, in the order in which it was planned: the observer, the queue, the SYNC cycle,
drive status machine, SDO and PDO; the Technosoft drive (modes and restarts,
interpolation, targets, moves, settings, encoder); boards (life cycle, mapping, remote
requests); drivers, the other devices and sensors; the proofs of section 4.

What would come next: `SuccessIsFresh` of `DriveStatusMachine`, whose invariant must
follow each controlword to the statuswords that tell of it; `HomedIsHome` of `JointCalibrator` and `DoneAtTarget` of
`EmulatedJoints`; and the composition of `IposNode` with `IpBuffer` on an instance that
TLC can finish.
