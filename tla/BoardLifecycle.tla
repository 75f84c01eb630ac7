--------------------------- MODULE BoardLifecycle ---------------------------
(***************************************************************************)
(* CanBusControlboard from open to close: devices of buses and nodes,       *)
(* brokers with a reader and a writer thread each, the monitor threads of   *)
(* the nodes and the SYNC thread. Any step of open may fail; the destructor *)
(* closes what there is. What each thread uses must outlive it.             *)
(*                                                                         *)
(* The order of the buses, and of the nodes of a bus, is that of the        *)
(* configuration in the code and any order here.                            *)
(***************************************************************************)
EXTENDS FiniteSets

CONSTANTS Buses, Nodes,
          BusOf,     \* the bus each node is listed under
          Fake,      \* buses and nodes of this kind have no broker, and are not attached to one
          Monitored, \* the nodes with a monitorPeriod
          WithSync   \* whether there is a syncPeriod

ASSUME BusOfAssumption == BusOf \in [Nodes -> Buses]

VARIABLES
  phase,      \* what open or close is at
  busDevices, \* buses whose device has been created
  brokers,    \* buses whose broker has been created
  done,       \* buses open is done with
  node,       \* "none", or how far a node got: "open", "mapped" by the DeviceMapper, "attached" to its broker
  tried,      \* nodes open has tried to initialize
  finalized,  \* nodes close has finalized
  readers, writers, monitors, \* the threads that run, by bus and by node
  syncThread, \* "none", "made" or "running"
  configured  \* nodes whose drive is configured, by open or by their monitor

boardVars == <<phase, busDevices, brokers, done, node, tried, finalized, readers, writers, monitors, syncThread, configured>>

Mapped == {n \in Nodes : node[n] \in {"mapped", "attached"}}
Attached == {n \in Nodes : node[n] = "attached"}
Settled(n) == node[n] = "attached" \/ (node[n] = "mapped" /\ {n, BusOf[n]} \cap Fake # {})

BoardInit ==
  /\ phase = "buses" /\ syncThread = "none"
  /\ busDevices = {} /\ brokers = {} /\ done = {} /\ tried = {} /\ finalized = {}
  /\ readers = {} /\ writers = {} /\ monitors = {} /\ configured = {}
  /\ node = [n \in Nodes |-> "none"]

-----------------------------------------------------------------------------
(* open; a step that fails leaves what it has made *)

Unless(ok) == phase' = IF ok THEN phase ELSE "failed"

OpenBus(b, ok) ==
  /\ phase = "buses" /\ busDevices = done /\ b \notin busDevices
  /\ busDevices' = busDevices \cup {b} /\ Unless(ok)
  /\ UNCHANGED <<brokers, done, node, tried, finalized, readers, writers, monitors, syncThread, configured>>

\* new CanBusBroker, configure, registerDevice
AddBroker(b, ok) ==
  /\ phase = "buses" /\ b \in busDevices \ done /\ b \notin Fake \cup brokers
  /\ brokers' = brokers \cup {b} /\ Unless(ok)
  /\ UNCHANGED <<busDevices, done, node, tried, finalized, readers, writers, monitors, syncThread, configured>>

\* A node starts its monitor when it is opened.
OpenNode(n, ok) ==
  /\ phase = "buses" /\ BusOf[n] \in busDevices \ done /\ BusOf[n] \in Fake \cup brokers
  /\ node[n] = "none" /\ \A m \in Nodes : node[m] = "none" \/ Settled(m)
  /\ node' = [node EXCEPT ![n] = "open"] /\ Unless(ok)
  /\ monitors' = IF ok /\ n \in Monitored THEN monitors \cup {n} ELSE monitors
  /\ UNCHANGED <<busDevices, brokers, done, tried, finalized, readers, writers, syncThread, configured>>

MapNode(n, ok) ==
  /\ phase = "buses" /\ node[n] = "open"
  /\ node' = (IF ok THEN [node EXCEPT ![n] = "mapped"] ELSE node) /\ Unless(ok)
  /\ UNCHANGED <<busDevices, brokers, done, tried, finalized, readers, writers, monitors, syncThread, configured>>

\* The reader gets the node, the node the delegate of the writer.
AttachNode(n, ok) ==
  /\ phase = "buses" /\ node[n] = "mapped" /\ {n, BusOf[n]} \cap Fake = {}
  /\ node' = (IF ok THEN [node EXCEPT ![n] = "attached"] ELSE node) /\ Unless(ok)
  /\ UNCHANGED <<busDevices, brokers, done, tried, finalized, readers, writers, monitors, syncThread, configured>>

\* addFilters, if enabled
FinishBus(b, ok) ==
  /\ phase = "buses" /\ b \in busDevices \ done /\ b \in Fake \cup brokers
  /\ \A n \in Nodes : BusOf[n] = b => Settled(n)
  /\ done' = (IF ok THEN done \cup {b} ELSE done) /\ Unless(ok)
  /\ UNCHANGED <<busDevices, brokers, node, tried, finalized, readers, writers, monitors, syncThread, configured>>

StartReader(b, ok) ==
  /\ phase = "buses" /\ done = Buses /\ b \in brokers \ readers /\ readers = writers
  /\ readers' = (IF ok THEN readers \cup {b} ELSE readers) /\ Unless(ok)
  /\ UNCHANGED <<busDevices, brokers, done, node, tried, finalized, writers, monitors, syncThread, configured>>

StartWriter(b, ok) ==
  /\ phase = "buses" /\ b \in readers \ writers
  /\ writers' = (IF ok THEN writers \cup {b} ELSE writers) /\ Unless(ok)
  /\ UNCHANGED <<busDevices, brokers, done, node, tried, finalized, readers, monitors, syncThread, configured>>

\* A node that cannot be initialized is reported, no more.
InitializeNode(n, ok) ==
  /\ phase = "buses" /\ done = Buses /\ writers = brokers /\ n \in Mapped \ tried
  /\ tried' = tried \cup {n}
  /\ configured' = IF ok /\ n \in Attached THEN configured \cup {n} ELSE configured
  /\ UNCHANGED <<phase, busDevices, brokers, done, node, finalized, readers, writers, monitors, syncThread>>

\* new SyncPeriodicThread, openPort
MakeSync(ok) ==
  /\ phase = "buses" /\ done = Buses /\ writers = brokers /\ Mapped = tried
  /\ WithSync /\ syncThread = "none"
  /\ syncThread' = "made" /\ Unless(ok)
  /\ UNCHANGED <<busDevices, brokers, done, node, tried, finalized, readers, writers, monitors, configured>>

Opened(ok) ==
  /\ phase = "buses" /\ done = Buses /\ writers = brokers /\ Mapped = tried
  /\ syncThread = "made" \/ ~WithSync
  /\ syncThread' = (IF WithSync /\ ok THEN "running" ELSE syncThread)
  /\ phase' = (IF ok \/ ~WithSync THEN "open" ELSE "failed")
  /\ UNCHANGED <<busDevices, brokers, done, node, tried, finalized, readers, writers, monitors, configured>>

\* The monitor of a node resets it when it is silent and initializes it when it has booted.
Monitor(n) ==
  /\ n \in monitors \cap Attached /\ BusOf[n] \in readers \cap writers
  /\ \/ configured' = configured \cup {n}
     \/ configured' = configured \ {n}
  /\ UNCHANGED <<phase, busDevices, brokers, done, node, tried, finalized, readers, writers, monitors, syncThread>>

-----------------------------------------------------------------------------
(* close *)

StopSync ==
  /\ phase \in {"open", "failed"}
  /\ phase' = "finalizing" /\ syncThread' = "none"
  /\ UNCHANGED <<busDevices, brokers, done, node, tried, finalized, readers, writers, monitors, configured>>

\* finalize, which stops the monitor of the node ...
StopMonitor(n) ==
  /\ phase = "finalizing" /\ n \in Mapped \cap monitors
  /\ monitors' = monitors \ {n}
  /\ UNCHANGED <<phase, busDevices, brokers, done, node, tried, finalized, readers, writers, syncThread, configured>>

\* Mutation: the monitor is left to the close of the device.
ResetNodeOnly(n) ==
  /\ phase = "finalizing" /\ n \in Mapped \ finalized
  /\ finalized' = finalized \cup {n} /\ configured' = configured \ {n}
  /\ UNCHANGED <<phase, busDevices, brokers, done, node, tried, readers, writers, monitors, syncThread>>

\* ... and resets the node.
ResetNode(n) ==
  /\ phase = "finalizing" /\ n \in Mapped \ (finalized \cup monitors)
  /\ finalized' = finalized \cup {n} /\ configured' = configured \ {n}
  /\ UNCHANGED <<phase, busDevices, brokers, done, node, tried, readers, writers, monitors, syncThread>>

\* deviceMapper.clear
ClearMapper ==
  /\ phase = "finalizing" /\ Mapped \subseteq finalized
  /\ phase' = "brokers"
  /\ UNCHANGED <<busDevices, brokers, done, node, tried, finalized, readers, writers, monitors, syncThread, configured>>

StopReader(b) ==
  /\ phase = "brokers" /\ b \in readers
  /\ readers' = readers \ {b}
  /\ UNCHANGED <<phase, busDevices, brokers, done, node, tried, finalized, writers, monitors, syncThread, configured>>

StopWriter(b) ==
  /\ phase = "brokers" /\ b \in writers \ readers
  /\ writers' = writers \ {b}
  /\ UNCHANGED <<phase, busDevices, brokers, done, node, tried, finalized, readers, monitors, syncThread, configured>>

\* Mutation: a writer that was started behind a reader that was not is forgotten.
DeleteBrokerAnyway(b) ==
  /\ phase = "brokers" /\ b \in brokers \ readers
  /\ brokers' = brokers \ {b}
  /\ UNCHANGED <<phase, busDevices, done, node, tried, finalized, readers, writers, monitors, syncThread, configured>>

DeleteBroker(b) ==
  /\ phase = "brokers" /\ b \in brokers \ (readers \cup writers)
  /\ brokers' = brokers \ {b}
  /\ UNCHANGED <<phase, busDevices, done, node, tried, finalized, readers, writers, monitors, syncThread, configured>>

BrokersGone ==
  /\ phase = "brokers" /\ brokers = {}
  /\ phase' = "nodes"
  /\ UNCHANGED <<busDevices, brokers, done, node, tried, finalized, readers, writers, monitors, syncThread, configured>>

CloseNode(n) ==
  /\ phase = "nodes" /\ node[n] # "none"
  /\ node' = [node EXCEPT ![n] = "none"] /\ monitors' = monitors \ {n}
  /\ UNCHANGED <<phase, busDevices, brokers, done, tried, finalized, readers, writers, syncThread, configured>>

NodesGone ==
  /\ phase = "nodes" /\ \A n \in Nodes : node[n] = "none"
  /\ phase' = "devices"
  /\ UNCHANGED <<busDevices, brokers, done, node, tried, finalized, readers, writers, monitors, syncThread, configured>>

CloseBus(b) ==
  /\ phase = "devices" /\ b \in busDevices
  /\ busDevices' = busDevices \ {b}
  /\ UNCHANGED <<phase, brokers, done, node, tried, finalized, readers, writers, monitors, syncThread, configured>>

Closed ==
  /\ phase = "devices" /\ busDevices = {}
  /\ phase' = "closed"
  /\ UNCHANGED <<busDevices, brokers, done, node, tried, finalized, readers, writers, monitors, syncThread, configured>>

\* Another board is opened.
Anew ==
  /\ phase = "closed" /\ phase' = "buses"
  /\ done' = {} /\ tried' = {} /\ finalized' = {}
  /\ UNCHANGED <<busDevices, brokers, node, readers, writers, monitors, syncThread, configured>>

OpenStep ==
  \E ok \in BOOLEAN :
    \/ \E b \in Buses : OpenBus(b, ok) \/ AddBroker(b, ok) \/ FinishBus(b, ok) \/ StartReader(b, ok) \/ StartWriter(b, ok)
    \/ \E n \in Nodes : OpenNode(n, ok) \/ MapNode(n, ok) \/ AttachNode(n, ok) \/ InitializeNode(n, ok)
    \/ MakeSync(ok) \/ Opened(ok)

CloseStep ==
  \/ StopSync \/ ClearMapper \/ BrokersGone \/ NodesGone \/ Closed
  \/ \E n \in Nodes : StopMonitor(n) \/ ResetNode(n) \/ CloseNode(n)
  \/ \E b \in Buses : StopReader(b) \/ StopWriter(b) \/ DeleteBroker(b) \/ CloseBus(b)

BoardNext == OpenStep \/ CloseStep \/ Anew \/ \E n \in Nodes : Monitor(n)

BoardSpec == BoardInit /\ [][BoardNext]_boardVars

-----------------------------------------------------------------------------
(* Properties *)

BoardTypeOK ==
  /\ phase \in {"buses", "open", "failed", "finalizing", "brokers", "nodes", "devices", "closed"}
  /\ syncThread \in {"none", "made", "running"}
  /\ node \in [Nodes -> {"none", "open", "mapped", "attached"}]
  /\ busDevices \subseteq Buses /\ brokers \subseteq Buses /\ done \subseteq Buses
  /\ readers \subseteq Buses /\ writers \subseteq Buses
  /\ tried \subseteq Nodes /\ finalized \subseteq Nodes /\ monitors \subseteq Nodes /\ configured \subseteq Nodes

\* What a running thread uses exists: a broker's threads use the broker, the
\* device of the bus and the nodes attached to it, a monitor its node and, once
\* attached, the delegate of the broker, the SYNC thread all brokers; wherever
\* open failed, close leaves nothing running and nothing allocated.
NothingDangling ==
  /\ readers \cup writers \subseteq brokers
  /\ brokers \subseteq busDevices
  /\ \A n \in monitors : node[n] # "none" /\ (node[n] = "attached" => BusOf[n] \in brokers)
  /\ syncThread = "running" =>
       /\ writers = brokers /\ readers = brokers /\ brokers = Buses \ Fake
       /\ \A n \in Nodes : Settled(n)
  /\ phase = "closed" => /\ busDevices = {} /\ brokers = {} /\ monitors = {} /\ syncThread = "none"
                         /\ \A n \in Nodes : node[n] = "none"

\* A node is reset when it is finalized, and stays so: when the threads of the
\* brokers are stopped, no monitor is left that would ask for transfers nobody
\* can serve, or that could have configured the node again.
LastWordIsReset ==
  phase \in {"brokers", "nodes", "devices", "closed"} => configured = {} /\ monitors \cap Attached = {}
=============================================================================
