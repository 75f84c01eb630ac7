---------------------------- MODULE CanBusProofs ----------------------------
(***************************************************************************)
(* Proofs about what the queue of the writer thread stands on: a call of a  *)
(* CAN driver (CanTransfer), the threads and devices of a board             *)
(* (BoardLifecycle), and what the drivers listen to (CanFilters); and about *)
(* a device on the bus that answers its host without saying what it answers *)
(* (CuiEncoder).  Each has an inductive invariant of its own.               *)
(***************************************************************************)
EXTENDS CanTransfer, BoardLifecycle, CanFilters, CuiEncoder, SequenceTheorems, WellFoundedInduction, TLAPS

-----------------------------------------------------------------------------
(***************************************************************************)
(* The driver, for any way to open it, any number of frames per call and    *)
(* any errors.  That a call tells of every frame is known only when it      *)
(* returns; until then its own count must keep up with the interface, and   *)
(* it must have room for one more.                                          *)
(***************************************************************************)
CallTyped ==
  /\ canBusReady \in Threads \cup {"none"} /\ received \in 0..MaxFrames /\ room \in 0..MaxFrames
  /\ at \in [Threads -> {"away", "called", "wait", "move"}]
  /\ moved \in [Threads -> 0..Size] /\ given \in [Threads -> 0..Size] /\ gone \in [Threads -> 0..Size]

\* A thread within a call holds the mutex, and no other thread does.
Exclusive == \A t \in Threads : at[t] \in {"wait", "move"} <=> canBusReady = t

\* It has counted what it has moved; a list is moved at once.
Counted ==
  \A t \in Threads : at[t] \in {"wait", "move"} =>
    moved[t] = gone[t] /\ moved[t] < Size /\ (conf.driver = "peak" => moved[t] = 0)

TransferInv == CallTyped /\ Exclusive /\ Counted /\ EveryFrameCounts

\* A driver that was just opened.
LEMMA InitTransferInv == ASSUME ConstantsFit PROVE TransferInit => TransferInv
  BY DEF ConstantsFit, TransferInit, TransferInv, CallTyped, Exclusive, Counted, EveryFrameCounts, Threads

\* Before and after the mutex.
LEMMA OutsideKeeps ==
  ASSUME ConstantsFit, TransferInv, NEW t \in Threads, Call(t) \/ Lock(t)
  PROVE  TransferInv'
<1> USE DEF ConstantsFit, TransferInv, CallTyped, Exclusive, Counted, EveryFrameCounts, Threads, Go
<1>1. CASE Call(t)
  BY <1>1 DEF Call
<1>2. CASE Lock(t)
  <2>1. Entry \in {"wait", "move"}
    BY DEF Entry
  <2> QED BY <1>2, <2>1 DEF Lock
<1> QED BY <1>1, <1>2

\* A call that returns with n frames has moved as many.
LEMMA ReturnKeeps ==
  ASSUME ConstantsFit, TransferInv, NEW t \in Threads, at[t] \in {"wait", "move"}, NEW n \in 0..Size, ReturnsWith(t, n),
         gone' = [gone EXCEPT ![t] = n], conf' = conf, received' \in 0..MaxFrames, room' \in 0..MaxFrames
  PROVE  TransferInv'
  BY DEF ConstantsFit, TransferInv, CallTyped, Exclusive, Counted, EveryFrameCounts, Threads, ReturnsWith, Go

\* What a call takes is there.
LEMMA TakesFits ==
  ASSUME ConstantsFit, CallTyped, NEW t \in Threads, NEW n \in Nat, n <= Available(t), Takes(t, n)
  PROVE  /\ received' \in 0..MaxFrames /\ room' \in 0..MaxFrames
         /\ gone' = [gone EXCEPT ![t] = gone[t] + n]
  BY DEF ConstantsFit, CallTyped, Takes, Available, Threads

\* One frame.
LEMMA MoveOneKeeps ==
  ASSUME ConstantsFit, TransferInv, NEW t \in Threads, MoveOne(t)
  PROVE  TransferInv'
<1>1. /\ at[t] = "move" /\ Takes(t, 1) /\ conf' = conf /\ conf.driver # "peak" /\ 1 <= Available(t)
  BY DEF MoveOne, TransferInv, CallTyped, Available
<1>2. /\ received' \in 0..MaxFrames /\ room' \in 0..MaxFrames
      /\ gone' = [gone EXCEPT ![t] = gone[t] + 1]
  BY <1>1, TakesFits DEF TransferInv
<1>3. moved[t] = gone[t] /\ moved[t] \in Nat /\ moved[t] < Size /\ Size \in Nat
  BY <1>1 DEF ConstantsFit, TransferInv, CallTyped, Counted
<1>4. CASE moved[t] + 1 < Size
  <2>1. /\ Go(t, Entry) /\ moved' = [moved EXCEPT ![t] = moved[t] + 1] /\ UNCHANGED <<canBusReady, given>>
    BY <1>4 DEF MoveOne
  <2>2. Entry \in {"wait", "move"}
    BY DEF Entry
  <2>3. CallTyped'
    BY <1>2, <1>3, <1>4, <2>1, <2>2 DEF TransferInv, CallTyped, Go
  <2>4. Exclusive' /\ EveryFrameCounts'
    BY <1>1, <1>2, <2>1, <2>2 DEF TransferInv, CallTyped, Exclusive, EveryFrameCounts, Go
  <2>5. Counted'
    BY <1>1, <1>2, <1>3, <1>4, <2>1, <2>2 DEF TransferInv, CallTyped, Counted, Go
  <2> QED BY <2>3, <2>4, <2>5 DEF TransferInv
<1>5. CASE ~(moved[t] + 1 < Size)
  <2>1. ReturnsWith(t, moved[t] + 1)
    BY <1>5 DEF MoveOne
  <2>2. moved[t] + 1 \in 0..Size /\ gone[t] + 1 = moved[t] + 1
    BY <1>3
  <2>3. gone' = [gone EXCEPT ![t] = moved[t] + 1]
    BY <1>2, <2>2
  <2> QED BY <1>1, <1>2, <2>1, <2>2, <2>3, ReturnKeeps
<1> QED BY <1>4, <1>5

\* A list of frames.
LEMMA MoveListKeeps ==
  ASSUME ConstantsFit, TransferInv, NEW t \in Threads, MoveList(t)
  PROVE  TransferInv'
<1> DEFINE n == Least(Available(t), Size)
<1>1. /\ at[t] = "move" /\ Takes(t, n) /\ ReturnsWith(t, n) /\ conf' = conf /\ conf.driver = "peak"
  BY DEF MoveList
<1>2. n \in 0..Size /\ n \in Nat /\ n <= Available(t)
  BY DEF ConstantsFit, TransferInv, CallTyped, Least, Available
<1> HIDE DEF n
<1>3. /\ received' \in 0..MaxFrames /\ room' \in 0..MaxFrames
      /\ gone' = [gone EXCEPT ![t] = gone[t] + n]
  BY <1>1, <1>2, TakesFits DEF TransferInv
<1>4. gone[t] = 0
  BY <1>1 DEF TransferInv, Counted
<1>5. gone' = [gone EXCEPT ![t] = n]
  BY <1>2, <1>3, <1>4
<1> QED BY <1>1, <1>2, <1>3, <1>5, ReturnKeeps

\* Steps of a call that has the mutex.
LEMMA WithinKeeps ==
  ASSUME ConstantsFit, TransferInv, NEW t \in Threads, Within(t)
  PROVE  TransferInv'
<1>1. CASE Ready(t)
  BY <1>1 DEF ConstantsFit, TransferInv, CallTyped, Exclusive, Counted, EveryFrameCounts, Threads, Go, Ready
<1>2. CASE Timeout(t) \/ MoveNone(t)
  <2>1. /\ at[t] \in {"wait", "move"} /\ ReturnsWith(t, moved[t])
        /\ UNCHANGED <<conf, gone, received, room>>
    BY <1>2 DEF Timeout, MoveNone
  <2>2. moved[t] \in 0..Size /\ gone' = [gone EXCEPT ![t] = moved[t]]
    BY <2>1 DEF TransferInv, CallTyped, Counted
  <2> QED BY <2>1, <2>2, ReturnKeeps DEF TransferInv, CallTyped
<1>3. CASE Error(t)
  BY <1>3 DEF ConstantsFit, TransferInv, CallTyped, Exclusive, Counted, EveryFrameCounts, Threads, Go, Error
<1> QED BY <1>1, <1>2, <1>3, MoveOneKeeps, MoveListKeeps DEF Within

\* No step of either thread or of the interface breaks it.
LEMMA TransferInductive == ASSUME ConstantsFit PROVE TransferSpec => []TransferInv
<1>1. TransferInv /\ [TransferNext]_transferVars => TransferInv'
  <2> SUFFICES ASSUME TransferInv, [TransferNext]_transferVars PROVE TransferInv'
    OBVIOUS
  <2>1. CASE Arrive \/ Leave
    BY <2>1 DEF TransferInv, CallTyped, Exclusive, Counted, EveryFrameCounts, Arrive, Leave, ConstantsFit
  <2>2. CASE \E t \in Threads : Call(t) \/ Lock(t) \/ Within(t)
    BY <2>2, OutsideKeeps, WithinKeeps
  <2>3. CASE UNCHANGED transferVars
    BY <2>3 DEF TransferInv, CallTyped, Exclusive, Counted, EveryFrameCounts, transferVars
  <2> QED BY <2>1, <2>2, <2>3 DEF TransferNext
<1> QED BY <1>1, InitTransferInv, PTL DEF TransferSpec

\* At most one thread is between taking and giving back canBusReady, and counts stay
\* within a call's frames.
THEOREM TransferTyped == ASSUME ConstantsFit PROVE TransferSpec => []TransferTypeOK
<1>1. TransferInv => TransferTypeOK
  BY DEF TransferInv, CallTyped, Exclusive, TransferTypeOK
<1> QED BY <1>1, TransferInductive, PTL

\* A call of canRead or canWrite that returns true tells of every frame it has taken from
\* the interface or left there, for both drivers, with and without timeouts.
THEOREM NoFrameUncounted == ASSUME ConstantsFit PROVE TransferSpec => []EveryFrameCounts
<1>1. TransferInv => EveryFrameCounts
  BY DEF TransferInv
<1> QED BY <1>1, TransferInductive, PTL

-----------------------------------------------------------------------------
(***************************************************************************)
(* The life cycle: whatever the buses and nodes and wherever open fails, no *)
(* thread outlives what it uses, and nodes are left in reset.               *)
(***************************************************************************)
\* Before the brokers are stopped ...
Up == phase \in {"buses", "open", "failed", "finalizing"}

\* ... every broker that nodes are listed under is there; a bus is done with
\* when all its nodes are settled.
Building ==
  /\ Up => \A n \in Nodes : /\ node[n] # "none" => BusOf[n] \in Fake \cup brokers
                            /\ node[n] = "attached" => BusOf[n] \notin Fake
  /\ phase \in {"buses", "open"} =>
       /\ writers \subseteq readers
       /\ \A b \in done : b \in Fake \cup brokers
       /\ \A n \in Nodes : BusOf[n] \in done => Settled(n)
  /\ brokers \cap Fake = {} /\ done \subseteq Buses
  /\ syncThread = "running" =>
       phase = "open" /\ done = Buses /\ writers = brokers

\* What finalize has done stays done: the monitor of a node is gone before the
\* node is reset.
Finalizing ==
  /\ configured \subseteq Attached
  /\ phase \in {"buses", "open", "failed"} => finalized = {}
  /\ phase = "finalizing" => finalized \cap (configured \cup monitors) = {}
  /\ phase \notin {"buses", "open", "failed"} => syncThread = "none"

\* What there is shrinks from the threads to the devices.
Shrinking ==
  /\ readers \cup writers \subseteq brokers
  /\ brokers \subseteq busDevices
  /\ \A n \in monitors : node[n] # "none"
  /\ phase \in {"nodes", "devices", "closed"} => brokers = {}
  /\ phase \in {"devices", "closed"} => \A n \in Nodes : node[n] = "none"
  /\ phase = "closed" => busDevices = {}
  /\ LastWordIsReset

BoardInv == BoardTypeOK /\ Building /\ Finalizing /\ Shrinking

\* The invariant holds in the beginning.
LEMMA InitBoardInv == BoardInit => BoardInv
  BY DEF BoardInit, BoardInv, BoardTypeOK, Building, Up, Finalizing, Shrinking, LastWordIsReset, Attached

\* It implies the properties.
LEMMA BoardInvImplies == BoardInv => BoardTypeOK /\ NothingDangling /\ LastWordIsReset
<1> SUFFICES ASSUME BoardInv PROVE BoardTypeOK /\ NothingDangling /\ LastWordIsReset
  OBVIOUS
<1> USE BusOfAssumption DEF BoardInv
<1>1. \A n \in monitors : node[n] = "attached" => BusOf[n] \in brokers
  BY DEF Building, Shrinking, LastWordIsReset, BoardTypeOK, Up, Attached
<1>2. syncThread = "running" => /\ writers = brokers /\ readers = brokers /\ brokers = Buses \ Fake
                                /\ \A n \in Nodes : Settled(n)
  BY DEF Building, Shrinking, BoardTypeOK
<1>3. phase = "closed" => monitors = {} /\ syncThread = "none"
  BY DEF Shrinking, Finalizing, BoardTypeOK
<1> QED
  BY <1>1, <1>2, <1>3 DEF Shrinking, NothingDangling

\* A step of open keeps it.
LEMMA OpenKeeps == BoardInv /\ OpenStep => BoardInv'
<1> SUFFICES ASSUME BoardInv, OpenStep PROVE BoardInv'
  OBVIOUS
<1> USE BusOfAssumption DEF BoardInv, BoardTypeOK, Building, Up, Finalizing, Shrinking, LastWordIsReset, Attached, Mapped, Settled, Unless
<1> PICK fine \in BOOLEAN :
      \/ \E b \in Buses : OpenBus(b, fine) \/ AddBroker(b, fine) \/ FinishBus(b, fine) \/ StartReader(b, fine) \/ StartWriter(b, fine)
      \/ \E n \in Nodes : OpenNode(n, fine) \/ MapNode(n, fine) \/ AttachNode(n, fine) \/ InitializeNode(n, fine)
      \/ MakeSync(fine) \/ Opened(fine)
  BY DEF OpenStep
<1>1. ASSUME NEW b \in Buses, OpenBus(b, fine) PROVE BoardInv'
  BY <1>1 DEF OpenBus
<1>2. ASSUME NEW b \in Buses, AddBroker(b, fine) PROVE BoardInv'
  BY <1>2 DEF AddBroker
<1>3. ASSUME NEW b \in Buses, FinishBus(b, fine) PROVE BoardInv'
  BY <1>3 DEF FinishBus
<1>4. ASSUME NEW b \in Buses, StartReader(b, fine) PROVE BoardInv'
  BY <1>4 DEF StartReader
<1>5. ASSUME NEW b \in Buses, StartWriter(b, fine) PROVE BoardInv'
  BY <1>5 DEF StartWriter
<1>6. ASSUME NEW n \in Nodes, OpenNode(n, fine) PROVE BoardInv'
  BY <1>6 DEF OpenNode
<1>7. ASSUME NEW n \in Nodes, MapNode(n, fine) PROVE BoardInv'
  BY <1>7 DEF MapNode
<1>8. ASSUME NEW n \in Nodes, AttachNode(n, fine) PROVE BoardInv'
  BY <1>8 DEF AttachNode
<1>9. ASSUME NEW n \in Nodes, InitializeNode(n, fine) PROVE BoardInv'
  BY <1>9 DEF InitializeNode
<1>10. CASE MakeSync(fine)
  BY <1>10 DEF MakeSync
<1>11. CASE Opened(fine)
  BY <1>11 DEF Opened
<1> QED
  BY <1>1, <1>2, <1>3, <1>4, <1>5, <1>6, <1>7, <1>8, <1>9, <1>10, <1>11

\* A step of close keeps it.
LEMMA CloseKeeps == BoardInv /\ CloseStep => BoardInv'
<1> SUFFICES ASSUME BoardInv, CloseStep PROVE BoardInv'
  OBVIOUS
<1> USE BusOfAssumption DEF BoardInv, BoardTypeOK, Building, Up, Finalizing, Shrinking, LastWordIsReset, Attached, Mapped, Settled
<1>1. CASE StopSync
  BY <1>1 DEF StopSync
<1>2. CASE ClearMapper
  BY <1>2 DEF ClearMapper
<1>3. CASE BrokersGone
  BY <1>3 DEF BrokersGone
<1>4. CASE NodesGone
  BY <1>4 DEF NodesGone
<1>5. CASE Closed
  BY <1>5 DEF Closed
<1>6. ASSUME NEW n \in Nodes, StopMonitor(n) PROVE BoardInv'
  BY <1>6 DEF StopMonitor
<1>7. ASSUME NEW n \in Nodes, ResetNode(n) PROVE BoardInv'
  BY <1>7 DEF ResetNode
<1>8. ASSUME NEW n \in Nodes, CloseNode(n) PROVE BoardInv'
  BY <1>8 DEF CloseNode
<1>9. ASSUME NEW b \in Buses, StopReader(b) PROVE BoardInv'
  BY <1>9 DEF StopReader
<1>10. ASSUME NEW b \in Buses, StopWriter(b) PROVE BoardInv'
  BY <1>10 DEF StopWriter
<1>11. ASSUME NEW b \in Buses, DeleteBroker(b) PROVE BoardInv'
  BY <1>11 DEF DeleteBroker
<1>12. ASSUME NEW b \in Buses, CloseBus(b) PROVE BoardInv'
  BY <1>12 DEF CloseBus
<1> QED
  BY <1>1, <1>2, <1>3, <1>4, <1>5, <1>6, <1>7, <1>8, <1>9, <1>10, <1>11, <1>12 DEF CloseStep

\* Every step keeps it, those of the monitors included.
LEMMA BoardNextKeeps == BoardInv /\ [BoardNext]_boardVars => BoardInv'
<1> SUFFICES ASSUME BoardInv, [BoardNext]_boardVars PROVE BoardInv'
  OBVIOUS
<1>1. CASE OpenStep
  BY <1>1, OpenKeeps
<1>2. CASE CloseStep
  BY <1>2, CloseKeeps
<1> USE BusOfAssumption DEF BoardInv, BoardTypeOK, Building, Up, Finalizing, Shrinking, LastWordIsReset, Attached, Mapped, Settled
<1>3. CASE Anew
  BY <1>3 DEF Anew
<1>4. ASSUME NEW n \in Nodes, Monitor(n) PROVE BoardInv'
  BY <1>4 DEF Monitor
<1>5. CASE UNCHANGED boardVars
  BY <1>5 DEF boardVars
<1> QED
  BY <1>1, <1>2, <1>3, <1>4, <1>5 DEF BoardNext

\* The invariant of the specification.
LEMMA BoardInductive == BoardSpec => []BoardInv
  BY InitBoardInv, BoardNextKeeps, PTL DEF BoardSpec

\* The state keeps its type.
THEOREM LifecycleTypeOK == BoardSpec => []BoardTypeOK
  BY BoardInductive, BoardInvImplies, PTL

\* No running thread uses what does not exist, for any buses and nodes and any
\* failure of open.
THEOREM LifecycleNothingDangling == BoardSpec => []NothingDangling
  BY BoardInductive, BoardInvImplies, PTL

\* Nodes that were finalized stay in reset: no monitor brings one back.
THEOREM LifecycleLastWordIsReset == BoardSpec => []LastWordIsReset
  BY BoardInductive, BoardInvImplies, PTL

-----------------------------------------------------------------------------
(***************************************************************************)
(* The filters, for any identifiers, kinds of filters and numbers of them.  *)
(* The sets of identifiers are what the loops of the drivers go through, so *)
(* that they come to an end where they should is shown by induction: over   *)
(* sets of numbers, each of which has a least one.                          *)
(***************************************************************************)
\* A set of numbers has a least one ...
LEMMA HasLeast ==
  ASSUME NEW S \in SUBSET Nat, S # {}
  PROVE  \E n \in S : \A m \in S : n <= m
<1> DEFINE R == OpToRel(<, Nat)
<1>1. IsWellFoundedOn(R, Nat)
  BY NatLessThanWellFounded
<1>2. \A x, y \in Nat : x < y => <<x, y>> \in R
  BY DEF OpToRel
<1> HIDE DEF R
<1>3. PICK k \in S : \A m \in S : <<m, k>> \notin R
  BY <1>1, WFMin
<1>4. \A m \in S : k <= m
  <2> SUFFICES ASSUME NEW m \in S PROVE k <= m
    OBVIOUS
  <2>1. ~(m < k)
    BY <1>2, <1>3
  <2>2. m \in Nat /\ k \in Nat
    OBVIOUS
  <2> QED BY <2>1, <2>2
<1> QED BY <1>4

\* ... so one that has 0 and with each number the next has them all.
LEMMA AllNumbers ==
  ASSUME NEW S, 0 \in S, \A n \in Nat : n \in S => n + 1 \in S
  PROVE  Nat \subseteq S
<1> SUFFICES ASSUME Nat \ S # {} PROVE FALSE
  OBVIOUS
<1> DEFINE T == Nat \ S
<1> T \in SUBSET Nat /\ T # {}
  OBVIOUS
<1> HIDE DEF T
<1>1. PICK n \in T : \A m \in T : n <= m
  BY HasLeast
<1> USE DEF T
<1>2. n - 1 \in Nat /\ n = (n - 1) + 1
  BY <1>1
<1> QED BY <1>1, <1>2

\* The least and the greatest of some identifiers.
LEMMA MinIs ==
  ASSUME NEW S \in SUBSET (1..127), S # {}
  PROVE  Min(S) \in S /\ \A i \in S : Min(S) <= i
<1>1. \E n \in S : \A m \in S : n <= m
  <2>1. S \in SUBSET Nat
    OBVIOUS
  <2> QED BY <2>1, HasLeast
<1> QED BY <1>1 DEF Min

LEMMA MaxIs ==
  ASSUME NEW S \in SUBSET (1..127), S # {}
  PROVE  Max(S) \in S /\ \A i \in S : i <= Max(S)
<1> DEFINE T == {n \in Nat : 127 - n \in S}
<1>1. \A i \in S : 127 - i \in T
  OBVIOUS
<1>2. T # {} /\ T \in SUBSET Nat
  BY <1>1
<1> HIDE DEF T
<1>3. PICK n \in T : \A m \in T : n <= m
  BY <1>2, HasLeast
<1>4. 127 - n \in S /\ \A i \in S : 127 - n >= i
  <2>1. n \in Nat /\ 127 - n \in S
    BY <1>3 DEF T
  <2>2. ASSUME NEW i \in S PROVE 127 - n >= i
    <3>1. n <= 127 - i
      BY <1>1, <1>3
    <3> QED BY <2>1, <3>1
  <2> QED BY <2>1, <2>2
<1>5. \E k \in S : \A i \in S : k >= i
  BY <1>4
<1> QED BY <1>5 DEF Max

-----------------------------------------------------------------------------
\* CanBusHico: an identifier is in a run of consecutive ones.
LEMMA RunsCover ==
  ASSUME NEW ids \in SUBSET (1..127), NEW id \in ids, driver # "noRange"
  PROVE  \E s \in Sequences(ids) : id \in Span(s)
<1> DEFINE D == {n \in Nat : id - n - 1 \notin ids}
           U == {n \in Nat : id + n + 1 \notin ids}
<1>1. D \in SUBSET Nat /\ D # {} /\ U \in SUBSET Nat /\ U # {}
  <2>1. 127 \in D /\ 127 \in U
    OBVIOUS
  <2> QED BY <2>1
<1> HIDE DEF D, U
<1>2. PICK d \in D : \A n \in D : d <= n
  BY <1>1, HasLeast
<1>3. PICK u \in U : \A n \in U : u <= n
  BY <1>1, HasLeast
<1> USE DEF D, U
<1>4. \A n \in Nat : n < d => id - n - 1 \in ids
  BY <1>2
<1>5. \A n \in Nat : n < u => id + n + 1 \in ids
  BY <1>3
<1>6. ASSUME NEW k \in (id - d)..(id + u) PROVE k \in ids
  <2>1. CASE k < id
    <3>1. id - k - 1 \in Nat /\ id - k - 1 < d /\ id - (id - k - 1) - 1 = k
      BY <1>6, <2>1
    <3> QED BY <1>4, <3>1
  <2>2. CASE k > id
    <3>1. k - id - 1 \in Nat /\ k - id - 1 < u /\ id + (k - id - 1) + 1 = k
      BY <1>6, <2>2
    <3> QED BY <1>5, <3>1
  <2> QED BY <1>6, <2>1, <2>2
<1> DEFINE s == [lower |-> id - d, upper |-> id + u]
<1>7. id \in s.lower..s.upper /\ s.lower \in ids /\ s.upper \in ids
  BY <1>6
<1>8. s.lower - 1 \notin ids /\ s.upper + 1 \notin ids
  BY <1>2, <1>3
<1>9. s \in Sequences(ids)
  BY <1>6, <1>7, <1>8 DEF Sequences
<1> QED BY <1>7, <1>9 DEF Span

\* What the interface is told of runs: those that are not alone, and no others.
RunsHeard ==
  /\ \A id \in active : \E f \in hw : id \in f
  /\ ok => hw = {} \/ \A s \in Sequences(stage) : ~Isolated(s) => setRangedFilter(s) \in hw

\* A change of the stage ends with that.
LEMMA RestageHeard ==
  ASSUME NEW ids \in SUBSET Ids, NEW content \in BOOLEAN, FiltersFit, Restage(ids, content),
         driver' = driver, RunsHeard, active \subseteq Ids,
         valid \in BOOLEAN, endless \in BOOLEAN
  PROVE  /\ RunsHeard' /\ stage' = ids /\ active' \subseteq Ids
         /\ valid' \in BOOLEAN /\ endless' \in BOOLEAN /\ ok' \in BOOLEAN
<1>1. stage' = ids
  BY DEF Restage
<1>2. CASE ok' = FALSE /\ UNCHANGED <<active, valid, hw, endless>>
  BY <1>1, <1>2 DEF RunsHeard
<1>3. ASSUME NEW taken \in SUBSET Sequences(ids), bulkUpdate(ids, taken, content)
      PROVE  /\ RunsHeard' /\ active' \subseteq Ids
             /\ valid' \in BOOLEAN /\ endless' \in BOOLEAN /\ ok' \in BOOLEAN
  <2> DEFINE all == Sequences(ids)
             ranged == {s \in all : ~Isolated(s)}
             first == CHOOSE s \in all : s.lower = Min(ids)
  <2>1. CASE Cardinality(all) > MaxFilters
    <3>1. valid' = FALSE /\ hw' = {} /\ active' = {} /\ ok' = content /\ endless' = endless
      BY <1>3, <2>1 DEF bulkUpdate
    <3> QED BY <3>1 DEF RunsHeard
  <2>2. CASE ~(Cardinality(all) > MaxFilters)
    <3>1. /\ valid' = TRUE
          /\ hw' = {setRangedFilter(s) : s \in ranged \cap taken}
          /\ active' = UNION {Span(s) : s \in ranged \cap taken}
          /\ ok' = (ranged \subseteq taken)
          /\ endless' = (ids # {} /\ Isolated(first))
      BY <1>3, <2>2 DEF bulkUpdate
    <3>2. endless' \in BOOLEAN
      <4>1. Isolated(first) \in BOOLEAN
        BY DEF Isolated
      <4> HIDE DEF first
      <4> QED BY <3>1, <4>1
    <3> HIDE DEF first
    <3>3. \A s \in all : Span(s) \subseteq ids
      <4> SUFFICES ASSUME NEW s \in all, NEW k \in Span(s) PROVE k \in ids
        OBVIOUS
      <4>1. s.lower \in ids /\ s.lower \in 1..127 /\ k \in s.lower..s.upper
        BY DEF Sequences, Span, FiltersFit
      <4>2. CASE s.lower = s.upper
        BY <4>1, <4>2
      <4>3. CASE s.lower..s.upper \subseteq ids
        BY <4>1, <4>3
      <4> QED BY <4>2, <4>3 DEF Sequences
    <3>4. Sequences(stage)' = all
      BY <1>1 DEF Sequences
    <3>5. \A id \in active' : \E f \in hw' : id \in f
      BY <3>1 DEF setRangedFilter
    <3>6. ok' => \A s \in all : ~Isolated(s) => setRangedFilter(s) \in hw'
      BY <3>1
    <3>7. active' \subseteq Ids
      BY <3>1, <3>3
    <3>8. RunsHeard'
      BY <3>4, <3>5, <3>6 DEF RunsHeard, Isolated, setRangedFilter, Span
    <3> QED BY <3>1, <3>2, <3>7, <3>8
  <2> QED BY <2>1, <2>2
<1> QED BY <1>1, <1>2, <1>3 DEF Restage

-----------------------------------------------------------------------------
\* CanBusPeak: the loop over the identifiers up to n ends with a mask ...
LEMMA MaskExists ==
  ASSUME NEW ids
  PROVE  \A n \in Nat : \E m : m = [id \in 0..n |-> IF id = 0 THEN Function ELSE Widened(m[id - 1], ids, id)]
<1> DEFINE Loop(m, n) == [id \in 0..n |-> IF id = 0 THEN Function ELSE Widened(m[id - 1], ids, id)]
           S == {n \in Nat : \E m : m = Loop(m, n)}
<1>1. 0 \in S
  <2> DEFINE m == [id \in 0..0 |-> Function]
  <2>1. m = Loop(m, 0)
    OBVIOUS
  <2> QED BY <2>1
<1>2. ASSUME NEW n \in Nat, n \in S PROVE n + 1 \in S
  <2>1. PICK m : m = Loop(m, n)
    BY <1>2
  <2> DEFINE g == [id \in 0..(n + 1) |-> IF id = n + 1 THEN Widened(m[n], ids, n + 1) ELSE m[id]]
  <2>2. g[n + 1] = Widened(m[n], ids, n + 1) /\ \A id \in 0..n : g[id] = m[id]
    OBVIOUS
  <2>3. \A id \in 0..n : m[id] = IF id = 0 THEN Function ELSE Widened(m[id - 1], ids, id)
    BY <2>1
  <2> HIDE DEF g
  <2>4. ASSUME NEW id \in 0..(n + 1)
        PROVE  g[id] = IF id = 0 THEN Function ELSE Widened(g[id - 1], ids, id)
    <3>1. CASE id = n + 1
      <4>1. g[id - 1] = m[n] /\ id # 0
        BY <2>2, <3>1
      <4> QED BY <2>2, <3>1, <4>1
    <3>2. CASE id = 0
      BY <2>2, <2>3, <3>2
    <3>3. CASE id # 0 /\ id # n + 1
      <4>1. id \in 0..n /\ id - 1 \in 0..n
        BY <3>3
      <4>2. g[id] = m[id] /\ g[id - 1] = m[id - 1]
        BY <2>2, <4>1
      <4> QED BY <2>3, <3>3, <4>1, <4>2
    <3> QED BY <3>1, <3>2, <3>3
  <2>5. g = [id \in 0..(n + 1) |-> g[id]]
    BY DEF g
  <2>6. g = Loop(g, n + 1)
    BY <2>4, <2>5
  <2> QED BY <2>6
<1> HIDE DEF S
<1>3. Nat \subseteq S
  BY <1>1, <1>2, AllNumbers
<1> QED BY <1>3 DEF S

\* ... of the function and of the bits in which some of those identifiers differ, ...
Differ(ids, bit, n) == \E i, j \in ids : i <= n /\ j <= n /\ bit \in BitsOf(i) /\ bit \notin BitsOf(j)
LEMMA WidenedMask ==
  ASSUME FiltersFit, NEW ids \in SUBSET (1..127), NEW id \in 1..127, NEW m,
         m = Function \cup {bit \in Bits : Differ(ids, bit, id - 1)}
  PROVE  Widened(m, ids, id) = Function \cup {bit \in Bits : Differ(ids, bit, id)}
<1>1. CASE id \notin ids
  <2>1. \A i \in ids : i <= id <=> i <= id - 1
    BY <1>1
  <2>2. \A bit \in Bits : Differ(ids, bit, id) <=> Differ(ids, bit, id - 1)
    BY <2>1 DEF Differ
  <2> QED BY <1>1, <2>2 DEF Widened
<1>2. CASE id \in ids /\ id = Min(ids)
  <2>1. \A i \in ids : i <= id => i = id
    BY <1>2, MinIs
  <2>2. \A i \in ids : ~(i <= id - 1)
    BY <2>1
  <2>3. \A bit \in Bits : ~Differ(ids, bit, id) /\ ~Differ(ids, bit, id - 1)
    BY <2>1, <2>2 DEF Differ
  <2> QED BY <1>2, <2>3 DEF Widened
<1>3. CASE id \in ids /\ id # Min(ids)
  <2> DEFINE before == {i \in ids : i < id}
             p == Max(before)
  <2>1. Min(ids) \in before
    <3>1. Min(ids) \in ids /\ Min(ids) <= id
      BY <1>3, MinIs
    <3>2. Min(ids) \in 1..127
      BY <3>1
    <3> QED BY <1>3, <3>1, <3>2
  <2>2. before \in SUBSET (1..127)
    OBVIOUS
  <2> HIDE DEF before
  <2>3. p \in before
    BY <2>1, <2>2, MaxIs
  <2>4. p \in ids /\ p < id
    BY <2>3 DEF before
  <2>5. Widened(m, ids, id) = m \cup Xor(BitsOf(p) \ m, BitsOf(id))
    BY <1>3 DEF Widened, before
  <2> HIDE DEF p
  <2>6. BitsOf(id) \subseteq Bits /\ BitsOf(p) \subseteq Bits
    BY DEF BitsOf
  <2>7. \A i \in ids : i <= id <=> i = id \/ i <= id - 1
    OBVIOUS
  <2>8. p <= id - 1 /\ p <= id /\ id <= id
    BY <2>4
  <2>9. ASSUME NEW bit \in Bits PROVE bit \in Widened(m, ids, id) <=> bit \in Function \/ Differ(ids, bit, id)
    <3>1. bit \in m <=> bit \in Function \/ Differ(ids, bit, id - 1)
      OBVIOUS
    <3>2. Differ(ids, bit, id - 1) => Differ(ids, bit, id)
      BY <2>7 DEF Differ
    <3>3. CASE bit \in m
      BY <2>5, <3>1, <3>2, <3>3
    <3>4. CASE bit \notin m
      <4>1. bit \in Widened(m, ids, id) <=> ~(bit \in BitsOf(p) <=> bit \in BitsOf(id))
        BY <2>5, <3>4 DEF Xor
      <4>2. \A i \in ids : i <= id - 1 => (bit \in BitsOf(i) <=> bit \in BitsOf(p))
        BY <2>4, <2>8, <3>1, <3>4 DEF Differ
      <4>3. Differ(ids, bit, id) <=> ~(bit \in BitsOf(p) <=> bit \in BitsOf(id))
        BY <1>3, <2>4, <2>7, <2>8, <4>2 DEF Differ
      <4> QED BY <3>1, <3>4, <4>1, <4>3
    <3> QED BY <3>3, <3>4
  <2>10. Widened(m, ids, id) \subseteq Bits \cup Function /\ Function \subseteq Widened(m, ids, id)
    BY <2>5, <2>6 DEF Xor
  <2> QED BY <2>9, <2>10
<1> QED BY <1>1, <1>2, <1>3

LEMMA MaskIs ==
  ASSUME FiltersFit, NEW ids \in SUBSET (1..127), ids # {}
  PROVE  Masked(ids) = Function \cup {bit \in Bits : Differ(ids, bit, Max(ids))}
<1> DEFINE N == Max(ids)
           Loop(m) == [id \in 0..N |-> IF id = 0 THEN Function ELSE Widened(m[id - 1], ids, id)]
           mask == CHOOSE m : m = Loop(m)
           Set(n) == Function \cup {bit \in Bits : Differ(ids, bit, n)}
<1>1. N \in 1..127 /\ N \in Nat
  <2>1. Max(ids) \in ids
    BY MaxIs
  <2>2. Max(ids) \in 1..127
    BY <2>1
  <2> HIDE DEF N
  <2>3. N \in 1..127
    BY <2>2 DEF N
  <2> QED BY <2>3
<1>2. Masked(ids) = mask[N]
  BY DEF Masked
<1>3. \E m : m = Loop(m)
  BY <1>1, MaskExists
<1>4. mask = Loop(mask)
  BY <1>3
<1> HIDE DEF mask, N
<1>5. \A id \in 0..N : mask[id] = IF id = 0 THEN Function ELSE Widened(mask[id - 1], ids, id)
  BY <1>4
<1> DEFINE S == {n \in Nat : n <= N => mask[n] = Set(n)}
<1>6. 0 \in S
  <2>1. mask[0] = Function
    BY <1>1, <1>5
  <2>2. \A i \in ids : ~(i <= 0)
    OBVIOUS
  <2>3. \A bit \in Bits : ~Differ(ids, bit, 0)
    BY <2>2 DEF Differ
  <2> QED BY <2>1, <2>3
<1>7. ASSUME NEW n \in Nat, n \in S PROVE n + 1 \in S
  <2> SUFFICES ASSUME n + 1 <= N PROVE mask[n + 1] = Set(n + 1)
    OBVIOUS
  <2> DEFINE id == n + 1
  <2>1. id \in 0..N /\ id \in 1..127 /\ id # 0 /\ id - 1 = n /\ n <= N
    BY <1>1
  <2>2. mask[n] = Set(n)
    BY <1>7, <2>1
  <2> HIDE DEF id
  <2>3. mask[id] = Widened(mask[n], ids, id)
    BY <1>5, <2>1
  <2>4. Widened(mask[n], ids, id) = Set(id)
    BY <2>1, <2>2, WidenedMask
  <2> QED BY <2>3, <2>4 DEF id
<1> HIDE DEF S
<1>8. Nat \subseteq S
  BY <1>6, <1>7, AllNumbers
<1>9. mask[N] = Set(N)
  BY <1>1, <1>8 DEF S
<1> QED BY <1>2, <1>9 DEF N

\* ... and lets pass each of them, whatever its function.
LEMMA MaskPasses ==
  ASSUME FiltersFit, NEW ids \in SUBSET Ids, NEW id \in ids
  PROVE  PassesMask(CodeAndMask(ids), id)
<1>1. ids \in SUBSET (1..127) /\ ids # {}
  BY DEF FiltersFit
<1>2. \A i \in ids : i <= Max(ids)
  BY <1>1, MaxIs
<1>3. CodeAndMask(ids).code = Code(ids) /\ CodeAndMask(ids).mask = Masked(ids)
  BY <1>1 DEF CodeAndMask
<1>4. Masked(ids) = Function \cup {bit \in Bits : Differ(ids, bit, Max(ids))}
  BY <1>1, MaskIs
<1>5. \A bit \in Bits : Differ(ids, bit, Max(ids)) <=>
                          \E i, j \in ids : bit \in BitsOf(i) /\ bit \notin BitsOf(j)
  BY <1>2 DEF Differ
<1>6. BitsOf(id) \subseteq Bits /\ \A bit \in Bits : bit \notin Function
  BY DEF BitsOf, Function, FiltersFit
<1> SUFFICES ASSUME NEW function \in SUBSET Function
             PROVE  (BitsOf(id) \cup function) \ Masked(ids) = Code(ids)
  BY <1>3 DEF PassesMask
<1>7. ASSUME NEW bit \in Bits
      PROVE  bit \in (BitsOf(id) \cup function) \ Masked(ids) <=> bit \in Code(ids)
  BY <1>4, <1>5, <1>6 DEF Code
<1>8. (BitsOf(id) \cup function) \ Masked(ids) \subseteq Bits /\ Code(ids) \subseteq Bits
  BY <1>4, <1>6 DEF Code
<1> QED BY <1>7, <1>8

-----------------------------------------------------------------------------
(* The inductive invariant: what the interface was told of follows from     *)
(* what is staged. NeighboursAreHeard is not inductive: that an identifier  *)
(* passes now says nothing of the calls that refused others before, which   *)
(* left the filters of an earlier stage. What RunsHeard and the last        *)
(* conjunct of FiltersInv add is which filters those are.                   *)
PeakHeard == driver = "peak" => hw = {} \/ hw = {CodeAndMask(stage)}
Untouched == rate = "unset" => opened # "open" /\ stage = {} /\ active = {} /\ hw = {}

FiltersInv ==
  /\ FiltersTypeOK
  /\ Managed => RunsHeard
  /\ PeakHeard
  /\ driver = "disabled" => stage = {}
  /\ Untouched

\* The filters are as they were.
LEMMA SameFilters ==
  ASSUME FiltersInv, FiltersTypeOK', Untouched', driver' = driver, UNCHANGED <<stage, active, hw, ok>>
  PROVE  FiltersInv'
<1>1. (Managed => RunsHeard)'
  BY DEF FiltersInv, RunsHeard, Managed, Sequences, Isolated, setRangedFilter, Span
<1>2. PeakHeard'
  BY DEF FiltersInv, PeakHeard
<1> QED BY <1>1, <1>2 DEF FiltersInv

\* There are none.
LEMMA NoFilters ==
  ASSUME FiltersInv, FiltersTypeOK', Untouched', driver' = driver, stage' = {}, active' = {}, hw' = {}
  PROVE  FiltersInv'
BY DEF FiltersInv, RunsHeard, PeakHeard

\* The calls that change the stage, with either driver.
LEMMA RestageKeeps ==
  ASSUME FiltersInv, driver' = driver, Managed, NEW ids \in SUBSET Ids,
         NEW content \in BOOLEAN, Restage(ids, content),
         opened' \in {"closed", "open", "failed"}, rate' \in {"default", "other"}
  PROVE  FiltersInv'
<1>1. /\ RunsHeard' /\ stage' = ids /\ active' \subseteq Ids
      /\ valid' \in BOOLEAN /\ endless' \in BOOLEAN /\ ok' \in BOOLEAN
  BY RestageHeard DEF FiltersInv, FiltersTypeOK
<1>2. FiltersTypeOK'
  BY <1>1 DEF FiltersInv, FiltersTypeOK, FiltersFit
<1>3. driver' # "peak" /\ driver' # "disabled"
  BY DEF Managed
<1> QED BY <1>1, <1>2, <1>3 DEF FiltersInv, PeakHeard, Untouched

LEMMA SetOptionKeeps ==
  ASSUME FiltersInv, driver' = driver, driver = "peak", NEW ids \in SUBSET Ids, setOption(ids),
         UNCHANGED <<active, valid, endless>>,
         opened' \in {"closed", "open", "failed"}, rate' \in {"default", "other"}
  PROVE  FiltersInv'
<1>1. FiltersTypeOK'
  BY DEF FiltersInv, FiltersTypeOK, FiltersFit, setOption
<1>2. PeakHeard'
  BY DEF FiltersInv, PeakHeard, setOption
<1>3. driver' # "disabled" /\ ~Managed'
  BY DEF Managed
<1> QED BY <1>1, <1>2, <1>3 DEF FiltersInv, Untouched

LEMMA FiltersNextKeeps == FiltersInv /\ [FiltersNext]_filtersVars => FiltersInv'
<1> SUFFICES ASSUME FiltersInv, [FiltersNext]_filtersVars PROVE FiltersInv'
  OBVIOUS
<1>1. ASSUME NEW ids \in SUBSET Ids, Open(ids) PROVE FiltersInv'
  <2>1. driver' = driver /\ opened' \in {"closed", "open", "failed"} /\ rate' \in {"default", "other"}
    BY <1>1 DEF Open
  <2>2. CASE ids # {} /\ Managed /\ Restage(ids, TRUE)
    BY <2>1, <2>2, RestageKeeps
  <2>3. CASE ids # {} /\ driver = "peak" /\ setOption(ids) /\ UNCHANGED <<active, valid, endless>>
    BY <2>1, <2>3, SetOptionKeeps
  <2>4. CASE ok' = TRUE /\ UNCHANGED <<stage, active, valid, hw, endless>>
    <3>1. stage' = {} /\ active' = {} /\ hw' = {} /\ Untouched'
      BY <1>1, <2>4 DEF Open, FiltersInv, Untouched
    <3>2. FiltersTypeOK'
      BY <2>1, <2>4 DEF FiltersInv, FiltersTypeOK, FiltersFit
    <3> QED BY <2>1, <3>1, <3>2, NoFilters
  <2> QED BY <1>1, <2>2, <2>3, <2>4 DEF Open
<1>2. CASE FailToOpen
  BY <1>2, SameFilters DEF FailToOpen, filters, FiltersInv, FiltersTypeOK, Untouched
<1>3. CASE Close
  <2>1. FiltersTypeOK' /\ Untouched'
    BY <1>3 DEF Close, FiltersInv, FiltersTypeOK, Untouched
  <2> QED BY <1>3, <2>1, SameFilters, NoFilters DEF Close
<1>4. CASE clearFilters
  <2>1. CASE stage' = {} /\ active' = {} /\ hw' = {} /\ ok' = TRUE
    BY <1>4, <2>1, NoFilters DEF clearFilters, FiltersInv, FiltersTypeOK, Untouched
  <2>2. CASE ok' = FALSE /\ UNCHANGED <<stage, active, hw>>
    <3>1. FiltersTypeOK'
      BY <1>4, <2>2 DEF clearFilters, FiltersInv, FiltersTypeOK
    <3>2. (Managed => RunsHeard)'
      BY <1>4, <2>2 DEF clearFilters, FiltersInv, RunsHeard, Managed
    <3>3. PeakHeard'
      BY <1>4, <2>2 DEF clearFilters, FiltersInv, PeakHeard
    <3> QED BY <1>4, <2>2, <3>1, <3>2, <3>3 DEF clearFilters, FiltersInv, Untouched
  <2> QED BY <1>4, <2>1, <2>2 DEF clearFilters
<1>5. ASSUME NEW id \in Ids, canIdAdd(id) PROVE FiltersInv'
  <2>1. stage \cup {id} \in SUBSET Ids
    BY DEF FiltersInv, FiltersTypeOK
  <2>2. /\ driver' = driver /\ driver # "disabled" /\ opened' = opened /\ rate' = rate
        /\ opened' \in {"closed", "open", "failed"} /\ rate' \in {"default", "other"}
    BY <1>5 DEF canIdAdd, Serving, FiltersInv, FiltersTypeOK, Untouched
  <2>3. CASE Managed
    BY <1>5, <2>1, <2>2, <2>3, RestageKeeps DEF canIdAdd
  <2>4. CASE ~Managed
    <3>1. driver = "peak"
      BY <2>2, <2>4 DEF Managed, FiltersInv, FiltersTypeOK, FiltersFit
    <3> QED BY <1>5, <2>1, <2>2, <2>4, <3>1, SetOptionKeeps DEF canIdAdd
  <2> QED BY <2>3, <2>4
<1>6. ASSUME NEW id \in Ids, canIdDelete(id) PROVE FiltersInv'
  <2>1. stage \ {id} \in SUBSET Ids
    BY DEF FiltersInv, FiltersTypeOK
  <2>2. /\ driver' = driver /\ driver # "disabled" /\ opened' = opened /\ rate' = rate
        /\ opened' \in {"closed", "open", "failed"} /\ rate' \in {"default", "other"}
    BY <1>6 DEF canIdDelete, Serving, FiltersInv, FiltersTypeOK, Untouched
  <2>3. CASE Managed
    BY <1>6, <2>1, <2>2, <2>3, RestageKeeps DEF canIdDelete
  <2>4. CASE ~Managed
    <3>1. driver = "peak"
      BY <2>2, <2>4 DEF Managed, FiltersInv, FiltersTypeOK, FiltersFit
    <3> QED BY <1>6, <2>1, <2>2, <2>4, <3>1, SetOptionKeeps DEF canIdDelete
  <2> QED BY <2>3, <2>4
<1>7. ASSUME NEW r \in {"default", "other"}, canSetBaudRate(r) PROVE FiltersInv'
  BY <1>7, SameFilters DEF canSetBaudRate, Serving, filters, FiltersInv, FiltersTypeOK, Untouched
<1>8. CASE UNCHANGED filtersVars
  BY <1>8, SameFilters DEF filtersVars, filters, FiltersInv, FiltersTypeOK, Untouched
<1> QED BY <1>1, <1>2, <1>3, <1>4, <1>5, <1>6, <1>7, <1>8 DEF FiltersNext, Rest

\* Each frame of a node of whom the driver was told, with success, reaches the bus.
LEMMA FiltersInvHears == FiltersInv => NeighboursAreHeard
<1> SUFFICES ASSUME FiltersInv PROVE NeighboursAreHeard
  OBVIOUS
<1> USE DEF FiltersInv, FiltersTypeOK
<1>1. driver \in {"disabled", "noRange", "maskAndRange", "peak"} /\ stage \in SUBSET (1..127)
  BY DEF FiltersFit
<1>2. ASSUME driver = "peak", NEW id \in stage PROVE Passes(id)
  <2>1. PassesMask(CodeAndMask(stage), id)
    BY MaskPasses
  <2> QED BY <1>2, <2>1 DEF Passes, PeakHeard
<1>3. ASSUME Managed, ok, \A s \in Sequences(stage) : ~Isolated(s), NEW id \in stage PROVE Passes(id)
  <2>1. driver # "noRange"
    <3> SUFFICES ASSUME driver = "noRange" PROVE FALSE
      OBVIOUS
    <3>1. [lower |-> id, upper |-> id] \in Sequences(stage)
      BY DEF Sequences
    <3> QED BY <1>3, <3>1 DEF Isolated
  <2>2. PICK s \in Sequences(stage) : id \in Span(s)
    BY <1>1, <2>1, RunsCover
  <2>3. hw = {} \/ setRangedFilter(s) \in hw
    BY <1>3 DEF RunsHeard
  <2> QED BY <1>3, <2>2, <2>3 DEF Passes, setRangedFilter, Managed
<1>4. ASSUME Managed, NEW id \in active PROVE Passes(id)
  BY <1>4 DEF Passes, RunsHeard, Managed
<1>5. driver = "peak" \/ Managed \/ stage = {}
  BY <1>1 DEF Managed
<1> QED BY <1>2, <1>3, <1>4, <1>5 DEF NeighboursAreHeard, SuccessMeansHeard

LEMMA FiltersInductive == ASSUME FiltersFit PROVE FiltersSpec => []FiltersInv
<1>1. FiltersInit => FiltersInv
  BY DEF FiltersInit, FiltersInv, FiltersTypeOK, RunsHeard, PeakHeard, Untouched
<1> QED BY <1>1, FiltersNextKeeps, PTL DEF FiltersSpec

\* The managers of the filters keep to identifiers of nodes, whatever the interface refuses.
THEOREM FiltersAreTyped == ASSUME FiltersFit PROVE FiltersSpec => []FiltersTypeOK
<1>1. FiltersInv => FiltersTypeOK
  BY DEF FiltersInv
<1> QED BY <1>1, FiltersInductive, PTL

\* The interface passes the frames of each node that was added with success: always with
\* one code and mask, and with masks and ranges when no identifier is alone; and in any
\* case those of each node that the filter manager believes to be active.
THEOREM AllNeighboursHeard == ASSUME FiltersFit PROVE FiltersSpec => []NeighboursAreHeard
BY FiltersInvHears, FiltersInductive, PTL
-----------------------------------------------------------------------------
(***************************************************************************)
(* The absolute encoder, for any places of its shaft, any number of         *)
(* repetitions and anything that is lost.  An answer does not say what it   *)
(* answers, so a caller is told the truth only because no answer is left    *)
(* over when it sends again: at most one is ahead, and only while it waits. *)
(***************************************************************************)
\* The device has one caller.
OneClient == \A c, d \in Clients : c = d
PromptPic == CuiFits /\ Timely /\ OneClient

CuiFrames == [op : {"ack", "poll", "stream"}, reading : Readings \cup {None}, broken : BOOLEAN]
CuiTyped ==
  /\ mode \in Modes /\ reverse \in BOOLEAN /\ crashed \in BOOLEAN /\ pushFlag \in BOOLEAN /\ tainted \in BOOLEAN
  /\ call \in [Clients -> {"idle", "send", "turn", "open", "woken"}]
  /\ request \in [Clients -> {PUSH_START, PUSH_STOP, POLL}]
  /\ retry \in Nat /\ retry <= MaxRetries + 1 /\ encoder \in -180..180
  /\ storage \in [Clients -> Readings \cup {None}] /\ result \in [Clients -> -180..180 \cup {None}]
  /\ toPic \in Seq({PUSH_START, PUSH_STOP, POLL}) /\ Len(toPic) <= MaxUnderWay
  /\ toHost \in Seq(CuiFrames) /\ Len(toHost) <= MaxUnderWay
  /\ position \in Readings /\ seen \in [Clients -> SUBSET Readings]

\* Who polls is not streamed to by order of this host, and the other way round.
ByMode ==
  /\ \A c \in Clients : call[c] # "idle" => (request[c] = POLL <=> mode = "pull") /\ retry <= MaxRetries
  /\ mode = "pull" => \A i \in 1..Len(toPic) : toPic[i] = POLL
  /\ mode = "pull" => \A i \in 1..Len(toHost) : toHost[i].op # "ack"
  /\ \A i \in 1..Len(toHost) : toHost[i].op # "ack" => toHost[i].reading \in Readings

\* An answer, or a request that will have one, is ahead; there is no other.
Answer(i) == toHost[i].op # "stream"
OneAhead ==
  \/ toPic = <<>> /\ \A i, j \in 1..Len(toHost) : Answer(i) /\ Answer(j) => i = j
  \/ Len(toPic) = 1 /\ \A i \in 1..Len(toHost) : ~Answer(i)

\* Between sending and the end of the wait one answer is ahead at most, and it was
\* made during the call; otherwise there is none.
Waits(c) == call[c] \in {"turn", "open"}
AnswersAreOwn ==
  \A c \in Clients :
    /\ ~Waits(c) => NoAnswerAhead
    /\ Waits(c) => OneAhead
    /\ Waits(c) => \A i \in 1..Len(toHost) : Answer(i) /\ toHost[i].op # "ack" => toHost[i].reading \in seen[c]
    /\ call[c] # "idle" => position \in seen[c] /\ result[c] = None
    /\ call[c] = "woken" /\ mode = "pull" => storage[c] \in seen[c]

CuiInv == CuiTyped /\ ByMode /\ AnswersAreOwn /\ PollIsRecent

\* A reading of the encoder is an angle of the axis.
LEMMA Normalized == ASSUME NEW v \in 0..360, reverse \in BOOLEAN PROVE normalize(v) \in -180..180
  BY DEF normalize

\* Frames that come last, and the rest when the first is gone.
LEMMA CuiAppended ==
  ASSUME NEW S, NEW q \in Seq(S), NEW x \in S
  PROVE  /\ Append(q, x) \in Seq(S) /\ Append(q, x) # <<>> /\ Len(q) \in Nat
         /\ Len(Append(q, x)) = Len(q) + 1 /\ Append(q, x)[Len(q) + 1] = x
         /\ \A i \in 1..Len(q) : Append(q, x)[i] = q[i]
  BY AppendProperties, LenProperties

LEMMA CuiShortened ==
  ASSUME NEW S, NEW q \in Seq(S), q # <<>>
  PROVE  /\ Head(q) \in S /\ Head(q) = q[1] /\ Tail(q) \in Seq(S)
         /\ Len(q) \in Nat \ {0} /\ Len(Tail(q)) = Len(q) - 1
         /\ \A i \in 1..Len(Tail(q)) : Tail(q)[i] = q[i + 1]
  BY HeadTailProperties, LenProperties, EmptySeq

LEMMA InitCuiInv == ASSUME PromptPic PROVE CuiInit => CuiInv
<1> SUFFICES ASSUME CuiInit PROVE CuiInv
  OBVIOUS
<1>1. CuiTyped
  <2>1. toPic = <<>> /\ toHost = <<>> /\ retry = 0 /\ encoder = 0
    BY DEF CuiInit
  <2>2. encoder \in -180..180 /\ retry \in Nat /\ retry <= MaxRetries + 1
    BY <2>1 DEF PromptPic, CuiFits
  <2>3. /\ toPic \in Seq({PUSH_START, PUSH_STOP, POLL}) /\ Len(toPic) <= MaxUnderWay
        /\ toHost \in Seq(CuiFrames) /\ Len(toHost) <= MaxUnderWay
    BY <2>1 DEF PromptPic, CuiFits
  <2> QED BY <2>2, <2>3 DEF CuiInit, CuiTyped
<1>2. ByMode /\ AnswersAreOwn /\ PollIsRecent
  BY DEF CuiInit, ByMode, AnswersAreOwn, PollIsRecent, NoAnswerAhead, Waits
<1> QED BY <1>1, <1>2 DEF CuiInv

\* A call begins: what is under way was streamed.
LEMMA BeginCallKeeps ==
  ASSUME PromptPic, CuiInv, NEW c \in Clients, performRequest(c)
  PROVE  CuiInv'
<1> USE DEF PromptPic, CuiFits, OneClient, CuiInv, performRequest, pic
<1>1. \A d \in Clients : d = c
  OBVIOUS
<1>2. CuiTyped'
  <2>1. PICK r \in {PUSH_START, PUSH_STOP, POLL} : request' = [request EXCEPT ![c] = r]
    OBVIOUS
  <2>2. retry' \in Nat /\ retry' <= MaxRetries + 1
    OBVIOUS
  <2> QED BY <2>1, <2>2, SMTT(40) DEF CuiTyped
<1>3. ByMode'
  BY <1>1 DEF ByMode, CuiTyped, PUSH_START, PUSH_STOP, POLL
<1>4. AnswersAreOwn'
  BY <1>1 DEF AnswersAreOwn, Waits, NoAnswerAhead, CuiTyped
<1>5. PollIsRecent'
  BY <1>1 DEF PollIsRecent, CuiTyped
<1> QED BY <1>2, <1>3, <1>4, <1>5

\* It is sent, when no other answer is ahead, or given up.
LEMMA SendKeeps ==
  ASSUME PromptPic, CuiInv, NEW c \in Clients, Send(c)
  PROVE  CuiInv'
<1> USE DEF PromptPic, CuiFits, OneClient, CuiInv, Send, pic
<1>1. \A d \in Clients : d = c
  OBVIOUS
<1>2. CASE GiveUp(c) /\ UNCHANGED toPic
  <2> USE <1>2 DEF GiveUp
  <2>1. CuiTyped'
    <3>1. retry' \in Nat /\ retry' <= MaxRetries + 1
      BY DEF CuiTyped, ByMode
    <3> QED BY <3>1 DEF CuiTyped
  <2>2. ByMode'
    BY <1>1 DEF ByMode, CuiTyped
  <2>3. AnswersAreOwn'
    BY <1>1 DEF AnswersAreOwn, Waits, NoAnswerAhead, CuiTyped
  <2>4. PollIsRecent'
    BY DEF PollIsRecent, normalize
  <2> QED BY <2>1, <2>2, <2>3, <2>4
<1>3. CASE /\ retry < MaxRetries /\ Len(toPic) < MaxUnderWay /\ toPic' = Append(toPic, request[c])
           /\ call' = [call EXCEPT ![c] = "turn"]
  <2>1. toPic = <<>> /\ \A i \in 1..Len(toHost) : ~Answer(i)
    BY DEF AnswersAreOwn, Waits, NoAnswerAhead, Answer, CuiTyped
  <2>2. request[c] \in {PUSH_START, PUSH_STOP, POLL}
    BY DEF CuiTyped
  <2>3. toPic' \in Seq({PUSH_START, PUSH_STOP, POLL}) /\ Len(toPic') = 1 /\ toPic'[1] = request[c]
    BY <1>3, <2>1, <2>2, CuiAppended DEF CuiTyped
  <2>4. CuiTyped'
    <3>1. Len(toPic') <= MaxUnderWay
      BY <2>3
    <3>2. retry' \in Nat /\ retry' <= MaxRetries + 1
      BY <1>3 DEF CuiTyped
    <3> QED BY <1>3, <2>3, <3>1, <3>2 DEF CuiTyped
  <2>5. ByMode'
    BY <1>1, <1>3, <2>3 DEF ByMode, CuiTyped
  <2>6. AnswersAreOwn'
    BY <1>1, <1>3, <2>1, <2>3 DEF AnswersAreOwn, Waits, NoAnswerAhead, Answer, OneAhead, CuiTyped
  <2>7. PollIsRecent'
    BY DEF PollIsRecent, normalize
  <2> QED BY <2>4, <2>5, <2>6, <2>7
<1> QED BY <1>2, <1>3

\* It waits for its turn, in vain, or returns what it was told.
LEMMA WaitingKeeps ==
  ASSUME PromptPic, CuiInv, NEW c \in Clients, Await(c) \/ Expire(c) \/ Return(c)
  PROVE  CuiInv'
<1>6. ASSUME call[c] = "woken", request[c] = POLL
      PROVE  storage[c] \in seen[c] /\ storage[c] \in 0..360 /\ normalize(storage[c]) \in -180..180
  <2>1. storage[c] \in seen[c] /\ storage[c] \in 0..360
    BY <1>6, ZenonT(40) DEF PromptPic, CuiFits, CuiInv, AnswersAreOwn, ByMode, CuiTyped
  <2>2. reverse \in BOOLEAN
    BY DEF CuiInv, CuiTyped
  <2> QED BY <2>1, <2>2, Normalized
<1> USE DEF PromptPic, CuiFits, OneClient, CuiInv, pic
<1>1. \A d \in Clients : d = c
  OBVIOUS
<1>2. CASE Await(c)
  <2> USE <1>2 DEF Await
  <2>1. CuiTyped'
    BY DEF CuiTyped
  <2>2. ByMode'
    BY <1>1 DEF ByMode, CuiTyped
  <2>3. AnswersAreOwn'
    BY <1>1 DEF AnswersAreOwn, Waits, NoAnswerAhead, OneAhead, Answer, CuiTyped
  <2>4. PollIsRecent'
    BY DEF PollIsRecent, normalize
  <2> QED BY <2>1, <2>2, <2>3, <2>4
<1>3. CASE Expire(c)
  <2> USE <1>3 DEF Expire
  <2>1. CuiTyped'
    BY DEF CuiTyped
  <2>2. ByMode'
    BY <1>1 DEF ByMode, CuiTyped
  <2>3. AnswersAreOwn'
    BY <1>1 DEF AnswersAreOwn, Waits, NoAnswerAhead, CuiTyped
  <2>4. PollIsRecent'
    BY DEF PollIsRecent, normalize
  <2> QED BY <2>1, <2>2, <2>3, <2>4
<1>4. CASE Return(c) /\ request[c] = POLL
  <2> USE <1>4 DEF Return
  <2>1. storage[c] \in seen[c]
    BY <1>6
  <2>2. normalize(storage[c]) \in -180..180
    BY <1>6
  <2>3. result' = [result EXCEPT ![c] = normalize(storage[c])] /\ reverse' = reverse /\ seen' = seen
    OBVIOUS
  <2>4. CuiTyped'
    BY <2>2, <2>3, SMTT(40) DEF CuiTyped
  <2>5. ByMode'
    BY <1>1 DEF ByMode, CuiTyped
  <2>6. AnswersAreOwn'
    BY <1>1 DEF AnswersAreOwn, Waits, NoAnswerAhead, CuiTyped
  <2>7. PollIsRecent'
    <3>1. \A v : normalize(v)' = normalize(v)
      BY <2>3 DEF normalize
    <3>2. result'[c] = normalize(storage[c])
      BY <2>3 DEF CuiTyped
    <3> QED BY <1>1, <2>1, <2>3, <3>1, <3>2 DEF PollIsRecent
  <2> QED BY <2>4, <2>5, <2>6, <2>7
<1>5. CASE Return(c) /\ request[c] # POLL
  <2> USE <1>5 DEF Return
  <2>1. CuiTyped' /\ ByMode' /\ AnswersAreOwn'
    BY SMTT(40) DEF CuiTyped, ByMode, AnswersAreOwn, Waits, NoAnswerAhead, OneAhead, Answer
  <2>2. PollIsRecent'
    BY DEF PollIsRecent, normalize
  <2> QED BY <2>1, <2>2
<1> QED BY <1>2, <1>3, <1>4, <1>5

\* A frame reaches the host.
LEMMA NotifyKeeps ==
  ASSUME PromptPic, CuiInv, notifyMessage
  PROVE  CuiInv'
<1>9. ASSUME Head(toHost).reading \in Readings
      PROVE  normalize(Head(toHost).reading) \in -180..180
  <2>1. Head(toHost).reading \in 0..360 /\ reverse \in BOOLEAN
    BY <1>9 DEF PromptPic, CuiFits, CuiInv, CuiTyped
  <2> QED BY <2>1, Normalized
<1> USE DEF PromptPic, CuiFits, OneClient, CuiInv, notifyMessage
<1> DEFINE m == Head(toHost)
<1>1. /\ m \in CuiFrames /\ m = toHost[1] /\ toHost' \in Seq(CuiFrames)
      /\ Len(toHost) \in Nat \ {0} /\ Len(toHost') = Len(toHost) - 1
      /\ \A i \in 1..Len(toHost') : toHost'[i] = toHost[i + 1] /\ i + 1 \in 1..Len(toHost)
  <2>1. toHost \in Seq(CuiFrames) /\ toHost # <<>> /\ toHost' = Tail(toHost)
    BY DEF CuiTyped
  <2> QED BY <2>1, CuiShortened
<1>2. /\ m.op \in {"ack", "poll", "stream"} /\ m.reading \in Readings \cup {None} /\ m.broken \in BOOLEAN
      /\ m.op # "ack" => m.reading \in Readings
      /\ mode = "pull" => m.op # "ack"
  BY <1>1 DEF CuiFrames, ByMode
<1>3. /\ storage' \in [Clients -> Readings \cup {None}] /\ encoder' \in -180..180
      /\ call' \in [Clients -> {"idle", "send", "turn", "open", "woken"}]
  <2>1. CASE m.broken
    BY <2>1 DEF CuiTyped
  <2>2. CASE ~m.broken /\ m.op = "stream"
    <3>1. normalize(m.reading) \in -180..180
      BY <1>2, <1>9, <2>2
    <3>2. encoder' = normalize(m.reading) /\ storage' = storage /\ call' = call
      BY <2>2
    <3> QED BY <3>1, <3>2 DEF CuiTyped
  <2>3. CASE ~m.broken /\ m.op # "stream"
    BY <1>2, <2>3 DEF CuiTyped, Notify
  <2> QED BY <1>2, <2>1, <2>2, <2>3
<1>4. CuiTyped'
  <2>1. tainted' \in BOOLEAN
    BY <1>2 DEF CuiTyped
  <2>2. Len(toHost') <= MaxUnderWay
    BY <1>1 DEF CuiTyped
  <2> QED BY <1>1, <1>3, <2>1, <2>2 DEF CuiTyped
<1>5. \A c \in Clients : call'[c] = call[c] \/ (call[c] = "open" /\ call'[c] = "woken")
  BY DEF Notify, CuiTyped
<1>6. ByMode'
  <2>1. \A c \in Clients : call'[c] # "idle" => call[c] # "idle"
    BY <1>5
  <2> QED BY <1>1, <2>1 DEF ByMode
<1>7. AnswersAreOwn'
  <2> SUFFICES ASSUME NEW c \in Clients
               PROVE  (/\ ~Waits(c) => NoAnswerAhead
                       /\ Waits(c) => OneAhead
                       /\ Waits(c) => \A i \in 1..Len(toHost) : Answer(i) /\ toHost[i].op # "ack" => toHost[i].reading \in seen[c]
                       /\ call[c] # "idle" => position \in seen[c] /\ result[c] = None
                       /\ call[c] = "woken" /\ mode = "pull" => storage[c] \in seen[c])'
    BY DEF AnswersAreOwn
  <2>1. toPic' = toPic /\ seen' = seen /\ position' = position /\ result' = result /\ mode' = mode
    BY DEF pic
  <2>2. OneAhead \/ NoAnswerAhead
    BY DEF AnswersAreOwn
  <2>3. NoAnswerAhead => OneAhead
    BY <1>1 DEF NoAnswerAhead, OneAhead, Answer
  <2>4. OneAhead'
    BY <1>1, <2>1, <2>2, <2>3 DEF OneAhead, Answer
  <2>5. NoAnswerAhead => NoAnswerAhead'
    BY <1>1, <2>1 DEF NoAnswerAhead
  <2>6. Waits(c) /\ ~Waits(c)' => ~m.broken /\ m.op # "stream" /\ call[c] = "open" /\ storage'[c] = m.reading
    BY <1>2 DEF Waits, Notify, HasWindow
  <2>7. m.op # "stream" /\ OneAhead => NoAnswerAhead'
    <3> SUFFICES ASSUME m.op # "stream", OneAhead PROVE NoAnswerAhead'
      OBVIOUS
    <3>1. Answer(1) /\ 1 \in 1..Len(toHost)
      BY <1>1 DEF Answer
    <3>2. toPic = <<>> /\ \A i \in 1..Len(toHost) : Answer(i) => i = 1
      BY <3>1 DEF OneAhead
    <3>3. ASSUME NEW i \in 1..Len(toHost') PROVE toHost'[i].op = "stream"
      BY <1>1, <3>2 DEF Answer
    <3> QED BY <1>1, <2>1, <3>2, <3>3 DEF NoAnswerAhead
  <2>8. ~Waits(c)' => NoAnswerAhead'
    BY <2>2, <2>5, <2>6, <2>7 DEF AnswersAreOwn
  <2>9. Waits(c)' => \A i \in 1..Len(toHost') : Answer(i)' /\ toHost'[i].op # "ack" => toHost'[i].reading \in seen[c]
    <3>1. Waits(c)' => Waits(c)
      BY <1>5 DEF Waits
    <3> QED BY <1>1, <3>1 DEF AnswersAreOwn, Answer
  <2>10. call'[c] # "idle" => position \in seen[c] /\ result[c] = None
    BY <1>5 DEF AnswersAreOwn
  <2>11. call'[c] = "woken" /\ mode = "pull" => storage'[c] \in seen[c]
    <3> SUFFICES ASSUME call'[c] = "woken", mode = "pull" PROVE storage'[c] \in seen[c]
      OBVIOUS
    <3>1. CASE call[c] = "open"
      <4>1. Waits(c) /\ ~Waits(c)'
        BY <3>1 DEF Waits
      <4>2. Answer(1) /\ 1 \in 1..Len(toHost) /\ toHost[1].op # "ack"
        BY <1>1, <1>2, <2>6, <4>1 DEF Answer
      <4> QED BY <1>1, <2>6, <4>1, <4>2 DEF AnswersAreOwn
    <3>2. CASE call[c] = "woken"
      <4>1. NoAnswerAhead /\ storage[c] \in seen[c]
        BY <3>2 DEF AnswersAreOwn, Waits
      <4>2. m.op = "stream"
        BY <1>1, <4>1 DEF NoAnswerAhead
      <4>3. storage' = storage
        BY <4>2
      <4> QED BY <4>1, <4>3
    <3> QED BY <1>5, <3>1, <3>2
  <2> QED BY <2>1, <2>4, <2>8, <2>9, <2>10, <2>11
<1>8. PollIsRecent'
  BY DEF PollIsRecent, normalize, pic
<1> QED BY <1>4, <1>6, <1>7, <1>8

\* The PIC takes a request, and answers it.
LEMMA ReceiveKeeps ==
  ASSUME PromptPic, CuiInv, Receive
  PROVE  CuiInv'
<1> USE DEF PromptPic, CuiFits, OneClient, CuiInv, Receive, host
<1> DEFINE r == Head(toPic)
<1>1. /\ r \in {PUSH_START, PUSH_STOP, POLL} /\ r = toPic[1] /\ toPic' \in Seq({PUSH_START, PUSH_STOP, POLL})
      /\ Len(toPic) \in Nat \ {0} /\ Len(toPic') = Len(toPic) - 1
      /\ \A i \in 1..Len(toPic') : toPic'[i] = toPic[i + 1] /\ i + 1 \in 1..Len(toPic)
  <2>1. toPic \in Seq({PUSH_START, PUSH_STOP, POLL}) /\ toPic # <<>> /\ toPic' = Tail(toPic)
    BY DEF CuiTyped
  <2> QED BY <2>1, CuiShortened
<1>2. PICK f \in CuiFrames :
        /\ toHost' = Append(toHost, f)
        /\ r = POLL => f.op = "poll" /\ f.reading = position
        /\ r # POLL => f.op = "ack"
  <2>1. CASE r = POLL
    <3>1. PICK broken \in BOOLEAN : toHost' = Append(toHost, Frame("poll", position, broken))
      BY <2>1 DEF sendData, PUSH_START, PUSH_STOP, POLL
    <3>2. Frame("poll", position, broken) \in CuiFrames
      BY DEF Frame, CuiFrames, CuiTyped
    <3> QED BY <2>1, <3>1, <3>2 DEF Frame
  <2>2. CASE r # POLL
    <3>1. sendAck
      BY <1>1, <2>2
    <3>2. PICK broken \in {FALSE} \cup {tainted} : toHost' = Append(toHost, Frame("ack", None, broken))
      BY <3>1 DEF sendAck
    <3>3. Frame("ack", None, broken) \in CuiFrames
      BY DEF Frame, CuiFrames, CuiTyped
    <3> QED BY <2>2, <3>2, <3>3 DEF Frame
  <2> QED BY <2>1, <2>2
<1>3. /\ toHost' \in Seq(CuiFrames) /\ Len(toHost) \in Nat /\ Len(toHost') = Len(toHost) + 1
      /\ toHost'[Len(toHost) + 1] = f /\ \A i \in 1..Len(toHost) : toHost'[i] = toHost[i]
  <2>1. toHost \in Seq(CuiFrames)
    BY DEF CuiTyped
  <2> QED BY <1>2, <2>1, CuiAppended
<1>4. CuiTyped'
  <2>1. pushFlag' \in BOOLEAN
    BY <1>1 DEF CuiTyped
  <2>2. Len(toHost') <= MaxUnderWay /\ Len(toPic') <= MaxUnderWay
    BY <1>1, <1>3 DEF CuiTyped
  <2> QED BY <1>1, <1>3, <2>1, <2>2 DEF CuiTyped
<1>5. ByMode'
  <2>1. mode = "pull" => r = POLL
    BY <1>1 DEF ByMode
  <2>2. f.op # "ack" => f.reading \in Readings
    BY <1>2 DEF CuiTyped
  <2>3. mode = "pull" => f.op # "ack"
    BY <1>2, <2>1
  <2>4. \A i \in 1..Len(toHost') : i \in 1..Len(toHost) \/ i = Len(toHost) + 1
    BY <1>3
  <2> QED BY <1>1, <1>3, <2>2, <2>3, <2>4 DEF ByMode
<1>6. AnswersAreOwn'
  <2> SUFFICES ASSUME NEW c \in Clients
               PROVE  (/\ ~Waits(c) => NoAnswerAhead
                       /\ Waits(c) => OneAhead
                       /\ Waits(c) => \A i \in 1..Len(toHost) : Answer(i) /\ toHost[i].op # "ack" => toHost[i].reading \in seen[c]
                       /\ call[c] # "idle" => position \in seen[c] /\ result[c] = None
                       /\ call[c] = "woken" /\ mode = "pull" => storage[c] \in seen[c])'
    BY DEF AnswersAreOwn
  <2>1. Waits(c) /\ Len(toPic) = 1 /\ \A i \in 1..Len(toHost) : ~Answer(i)
    BY <1>1 DEF AnswersAreOwn, NoAnswerAhead, OneAhead
  <2>2. toPic' = <<>>
    BY <1>1, <2>1
  <2>3. \A i \in 1..Len(toHost') : Answer(i)' => i = Len(toHost) + 1
    BY <1>3, <2>1 DEF Answer
  <2>4. OneAhead'
    BY <2>2, <2>3 DEF OneAhead
  <2>5. position \in seen[c]
    BY <2>1 DEF AnswersAreOwn, Waits
  <2>6. \A i \in 1..Len(toHost') : Answer(i)' /\ toHost'[i].op # "ack" => toHost'[i].reading \in seen[c]
    BY <1>2, <1>3, <2>3, <2>5
  <2>7. Waits(c)'
    BY <2>1 DEF Waits
  <2> QED BY <2>1, <2>4, <2>5, <2>6, <2>7 DEF AnswersAreOwn, Waits
<1>7. PollIsRecent'
  BY DEF PollIsRecent, normalize
<1> QED BY <1>4, <1>5, <1>6, <1>7

\* Or misses it, or streams.
LEMMA PicKeeps ==
  ASSUME PromptPic, CuiInv, Miss \/ Stream
  PROVE  CuiInv'
<1> USE DEF PromptPic, CuiFits, OneClient, CuiInv, host, pic
<1>1. CASE Miss
  <2> USE <1>1 DEF Miss
  <2>1. /\ toPic' \in Seq({PUSH_START, PUSH_STOP, POLL}) /\ Len(toPic) \in Nat \ {0} /\ Len(toPic') = Len(toPic) - 1
        /\ \A i \in 1..Len(toPic') : toPic'[i] = toPic[i + 1] /\ i + 1 \in 1..Len(toPic)
    <3>1. toPic \in Seq({PUSH_START, PUSH_STOP, POLL}) /\ toPic # <<>> /\ toPic' = Tail(toPic)
      BY DEF CuiTyped
    <3> QED BY <3>1, CuiShortened
  <2>2. CuiTyped'
    <3>1. Len(toPic') <= MaxUnderWay
      BY <2>1 DEF CuiTyped
    <3> QED BY <2>1, <3>1 DEF CuiTyped
  <2>3. ByMode'
    BY <2>1 DEF ByMode
  <2>4. ASSUME OneAhead PROVE OneAhead'
    <3>1. Len(toPic) = 1 /\ \A i \in 1..Len(toHost) : ~Answer(i)
      BY <2>1, <2>4 DEF OneAhead
    <3>2. toPic' = <<>>
      BY <2>1, <3>1
    <3> QED BY <3>1, <3>2 DEF OneAhead, Answer
  <2>5. ~NoAnswerAhead
    BY DEF NoAnswerAhead
  <2>6. AnswersAreOwn'
    BY <2>4, <2>5 DEF AnswersAreOwn, Waits, Answer
  <2>7. PollIsRecent'
    BY DEF PollIsRecent, normalize
  <2> QED BY <2>2, <2>3, <2>6, <2>7
<1>2. CASE Stream
  <2> USE <1>2 DEF Stream
  <2>1. PICK f \in CuiFrames : toHost' = Append(toHost, f) /\ f.op = "stream" /\ f.reading = position
    <3>1. PICK broken \in BOOLEAN : toHost' = Append(toHost, Frame("stream", position, broken))
      BY DEF sendData
    <3>2. Frame("stream", position, broken) \in CuiFrames
      BY DEF Frame, CuiFrames, CuiTyped
    <3> QED BY <3>1, <3>2 DEF Frame
  <2>2. /\ toHost' \in Seq(CuiFrames) /\ Len(toHost) \in Nat /\ Len(toHost') = Len(toHost) + 1
        /\ toHost'[Len(toHost) + 1] = f /\ \A i \in 1..Len(toHost) : toHost'[i] = toHost[i]
    <3>1. toHost \in Seq(CuiFrames)
      BY DEF CuiTyped
    <3> QED BY <2>1, <3>1, CuiAppended
  <2>3. \A i \in 1..Len(toHost') : i \in 1..Len(toHost) \/ i = Len(toHost) + 1
    BY <2>2
  <2>4. CuiTyped'
    <3>1. Len(toHost') <= MaxUnderWay
      BY <2>2 DEF CuiTyped
    <3> QED BY <2>2, <3>1 DEF CuiTyped
  <2>5. ByMode'
    <3>1. f.reading \in Readings /\ f.op # "ack"
      BY <2>1 DEF CuiTyped
    <3> QED BY <2>2, <2>3, <3>1 DEF ByMode
  <2>6. \A i \in 1..Len(toHost') : Answer(i)' => i \in 1..Len(toHost) /\ Answer(i) /\ toHost'[i] = toHost[i]
    BY <2>1, <2>2, <2>3 DEF Answer
  <2>7. OneAhead => OneAhead'
    BY <2>6 DEF OneAhead
  <2>8. NoAnswerAhead => NoAnswerAhead'
    BY <2>6, <2>2 DEF NoAnswerAhead, Answer
  <2>9. AnswersAreOwn'
    BY <2>6, <2>7, <2>8 DEF AnswersAreOwn, Waits
  <2>10. PollIsRecent'
    BY DEF PollIsRecent, normalize
  <2> QED BY <2>4, <2>5, <2>9, <2>10
<1> QED BY <1>1, <1>2

\* The shaft is somewhere else, and has been there during each call that goes on.
LEMMA TurnKeeps ==
  ASSUME PromptPic, CuiInv, Turn
  PROVE  CuiInv'
<1> USE DEF PromptPic, CuiFits, OneClient, CuiInv, host, pic, Turn
<1>1. CuiTyped'
  BY SMTT(40) DEF CuiTyped
<1>2. \A c \in Clients : seen[c] \subseteq seen'[c] /\ (call[c] # "idle" => position' \in seen'[c])
  BY DEF CuiTyped
<1>3. ByMode'
  BY DEF ByMode
<1>4. AnswersAreOwn'
  BY <1>2 DEF AnswersAreOwn, Waits, NoAnswerAhead, OneAhead, Answer
<1>5. PollIsRecent'
  BY <1>2 DEF PollIsRecent, normalize
<1> QED BY <1>1, <1>3, <1>4, <1>5

LEMMA CuiNextKeeps == ASSUME PromptPic, CuiInv, [CuiNext]_cuiVars PROVE CuiInv'
<1>1. CASE CuiNext
  BY <1>1, BeginCallKeeps, SendKeeps, WaitingKeeps, NotifyKeeps, ReceiveKeeps, PicKeeps, TurnKeeps
     DEF CuiNext, Running, Request, Notifying
<1>2. CASE UNCHANGED cuiVars
  BY <1>2, SMTT(40) DEF cuiVars, host, pic, CuiInv, CuiTyped, ByMode, AnswersAreOwn, PollIsRecent, normalize, Waits, NoAnswerAhead, OneAhead, Answer
<1> QED BY <1>1, <1>2

LEMMA CuiInductive == ASSUME PromptPic PROVE CuiSpec => []CuiInv
<1>1. CuiInit => CuiInv
  BY InitCuiInv
<1>2. CuiInv /\ [CuiNext]_cuiVars => CuiInv'
  BY CuiNextKeeps
<1> QED BY <1>1, <1>2, PTL DEF CuiSpec

\* The state of the encoder and its caller is well formed, whatever is broken or lost.
THEOREM EncoderIsTyped == ASSUME PromptPic PROVE CuiSpec => []CuiTypeOK
<1>1. CuiInv => CuiTypeOK
  BY SMTT(40) DEF CuiInv, CuiTyped, CuiTypeOK, PromptPic, CuiFits
<1> QED BY <1>1, CuiInductive, PTL

\* A poll that succeeds tells where the shaft has been during the call, however often it
\* was repeated, as long as a request times out only when its answer does not come any
\* more and the encoder has one caller.
THEOREM PollsAreRecent == ASSUME PromptPic PROVE CuiSpec => []PollIsRecent
<1>1. CuiInv => PollIsRecent
  BY DEF CuiInv
<1> QED BY <1>1, CuiInductive, PTL
=============================================================================
