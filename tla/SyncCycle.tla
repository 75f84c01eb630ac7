----------------------------- MODULE SyncCycle -----------------------------
(***************************************************************************)
(* SyncPeriodicThread::run over the transmission queue of one bus. In each *)
(* period the thread lets every raw device prepare its setpoint, prepares  *)
(* the SYNC frame and flushes; meanwhile the writer thread flushes on its  *)
(* own and other threads prepare other traffic (SDO, NMT, controlwords).   *)
(* The drives apply the setpoints they hold when a SYNC arrives.           *)
(***************************************************************************)
EXTENDS Integers, Sequences, FiniteSets

CONSTANTS Handles,      \* the raw devices of the bus, in the order of getHandles()
          BufferSize,   \* of the queue
          MaxAccepted,  \* bound: messages accepted in a run
          MaxCycles     \* bound: periods in a run

\* Checked with CycleTypeOK.
CycleFits ==
  /\ Handles \in Seq(STRING) /\ Handles # <<>>
  /\ BufferSize \in Nat \ {0} /\ MaxAccepted \in Nat /\ MaxCycles \in Nat

Setpoint(h, c) == [kind |-> "setpoint", node |-> h, cycle |-> c]
Sync(c) == [kind |-> "sync", node |-> "none", cycle |-> c]
Other == [kind |-> "other", node |-> "none", cycle |-> 0]
Messages == {Setpoint(Handles[i], c) : i \in 1..Len(Handles), c \in 1..MaxCycles}
              \cup {Sync(c) : c \in 1..MaxCycles} \cup {Other}

VARIABLES
  canBuffer, preparedMessages, accepted, wire, lost,  \* the queue
  cycle,  \* periods begun
  next    \* the handle whose turn it is; after the last comes the SYNC,
          \* then the flush; 0 between periods

queueVars == <<canBuffer, preparedMessages, accepted, wire, lost>>
cycleVars == <<queueVars, cycle, next>>

Queue == INSTANCE CanWriter

CycleInit == Queue!Init /\ cycle = 0 /\ next = 0

-----------------------------------------------------------------------------
\* prepareMessage, whose result none of the callers below looks at.
Enqueue(m) == Queue!PrepareMessage(m) \/ Queue!RefuseMessage

\* Mutation: a SYNC frame opens the period.
StartWithSync ==
  /\ next = 0 /\ cycle < MaxCycles
  /\ Enqueue(Sync(cycle + 1))
  /\ cycle' = cycle + 1
  /\ next' = 1

\* The period begins.
StartCycle ==
  /\ next = 0 /\ cycle < MaxCycles
  /\ cycle' = cycle + 1
  /\ next' = 1
  /\ UNCHANGED queueVars

\* handle->synchronize(): a device with synchronization disabled, or in a
\* mode that takes no cyclic setpoint, prepares nothing.
SyncHandle ==
  /\ next \in 1..Len(Handles)
  /\ Enqueue(Setpoint(Handles[next], cycle)) \/ UNCHANGED queueVars
  /\ next' = next + 1
  /\ UNCHANGED cycle

\* prepareMessage({0x80, 0, nullptr})
PrepareSync ==
  /\ next = Len(Handles) + 1
  /\ Enqueue(Sync(cycle))
  /\ next' = next + 1
  /\ UNCHANGED cycle

\* writer->flush(); the task ends, and the period with it.
FlushSync ==
  /\ next = Len(Handles) + 2
  /\ Queue!Flush
  /\ next' = 0
  /\ UNCHANGED cycle

\* The writer thread and the other users of the queue run at any time.
WriterFlush == Queue!Flush /\ UNCHANGED <<cycle, next>>
PrepareOther == Enqueue(Other) /\ UNCHANGED <<cycle, next>>

CycleNext == StartCycle \/ SyncHandle \/ PrepareSync \/ FlushSync \/ WriterFlush \/ PrepareOther

CycleSpec == CycleInit /\ [][CycleNext]_cycleVars

-----------------------------------------------------------------------------
CycleTypeOK == CycleFits /\ Queue!TypeOK /\ cycle \in 0..MaxCycles /\ next \in 0..(Len(Handles) + 2)

OnWire(p) == accepted[wire[p]]
IsSync(p) == OnWire(p).kind = "sync"
IsSetpoint(p) == OnWire(p).kind = "setpoint"

\* A SYNC on the bus comes after every setpoint of its own and of earlier
\* periods, and before every setpoint of later ones: no drive ever applies a
\* setpoint one SYNC too early or is handed one after the SYNC it was for.
SyncSeparatesCycles ==
  \A p, q \in 1..Len(wire) :
     p < q /\ IsSync(p) /\ (IsSync(q) \/ IsSetpoint(q))
       => OnWire(p).cycle < OnWire(q).cycle

\* Between one SYNC on the bus and the next, a drive gets no more setpoints
\* than periods went by: setpoints only pile up when SYNC frames were lost.
SetpointsBetween(p, q, h) ==
  Cardinality({r \in p..q : IsSetpoint(r) /\ OnWire(r).node = h})
OneSetpointPerPeriod ==
  \A p, q \in 1..Len(wire) :
     p < q /\ IsSync(p) /\ IsSync(q) =>
       \A i \in 1..Len(Handles) :
          SetpointsBetween(p, q, Handles[i]) <= OnWire(q).cycle - OnWire(p).cycle

\* On the bus, every period is one whole: its setpoints, one for each drive, and its SYNC.
CyclesAreWhole == SyncSeparatesCycles /\ OneSetpointPerPeriod
=============================================================================
