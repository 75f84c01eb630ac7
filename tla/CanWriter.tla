----------------------------- MODULE CanWriter -----------------------------
(***************************************************************************)
(* The transmission queue of one CAN bus: the buffer that                  *)
(* YarpCanSenderDelegate::prepareMessage fills and CanWriterThread::flush  *)
(* empties (libraries/YarpPlugins/CanBusControlboard). Both run under      *)
(* bufferMutex, so each is one action; the order in which raw devices, the *)
(* writer thread and the SYNC thread take the mutex is free.               *)
(*                                                                         *)
(* A message is known by its ordinal: the n-th message the queue accepted. *)
(* The CAN controller behind canGetErrors and canWrite is external.        *)
(***************************************************************************)
EXTENDS Integers, Sequences

CONSTANTS BufferSize,   \* maxSize: the length of canBuffer
          Messages,     \* what a message says
          MaxAccepted   \* bound: messages accepted in a run

ASSUME BufferSizeAssumption == BufferSize \in Nat \ {0}
ASSUME MaxAcceptedAssumption == MaxAccepted \in Nat

VARIABLES
  canBuffer,         \* canBuffer[i]: the ordinal of the message in slot i, 0 if none yet
  preparedMessages,  \* how many slots, from the first, await transmission
  accepted,          \* every message prepareMessage took, in order
  wire,              \* ordinals in the order in which the bus saw them
  lost               \* how many messages an error threw away

vars == <<canBuffer, preparedMessages, accepted, wire, lost>>

Slots == 0..(BufferSize - 1)
\* The first k messages of the buffer, in the order of their slots.
Front(k) == [i \in 1..k |-> canBuffer[i - 1]]

Init == /\ canBuffer = [i \in Slots |-> 0]
        /\ preparedMessages = 0
        /\ accepted = <<>>
        /\ wire = <<>>
        /\ lost = 0

-----------------------------------------------------------------------------
(* YarpCanSenderDelegate::prepareMessage *)

\* Mutation: one message too many.
HasRoomOffByOne == preparedMessages <= BufferSize
HasRoom == preparedMessages < BufferSize

\* It returns true.
PrepareMessage(m) ==
  /\ HasRoom /\ Len(accepted) < MaxAccepted
  /\ canBuffer' = [canBuffer EXCEPT ![preparedMessages] = Len(accepted) + 1]
  /\ preparedMessages' = preparedMessages + 1
  /\ accepted' = Append(accepted, m)
  /\ UNCHANGED <<wire, lost>>

\* It returns false and the message is gone.
RefuseMessage == ~HasRoom /\ UNCHANGED vars

-----------------------------------------------------------------------------
(* CanWriterThread::flush *)

FlushNothing == preparedMessages = 0 /\ UNCHANGED vars

\* The pending messages move to the front; the slots behind them keep what
\* they held.
HandlePartialWrite(sent) ==
  [i \in Slots |-> IF i + sent < preparedMessages THEN canBuffer[i + sent] ELSE canBuffer[i]]

\* canGetErrors fails or reports bus off (k = 0), or canWrite fails after the
\* controller had taken k frames: the queue is reset either way.
FlushError(k) ==
  /\ preparedMessages > 0 /\ k \in 0..(preparedMessages - 1)
  /\ wire' = wire \o Front(k)
  /\ lost' = lost + (preparedMessages - k)
  /\ preparedMessages' = 0
  /\ UNCHANGED <<canBuffer, accepted>>

\* Mutations: a partial write taken for a full one, and for none at all; a
\* lonely message not worth a write.
FlushAll(sent) ==
  /\ preparedMessages > 0 /\ sent \in 0..preparedMessages
  /\ wire' = wire \o Front(sent)
  /\ preparedMessages' = 0
  /\ UNCHANGED <<canBuffer, accepted, lost>>
FlushKeep(sent) ==
  /\ preparedMessages > 0 /\ sent \in 0..preparedMessages
  /\ wire' = wire \o Front(sent)
  /\ preparedMessages' = IF sent = preparedMessages THEN 0 ELSE preparedMessages
  /\ UNCHANGED <<canBuffer, accepted, lost>>
FlushBatch(sent) ==
  /\ preparedMessages > 1 /\ sent \in 0..preparedMessages
  /\ wire' = wire \o Front(sent)
  /\ canBuffer' = IF sent # preparedMessages THEN HandlePartialWrite(sent) ELSE canBuffer
  /\ preparedMessages' = preparedMessages - sent
  /\ UNCHANGED <<accepted, lost>>

\* canWrite returns true and says how many frames the controller took.
FlushWrite(sent) ==
  /\ preparedMessages > 0 /\ sent \in 0..preparedMessages
  /\ wire' = wire \o Front(sent)
  /\ canBuffer' = IF sent # preparedMessages THEN HandlePartialWrite(sent) ELSE canBuffer
  /\ preparedMessages' = preparedMessages - sent
  /\ UNCHANGED <<accepted, lost>>

Flush == \/ FlushNothing
         \/ \E k \in 0..BufferSize : FlushError(k) \/ FlushWrite(k)

-----------------------------------------------------------------------------
Next == \/ \E m \in Messages : PrepareMessage(m)
        \/ RefuseMessage
        \/ Flush

Spec == Init /\ [][Next]_vars

\* The writer thread flushes every few milliseconds. The controller is
\* trusted with one thing: that it does not refuse every frame for ever.
Fairness == WF_vars(\E sent \in 1..BufferSize : FlushWrite(sent))
FairSpec == Spec /\ Fairness

-----------------------------------------------------------------------------
TypeOK == /\ canBuffer \in [Slots -> Nat]
          /\ preparedMessages \in 0..BufferSize
          /\ accepted \in Seq(Messages)
          /\ wire \in Seq(Nat)
          /\ lost \in Nat

\* What awaits transmission is exactly the latest messages accepted, each
\* once and in order, through any mixture of partial writes and errors.
BufferIsTail ==
  \A i \in 0..(preparedMessages - 1) :
     canBuffer[i] = Len(accepted) - preparedMessages + 1 + i

\* The bus never sees two messages in another order than they were prepared
\* in, nor one of them twice.
WireInOrder == \A i, j \in 1..Len(wire) : i < j => wire[i] < wire[j]

\* The bus is behind the buffer: what is still pending was prepared after
\* everything that is on the wire.
WireBeforeBuffer ==
  \A i \in 1..Len(wire) : wire[i] \in 1..(Len(accepted) - preparedMessages)

\* Every accepted message is on the wire, or pending, or was thrown away by
\* a bus error: a partial write loses nothing.
Conservation == Len(wire) + preparedMessages + lost = Len(accepted)

\* A message the queue accepted does not stay there for ever.
EveryMessageLeaves ==
  \A n \in 1..MaxAccepted :
     Len(accepted) >= n ~> Len(accepted) - preparedMessages >= n
=============================================================================
