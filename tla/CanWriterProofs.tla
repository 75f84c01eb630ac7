-------------------------- MODULE CanWriterProofs --------------------------
(***************************************************************************)
(* Proofs about CanWriter for every buffer size, every bound on the        *)
(* messages and every behaviour of the controller. The wire is in order    *)
(* because it never catches up with the buffer, and the buffer is the tail *)
(* of what was accepted: together they are inductive.                      *)
(***************************************************************************)
EXTENDS CanWriter, SequenceTheorems, TLAPS

IInv == TypeOK /\ BufferIsTail /\ WireInOrder /\ WireBeforeBuffer /\ Conservation

USE BufferSizeAssumption, MaxAcceptedAssumption

\* The invariant holds of an empty queue.
LEMMA InitIInv == Init => IInv
  BY DEF Init, IInv, TypeOK, BufferIsTail, WireInOrder, WireBeforeBuffer, Conservation, Slots

\* The first k frames of the buffer are k consecutive ordinals.
LEMMA FrontIsConsecutive ==
  ASSUME IInv, NEW k \in 0..preparedMessages
  PROVE  /\ Front(k) \in Seq(Nat) /\ Len(Front(k)) = k
         /\ \A i \in 1..k : Front(k)[i] = Len(accepted) - preparedMessages + i
<1>1. \A i \in 1..k : i - 1 \in Slots /\ i - 1 \in 0..(preparedMessages - 1)
  BY DEF IInv, TypeOK, Slots
<1>2. \A i \in 1..k : canBuffer[i - 1] \in Nat
  BY <1>1 DEF IInv, TypeOK
<1>3. \A i \in 1..k : canBuffer[i - 1] = Len(accepted) - preparedMessages + i
  <2> SUFFICES ASSUME NEW i \in 1..k
               PROVE  canBuffer[i - 1] = Len(accepted) - preparedMessages + i
    OBVIOUS
  <2>1. canBuffer[i - 1] = Len(accepted) - preparedMessages + 1 + (i - 1)
    BY <1>1 DEF IInv, BufferIsTail
  <2> QED BY <2>1, LenProperties DEF IInv, TypeOK
<1> QED BY <1>2, <1>3 DEF Front

\* Writing the first k frames keeps the wire in order and behind the rest.
LEMMA WireGrows ==
  ASSUME IInv, NEW k \in 0..preparedMessages, wire' = wire \o Front(k)
  PROVE  /\ wire' \in Seq(Nat) /\ Len(wire') = Len(wire) + k
         /\ \A i \in 1..Len(wire') :
               wire'[i] \in 1..(Len(accepted) - preparedMessages + k)
         /\ WireInOrder'
<1> DEFINE base == Len(accepted) - preparedMessages
<1>1. /\ Front(k) \in Seq(Nat) /\ Len(Front(k)) = k
      /\ \A i \in 1..k : Front(k)[i] = base + i
  BY FrontIsConsecutive
<1>2. wire \in Seq(Nat) /\ Len(wire) \in Nat /\ k \in Nat /\ base \in Nat
  BY LenProperties DEF IInv, TypeOK, Conservation
<1> HIDE DEF base
<1> DEFINE front == Front(k)
<1> HIDE DEF front
<1>3. ASSUME NEW s \in Seq(Nat), NEW t \in Seq(Nat)
      PROVE  /\ s \o t \in Seq(Nat) /\ Len(s \o t) = Len(s) + Len(t)
             /\ \A i \in 1..(Len(s) + Len(t)) :
                  (s \o t)[i] = IF i <= Len(s) THEN s[i] ELSE t[i - Len(s)]
  BY ConcatProperties
<1>4. /\ front \in Seq(Nat) /\ Len(front) = k
      /\ \A i \in 1..k : front[i] = base + i
      /\ wire' = wire \o front
  BY <1>1 DEF front
<1>5. wire' \in Seq(Nat) /\ Len(wire') = Len(wire) + k
  BY <1>3, <1>4, <1>2
<1>6. /\ \A i \in 1..Len(wire) : wire'[i] = wire[i]
      /\ \A i \in (Len(wire) + 1)..(Len(wire) + k) : wire'[i] = base + (i - Len(wire))
  BY <1>3, <1>4, <1>2, <1>5
<1>7. \A i \in 1..Len(wire) : wire[i] \in 1..base
  BY DEF IInv, WireBeforeBuffer, base
<1>8. \A i \in 1..Len(wire') : wire'[i] \in 1..(base + k)
  BY <1>2, <1>5, <1>6, <1>7
<1>9. WireInOrder'
  <2> SUFFICES ASSUME NEW i \in 1..Len(wire'), NEW j \in 1..Len(wire'), i < j
               PROVE  wire'[i] < wire'[j]
    BY DEF WireInOrder
  <2>1. CASE j <= Len(wire)
    BY <2>1, <1>2, <1>5, <1>6 DEF IInv, WireInOrder
  <2>2. CASE i <= Len(wire) /\ j > Len(wire)
    BY <2>2, <1>2, <1>5, <1>6, <1>7
  <2>3. CASE i > Len(wire)
    BY <2>3, <1>2, <1>5, <1>6
  <2> QED BY <2>1, <2>2, <2>3, <1>2
<1> QED BY <1>5, <1>8, <1>9 DEF base
\* Preparing a message keeps the invariant.
LEMMA PrepareStep ==
  ASSUME IInv, NEW m \in Messages, PrepareMessage(m)
  PROVE  IInv'
<1>1. /\ preparedMessages \in 0..(BufferSize - 1)
      /\ Len(accepted) \in Nat /\ accepted \in Seq(Messages)
      /\ preparedMessages' = preparedMessages + 1
      /\ canBuffer' = [canBuffer EXCEPT ![preparedMessages] = Len(accepted) + 1]
      /\ wire' = wire /\ lost' = lost
  BY DEF IInv, TypeOK, PrepareMessage, HasRoom
<1>2. accepted' \in Seq(Messages) /\ Len(accepted') = Len(accepted) + 1
  BY <1>1, AppendProperties DEF PrepareMessage
<1>3. TypeOK'
  BY <1>1, <1>2 DEF IInv, TypeOK, Slots
<1>4. BufferIsTail'
  <2> SUFFICES ASSUME NEW i \in 0..(preparedMessages' - 1)
               PROVE  canBuffer'[i] = Len(accepted') - preparedMessages' + 1 + i
    BY DEF BufferIsTail
  <2>1. i \in Slots /\ canBuffer \in [Slots -> Nat]
    BY <1>1 DEF Slots, IInv, TypeOK
  <2>2. CASE i = preparedMessages
    BY <2>1, <2>2, <1>1, <1>2
  <2>3. CASE i \in 0..(preparedMessages - 1)
    BY <2>1, <2>3, <1>1, <1>2 DEF IInv, BufferIsTail
  <2> QED BY <2>2, <2>3, <1>1
<1>5. WireInOrder' /\ WireBeforeBuffer' /\ Conservation'
  BY <1>1, <1>2 DEF IInv, TypeOK, WireInOrder, WireBeforeBuffer, Conservation
<1> QED BY <1>3, <1>4, <1>5 DEF IInv

\* So does an error, whatever the controller had taken before it.
LEMMA ErrorStep ==
  ASSUME IInv, NEW k \in 0..BufferSize, FlushError(k)
  PROVE  IInv'
<1>1. /\ k \in 0..preparedMessages /\ preparedMessages \in Nat /\ lost \in Nat
      /\ Len(accepted) \in Nat /\ Len(wire) \in Nat
      /\ lost' = lost + (preparedMessages - k)
      /\ preparedMessages' = 0 /\ canBuffer' = canBuffer /\ accepted' = accepted
  BY LenProperties DEF IInv, TypeOK, FlushError
<1>2. /\ wire' \in Seq(Nat) /\ Len(wire') = Len(wire) + k
      /\ \A i \in 1..Len(wire') : wire'[i] \in 1..(Len(accepted) - preparedMessages + k)
      /\ WireInOrder'
  BY <1>1, WireGrows DEF FlushError
<1>3. TypeOK'
  BY <1>1, <1>2 DEF IInv, TypeOK
<1>4. WireBeforeBuffer'
  BY <1>1, <1>2 DEF WireBeforeBuffer
<1>5. BufferIsTail'
  BY <1>1 DEF BufferIsTail
<1>6. Conservation'
  BY <1>1, <1>2 DEF IInv, Conservation
<1> QED BY <1>2, <1>3, <1>4, <1>5, <1>6 DEF IInv

\* So does a write, full or partial: what handlePartialWrite leaves in the
\* first slots is again the tail of what was accepted.
LEMMA WriteStep ==
  ASSUME IInv, NEW sent \in 0..BufferSize, FlushWrite(sent)
  PROVE  IInv'
<1>1. /\ sent \in 0..preparedMessages /\ preparedMessages \in 0..BufferSize
      /\ Len(accepted) \in Nat /\ Len(wire) \in Nat /\ lost \in Nat
      /\ lost' = lost
      /\ preparedMessages' = preparedMessages - sent /\ accepted' = accepted
  BY LenProperties DEF IInv, TypeOK, FlushWrite
<1>2. /\ wire' \in Seq(Nat) /\ Len(wire') = Len(wire) + sent
      /\ \A i \in 1..Len(wire') : wire'[i] \in 1..(Len(accepted) - preparedMessages + sent)
      /\ WireInOrder'
  BY <1>1, WireGrows DEF FlushWrite
<1>3. canBuffer' \in [Slots -> Nat]
  BY <1>1 DEF FlushWrite, HandlePartialWrite, Slots, IInv, TypeOK
<1>4. TypeOK'
  BY <1>1, <1>2, <1>3 DEF IInv, TypeOK
<1>5. BufferIsTail'
  <2> SUFFICES ASSUME NEW i \in 0..(preparedMessages' - 1)
               PROVE  canBuffer'[i] = Len(accepted') - preparedMessages' + 1 + i
    BY DEF BufferIsTail
  <2>1. /\ sent < preparedMessages /\ i \in Slots
        /\ i + sent \in 0..(preparedMessages - 1)
    BY <1>1 DEF Slots
  <2>2. canBuffer'[i] = canBuffer[i + sent]
    BY <1>1, <2>1 DEF FlushWrite, HandlePartialWrite
  <2>3. canBuffer[i + sent] = Len(accepted) - preparedMessages + 1 + (i + sent)
    BY <2>1 DEF IInv, BufferIsTail
  <2> QED BY <2>2, <2>3, <1>1, <2>1
<1>6. WireBeforeBuffer'
  BY <1>1, <1>2 DEF WireBeforeBuffer
<1>7. Conservation'
  BY <1>1, <1>2 DEF IInv, Conservation
<1> QED BY <1>2, <1>4, <1>5, <1>6, <1>7 DEF IInv

\* The inductive invariant of the queue.
THEOREM Inductive == Spec => []IInv
<1>1. IInv /\ [Next]_vars => IInv'
  <2> SUFFICES ASSUME IInv, [Next]_vars PROVE IInv'
    OBVIOUS
  <2>1. CASE UNCHANGED vars
    BY <2>1 DEF vars, IInv, TypeOK, BufferIsTail, WireInOrder, WireBeforeBuffer, Conservation
  <2>2. CASE Next
    BY <2>1, <2>2, PrepareStep, ErrorStep, WriteStep
       DEF Next, RefuseMessage, Flush, FlushNothing
  <2> QED BY <2>1, <2>2
<1> QED BY InitIInv, <1>1, PTL DEF Spec

\* For every buffer size, the count of prepared messages stays within the
\* buffer: prepareMessage never writes past its end, flush never reads past it.
THEOREM TypeCorrect == Spec => []TypeOK
  BY Inductive, PTL DEF IInv

\* For every buffer size and every mixture of full writes, partial writes and
\* errors, the bus sees the messages in the order they were prepared in, none
\* of them twice.
THEOREM Fifo == Spec => []WireInOrder
  BY Inductive, PTL DEF IInv

\* Only a bus error loses an accepted message.
THEOREM NothingElseIsLost == Spec => []Conservation
  BY Inductive, PTL DEF IInv
=============================================================================
