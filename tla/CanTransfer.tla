---------------------------- MODULE CanTransfer ----------------------------
(***************************************************************************)
(* canRead and canWrite of the CAN drivers. CanBusHico moves frames one by  *)
(* one, CanBusPeak in one list. A mutex keeps calls apart, also while one   *)
(* of them waits: boards open drivers without blocking, and let the other   *)
(* thread run between two calls.                                            *)
(*                                                                         *)
(* External is the interface: frames that arrive, room for frames to send,  *)
(* and that each of its calls may fail.                                     *)
(***************************************************************************)
EXTENDS Integers

CONSTANTS Confs,     \* how a driver is opened: driver, blocking, timed
          Size,      \* frames in one call
          MaxFrames, \* bound: frames in the interface, on each side
          MaxErrors  \* bound: errors

\* Checked with TransferTypeOK.
ConstantsFit == Size \in Nat \ {0} /\ MaxFrames \in Nat /\ MaxErrors \in Nat

VARIABLES
  conf,
  canBusReady, \* who holds the mutex
  at,          \* each thread: "away" (delay), "called", "wait" (select), "move" (read, write)
  moved,       \* *read, *sent
  given,       \* ghost: frames that each thread's last call has returned
  gone,        \* ghost: frames that left or entered the interface since that call began
  received, room, errors

transferVars == <<conf, canBusReady, at, moved, given, gone, received, room, errors>>

Threads == {"reader", "writer"}
Available(t) == IF t = "reader" THEN received ELSE room
Least(a, b) == IF a < b THEN a ELSE b

TransferInit ==
  /\ conf \in Confs /\ canBusReady = "none"
  /\ at = [t \in Threads |-> "away"] /\ moved = [t \in Threads |-> 0]
  /\ given = [t \in Threads |-> 0] /\ gone = [t \in Threads |-> 0]
  /\ received = 0 /\ room = MaxFrames /\ errors = 0

Go(t, where) == at' = [at EXCEPT ![t] = where]
\* What a call waits for before it moves frames.
Entry == IF conf.blocking /\ conf.timed THEN "wait" ELSE "move"

\* The delay of the thread is over.
Call(t) ==
  /\ at[t] = "away" /\ Go(t, "called")
  /\ UNCHANGED <<conf, canBusReady, moved, given, gone, received, room, errors>>

\* *read = 0 or *sent = 0, and the mutex.
Lock(t) ==
  /\ at[t] = "called" /\ canBusReady = "none"
  /\ canBusReady' = t /\ Go(t, Entry)
  /\ moved' = [moved EXCEPT ![t] = 0] /\ gone' = [gone EXCEPT ![t] = 0]
  /\ UNCHANGED <<conf, given, received, room, errors>>

\* The call returns true with n frames.
ReturnsWith(t, n) ==
  /\ Go(t, "away") /\ canBusReady' = "none"
  /\ moved' = [moved EXCEPT ![t] = n] /\ given' = [given EXCEPT ![t] = n]

\* waitUntilTimeout: the interface is ready, or it is not in time.
Ready(t) ==
  /\ at[t] = "wait" /\ Available(t) > 0 /\ Go(t, "move")
  /\ UNCHANGED <<conf, canBusReady, moved, given, gone, received, room, errors>>
Timeout(t) ==
  /\ at[t] = "wait" /\ ReturnsWith(t, moved[t])
  /\ UNCHANGED <<conf, gone, received, room, errors>>

Takes(t, n) ==
  /\ IF t = "reader" THEN received' = received - n /\ UNCHANGED room
     ELSE room' = room - n /\ UNCHANGED received
  /\ gone' = [gone EXCEPT ![t] = @ + n]

\* CanBusHico: one frame, and once more. Mutation: it is not counted.
MoveOneUncounted(t) ==
  /\ conf.driver = "hico" /\ at[t] = "move" /\ Available(t) > 0 /\ Takes(t, 1)
  /\ IF gone[t] + 1 < Size
     THEN Go(t, Entry) /\ moved' = [moved EXCEPT ![t] = gone[t]] /\ UNCHANGED <<canBusReady, given>>
     ELSE ReturnsWith(t, gone[t])
  /\ UNCHANGED <<conf, errors>>
MoveOne(t) ==
  /\ conf.driver = "hico" /\ at[t] = "move" /\ Available(t) > 0 /\ Takes(t, 1)
  /\ IF moved[t] + 1 < Size
     THEN Go(t, Entry) /\ moved' = [moved EXCEPT ![t] = @ + 1] /\ UNCHANGED <<canBusReady, given>>
     ELSE ReturnsWith(t, moved[t] + 1)
  /\ UNCHANGED <<conf, errors>>

\* CanBusPeak: as many as there are.
MoveList(t) ==
  /\ conf.driver = "peak" /\ at[t] = "move" /\ Available(t) > 0
  /\ LET n == Least(Available(t), Size) IN Takes(t, n) /\ ReturnsWith(t, n)
  /\ UNCHANGED <<conf, errors>>

\* EAGAIN, EWOULDBLOCK. A call that blocks waits for a frame, with the mutex.
MoveNone(t) ==
  /\ at[t] = "move" /\ Available(t) = 0 /\ ~conf.blocking
  /\ ReturnsWith(t, moved[t])
  /\ UNCHANGED <<conf, gone, received, room, errors>>

\* The call returns false, whatever it has moved before.
Error(t) ==
  /\ at[t] \in {"wait", "move"} /\ errors < MaxErrors
  /\ errors' = errors + 1
  /\ Go(t, "away") /\ canBusReady' = "none"
  /\ given' = [given EXCEPT ![t] = 0] /\ gone' = [gone EXCEPT ![t] = 0]
  /\ UNCHANGED <<conf, moved, received, room>>

\* The bus. An interface whose buffer is full drops what arrives.
Arrive == received < MaxFrames /\ received' = received + 1 /\ UNCHANGED <<conf, canBusReady, at, moved, given, gone, room, errors>>
Leave == room < MaxFrames /\ room' = room + 1 /\ UNCHANGED <<conf, canBusReady, at, moved, given, gone, received, errors>>

Within(t) == Ready(t) \/ Timeout(t) \/ MoveOne(t) \/ MoveList(t) \/ MoveNone(t) \/ Error(t)

TransferNext == Arrive \/ Leave \/ \E t \in Threads : Call(t) \/ Lock(t) \/ Within(t)

\* A call that has the mutex goes on. The mutex knows no order, but the other thread
\* sleeps between two calls, so who waits for it finds it free again and again.
TransferSpec ==
  /\ TransferInit /\ [][TransferNext]_transferVars
  /\ \A t \in Threads : WF_transferVars(Within(t)) /\ SF_transferVars(Lock(t))

-----------------------------------------------------------------------------
(* Properties *)

TransferTypeOK ==
  /\ ConstantsFit
  /\ canBusReady \in Threads \cup {"none"} /\ received \in 0..MaxFrames /\ room \in 0..MaxFrames
  /\ \A t \in Threads : /\ at[t] \in {"away", "called", "wait", "move"}
                        /\ at[t] \in {"wait", "move"} <=> canBusReady = t
                        /\ moved[t] \in 0..Size /\ given[t] \in 0..Size

\* A call that returns true tells of every frame it took from the interface or left there.
EveryFrameCounts == \A t \in Threads : at[t] = "away" => given[t] = gone[t]

\* No thread is kept out by the other, which may find nothing to read, or no room, for
\* ever: not without blocking, and not with timeouts.
InTurn(t) == at[t] = "called" /\ (~conf.blocking \/ conf.timed)
BothGetTheirTurn == \A t \in Threads : InTurn(t) ~> at[t] = "away"
=============================================================================
