----------------------------- MODULE DextraHand -----------------------------
(***************************************************************************)
(* DextraRawControlboard and Synapse: the fingers of the Dextra hand. The   *)
(* board remembers the setpoints of all fingers, each move sends them all   *)
(* in one message and then remembers them; clients do this at once, each    *)
(* access to the memory alone is locked. A message goes in one piece over a *)
(* serial port and in pieces of eight bytes, a frame each, over CAN.        *)
(*                                                                         *)
(* The hand is external: it takes the setpoints of a message that is whole. *)
(***************************************************************************)
EXTENDS Integers, Sequences, SequencesExt

CONSTANTS Fingers,    \* 0..Synapse::DATA_POINTS - 1
          Movers,
          Links,      \* "serial", "can"
          JointLists, \* lists of joints
          Angles,
          Top,        \* bound: setpoints are in -Top..Top
          Pieces,     \* pieces of a message
          MaxPieces   \* bound: pieces on their way

\* Checked with HandTypeOK.
HandFits ==
  /\ Links \subseteq {"serial", "can"}
  /\ Top \in Nat /\ Angles \subseteq -Top..Top
  /\ Pieces \in Nat \ {0} /\ MaxPieces \in Nat

VARIABLES
  link,
  setpoints,  \* the memory of the board, which is what getEncoder tells
  move,       \* each client: its next step, the setpoints it sends, which fingers it
              \* remembers after that, the pieces it has sent, and whether no other client
              \* was there meanwhile (ghost)
  stream,     \* pieces on their way
  received,   \* pieces the hand has of a message
  hand,       \* the setpoints of the hand
  overlapped, \* ghost: moves of two clients overlapped since all of them were told at once
  told        \* ghost: encoders were set, or a message was cut off, since then

handGhosts == <<overlapped, told>>
handVars == <<link, setpoints, move, stream, received, hand, handGhosts>>

AllFingers == SetToSeq(Fingers)
Elements(list) == {list[i] : i \in DOMAIN list}
NoMove == [at |-> "idle", values |-> [f \in Fingers |-> 0], only |-> {}, sent |-> 0, alone |-> TRUE]

\* The memory is not written before the first call.
HandInit ==
  /\ link \in Links
  /\ setpoints \in [Fingers -> Angles] /\ hand = [f \in Fingers |-> 0]
  /\ move = [c \in Movers |-> NoMove] /\ stream = <<>> /\ received = <<>>
  /\ overlapped = FALSE /\ told = TRUE

Moving(c) == move[c].at # "idle"
BeginMove(c, values, only) ==
  /\ ~Moving(c)
  /\ \A f \in Fingers : values[f] \in -Top..Top
  /\ LET others == \E d \in Movers : Moving(d)
     IN  /\ move' = [d \in Movers |->
                       IF d = c THEN [at |-> "send", values |-> values, only |-> only, sent |-> 0, alone |-> ~others]
                       ELSE [move[d] EXCEPT !.alone = ~Moving(d)]]
         /\ overlapped' = (overlapped \/ others)
  /\ UNCHANGED <<link, setpoints, stream, received, hand, told>>

\* positionMove and relativeMove of one finger or of a list, setPosition: the others are
\* sent what the board remembers.
Moved(list, ref, relative) ==
  [f \in Fingers |->
     IF f \notin Elements(list) THEN setpoints[f]
     ELSE IF relative THEN setpoints[f] + ref * Len(SelectSeq(list, LAMBDA x : x = f))
     ELSE ref]
positionMove(c, f, ref) == BeginMove(c, Moved(<<f>>, ref, FALSE), {f})
relativeMove(c, f, delta) == BeginMove(c, Moved(<<f>>, delta, TRUE), {f})
positionMoveList(c, list, ref) == BeginMove(c, Moved(list, ref, FALSE), Fingers)
relativeMoveList(c, list, delta) == BeginMove(c, Moved(list, delta, TRUE), Fingers)
positionMoveAll(c, ref) == BeginMove(c, [f \in Fingers |-> ref], Fingers)
relativeMoveAll(c, delta) == BeginMove(c, Moved(AllFingers, delta, TRUE), Fingers)

\* A message, in pieces.
Piece(values, number) == [values |-> values, number |-> number]
Whole(values) == [i \in 1..Pieces |-> Piece(values, i)]

\* sendMessage over CAN: the pointer to the message stays where it is, so every frame
\* carries the first bytes.
SendFrame(c) ==
  /\ link = "can" /\ move[c].at = "send" /\ Len(stream) < MaxPieces
  /\ stream' = Append(stream, Piece(move[c].values, 1))
  /\ move' = [move EXCEPT ![c].sent = @ + 1, ![c].at = IF move[c].sent + 1 = Pieces THEN "store" ELSE "send"]
  /\ UNCHANGED <<link, setpoints, received, hand, handGhosts>>

SendSerial(c) ==
  /\ link = "serial" /\ move[c].at = "send" /\ Len(stream) + Pieces <= MaxPieces
  /\ stream' = stream \o Whole(move[c].values)
  /\ move' = [move EXCEPT ![c].at = "store"]
  /\ UNCHANGED <<link, setpoints, received, hand, handGhosts>>

\* The queue is full or the port fails: what was sent is sent.
FailMove(c) ==
  /\ move[c].at = "send"
  /\ move' = [move EXCEPT ![c] = NoMove]
  /\ told' = (told \/ move[c].sent > 0)
  /\ UNCHANGED <<link, setpoints, stream, received, hand, overlapped>>

\* All fingers told at once by a client alone: nothing of before matters.
Settles(c) == move[c].only = Fingers /\ move[c].alone

\* Mutation: one finger is moved, and the whole message is forgotten but for the first.
StoreFirst(c) ==
  /\ move[c].at = "store"
  /\ setpoints' = [setpoints EXCEPT ![0] = move[c].values[0]]
  /\ move' = [move EXCEPT ![c] = NoMove]
  /\ overlapped' = (overlapped /\ ~Settles(c)) /\ told' = (told /\ ~Settles(c))
  /\ UNCHANGED <<link, stream, received, hand>>
StoreMove(c) ==
  /\ move[c].at = "store"
  /\ setpoints' = [f \in Fingers |-> IF f \in move[c].only THEN move[c].values[f] ELSE setpoints[f]]
  /\ move' = [move EXCEPT ![c] = NoMove]
  /\ overlapped' = (overlapped /\ ~Settles(c)) /\ told' = (told /\ ~Settles(c))
  /\ UNCHANGED <<link, stream, received, hand>>

\* setEncoder, resetEncoder and those of all: the memory, and not the hand.
setEncoder(f, value) ==
  /\ setpoints' = [setpoints EXCEPT ![f] = value] /\ told' = TRUE
  /\ UNCHANGED <<link, move, stream, received, hand, overlapped>>
resetEncoders ==
  /\ setpoints' = [f \in Fingers |-> 0] /\ told' = TRUE
  /\ UNCHANGED <<link, move, stream, received, hand, overlapped>>

\* Encoders are what the board remembers (speeds and accelerations are refused).
getEncoders == setpoints

\* Calls that change nothing, whatever the fingers do. checkMotionDone says that the
\* finger is done, for several it leaves what the caller's flag happened to hold; to stop,
\* to set or to get a speed or an acceleration, to ask for the target and to set a mode is
\* refused.
checkMotionDone == UNCHANGED handVars
stop == UNCHANGED handVars
setRefSpeed == UNCHANGED handVars
setRefAcceleration == UNCHANGED handVars
getTargetPosition == UNCHANGED handVars
setControlMode == UNCHANGED handVars
Unmoved == checkMotionDone \/ stop \/ setRefSpeed \/ setRefAcceleration \/ getTargetPosition \/ setControlMode

\* The hand: a first piece begins a message, another one must follow its predecessor.
Receive ==
  /\ stream # <<>> /\ stream' = Tail(stream)
  /\ LET p == Head(stream)
         fits == received # <<>> /\ p = Piece(received[1].values, Len(received) + 1)
         now == IF p.number = 1 THEN <<p>> ELSE IF fits THEN Append(received, p) ELSE <<>>
     IN  IF Len(now) = Pieces THEN hand' = p.values /\ received' = <<>>
         ELSE received' = now /\ UNCHANGED hand
  /\ UNCHANGED <<link, setpoints, move, handGhosts>>

HandNext ==
  \/ Receive \/ resetEncoders \/ Unmoved
  \/ \E f \in Fingers, value \in Angles : setEncoder(f, value)
  \/ \E c \in Movers :
       \/ SendFrame(c) \/ SendSerial(c) \/ FailMove(c) \/ StoreMove(c)
       \/ \E ref \in Angles : \/ positionMoveAll(c, ref) \/ relativeMoveAll(c, ref)
                            \/ \E f \in Fingers : positionMove(c, f, ref) \/ relativeMove(c, f, ref)
                            \/ \E l \in JointLists : positionMoveList(c, l, ref) \/ relativeMoveList(c, l, ref)

HandSpec == HandInit /\ [][HandNext]_handVars

-----------------------------------------------------------------------------
(* Properties *)

HandTypeOK ==
  /\ HandFits
  /\ link \in Links /\ setpoints \in [Fingers -> -Top..Top] /\ hand \in [Fingers -> -Top..Top]
  /\ Len(stream) <= MaxPieces /\ overlapped \in BOOLEAN /\ told \in BOOLEAN
  /\ \A c \in Movers : move[c].at \in {"idle", "send", "store"}

\* Whatever was sent has arrived and was remembered.
Quiet == stream = <<>> /\ \A c \in Movers : ~Moving(c)

\* Over a serial port the board remembers what the hand does, once all fingers were told
\* at once and as long as clients wait for each other and nobody sets encoders.
MemoryIsHand == link = "serial" /\ Quiet /\ ~overlapped /\ ~told => getEncoders = hand
=============================================================================
