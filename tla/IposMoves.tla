----------------------------- MODULE IposMoves -----------------------------
(***************************************************************************)
(* TechnosoftIpos in profile position mode: positionMove, relativeMove,     *)
(* stop and what the reader does about the statusword. A move puts its      *)
(* target into the dictionary of the drive (SDO) and raises bit 4 of the    *)
(* controlword (RPDO1); when the drive has taken it and shows that in bit   *)
(* 12, the reader clears bit 4 again. Halt, bit 8, is cleared by the reader *)
(* once the drive rests. Whoever changes a bit reads the stored word, sends *)
(* the changed one and stores it, with nothing around the three.            *)
(*                                                                         *)
(* States and modes of the drive are in DriveStatusMachine and IposNode,    *)
(* the transfer in SdoClient. The drive is external: it takes a setpoint    *)
(* when bit 4 rises and no halt is on; words and transfers reach it in the  *)
(* order in which they were queued.                                         *)
(***************************************************************************)
EXTENDS Integers, Sequences, SequencesExt

CONSTANTS Callers, Targets,
          MoveOrders, \* which of "absolute", "relative", "stop" are asked for
          Prompt,     \* the drive tells a change of its status at once (no inhibit time)
          Refusing,   \* the queue can be full
          MaxMoves,   \* bound: calls
          MaxFrames   \* bound: frames under way when the drive tells something unasked

\* Checked with MovesTypeOK.
MovesFit ==
  /\ MoveOrders \subseteq {"absolute", "relative", "stop"} /\ Prompt \in BOOLEAN /\ Refusing \in BOOLEAN
  /\ MaxMoves \in Nat /\ MaxFrames \in Nat \ {0}

VARIABLES
  controlword, \* bits 4, 6 and 8 of the stored controlword
  statusword,  \* bits 10 and 12 of the stored statusword
  mover,       \* each client: its next step, what it asks for, and the word it has computed
  reader,      \* the reader: its next step, the statusword it handles and the word it has computed
  toDrive, toHost,
  drive,       \* the object 607A, the last word, bits 10 and 12, whether it moves, what it told last
  begun,       \* calls made so far
  ordered,     \* ghost: the moves for which true was returned, in that order
  taken,       \* ghost: the setpoints the drive has taken, in that order
  stopped,     \* ghost: the last call that was not refused was a stop
  clashed,     \* ghost: reader and client changed the word at once
  halts,       \* ghost: a stop was asked for
  stuck        \* ghost: the reader could not send a word

movesGhosts == <<begun, ordered, taken, stopped, clashed, halts, stuck>>
movesVars == <<controlword, statusword, mover, reader, toDrive, toHost, drive, movesGhosts>>

SetPoint == 4
Relative == 6
Halt == 8
Reached == 10
Acknowledge == 12

NoMove == [at |-> "idle", order |-> "stop", ref |-> 0, word |-> {}]
Waiting == [at |-> "idle", status |-> {}, word |-> {}]
Word(w) == [kind |-> "word", word |-> w]
Sdo(c, ref) == [kind |-> "sdo", client |-> c, ref |-> ref]
Move(order, ref) == [order |-> order, ref |-> ref]
Resting == [object |-> 0, word |-> {}, status |-> {Reached}, moves |-> FALSE, told |-> {Reached}]

MovesInit ==
  /\ controlword = {} /\ statusword = {Reached}
  /\ mover = [c \in Callers |-> NoMove] /\ reader = Waiting
  /\ toDrive = <<>> /\ toHost = <<>> /\ drive = Resting
  /\ begun = 0 /\ ordered = <<>> /\ taken = <<>> /\ stopped = FALSE /\ clashed = FALSE /\ halts = FALSE /\ stuck = FALSE

-----------------------------------------------------------------------------
(* The calls *)

Goes(c, next) == mover' = [mover EXCEPT ![c] = next]

\* positionMove and relativeMove: nothing while there is a halt.
BeginMove(c, order, ref) ==
  /\ mover[c] = NoMove /\ begun < MaxMoves /\ order \in MoveOrders \ {"stop"} /\ Halt \notin controlword
  /\ begun' = begun + 1
  /\ toDrive' = Append(toDrive, Sdo(c, ref))
  /\ Goes(c, [at |-> "sdo", order |-> order, ref |-> ref, word |-> {}])
  /\ UNCHANGED <<controlword, statusword, reader, toHost, drive, ordered, taken, stopped, clashed, halts, stuck>>

BeginStop(c) ==
  /\ mover[c] = NoMove /\ begun < MaxMoves /\ "stop" \in MoveOrders
  /\ begun' = begun + 1
  /\ Goes(c, [NoMove EXCEPT !.at = "read"]) /\ halts' = TRUE
  /\ UNCHANGED <<controlword, statusword, reader, toDrive, toHost, drive, ordered, taken, stopped, clashed, stuck>>

\* checkMotionDone looks at the stored statusword and changes nothing.
CheckMotionDone(c) == mover[c] = NoMove /\ UNCHANGED movesVars

Changing(at) == at \in {"send", "keep", "reached send", "reached keep", "acknowledged send", "acknowledged keep"}

ChangedWord(order) ==
  CASE order = "absolute" -> (controlword \cup {SetPoint}) \ {Relative}
    [] order = "relative" -> controlword \cup {SetPoint, Relative}
    [] order = "stop" -> controlword \cup {Halt}

\* controlword(): the stored word, with the bits changed ...
ReadWord(c) ==
  /\ mover[c].at = "read"
  /\ Goes(c, [mover[c] EXCEPT !.at = "send", !.word = ChangedWord(mover[c].order)])
  /\ clashed' = (clashed \/ Changing(reader.at))
  /\ UNCHANGED <<controlword, statusword, reader, toDrive, toHost, drive, begun, ordered, taken, stopped, halts, stuck>>

\* ... controlword(word): sent, unless the queue is full ...
SendWord(c) ==
  /\ mover[c].at = "send"
  /\ \/ /\ toDrive' = Append(toDrive, Word(mover[c].word))
        /\ Goes(c, [mover[c] EXCEPT !.at = "keep"])
        /\ stopped' = (mover[c].order = "stop")
        /\ ordered' = IF mover[c].order = "stop" THEN ordered ELSE Append(ordered, Move(mover[c].order, mover[c].ref))
     \/ Refusing /\ Goes(c, NoMove) /\ UNCHANGED <<toDrive, ordered, stopped>>
  /\ UNCHANGED <<controlword, statusword, reader, toHost, drive, begun, taken, clashed, halts, stuck>>

\* ... and stored.
KeepWord(c) ==
  /\ mover[c].at = "keep"
  /\ controlword' = mover[c].word
  /\ Goes(c, NoMove)
  /\ UNCHANGED <<statusword, reader, toDrive, toHost, drive, movesGhosts>>

-----------------------------------------------------------------------------
(* The reader: handleTpdo1 and interpretStatusword, and replies to transfers *)

ReadStatus ==
  /\ reader.at = "idle" /\ toHost # <<>> /\ Head(toHost).kind = "status"
  /\ toHost' = Tail(toHost)
  /\ reader' = [Waiting EXCEPT !.at = "reached", !.status = Head(toHost).status]
  /\ UNCHANGED <<controlword, statusword, mover, toDrive, drive, movesGhosts>>

ReadReply ==
  /\ reader.at = "idle" /\ toHost # <<>> /\ Head(toHost).kind = "reply"
  /\ toHost' = Tail(toHost)
  /\ LET m == Head(toHost)
     IN  Goes(m.client, IF m.ok THEN [mover[m.client] EXCEPT !.at = "read"] ELSE NoMove)
  /\ UNCHANGED <<controlword, statusword, reader, toDrive, drive, movesGhosts>>

\* A drive that rests has no more need of a halt ...
Clashes == clashed' = (clashed \/ \E c \in Callers : Changing(mover[c].at))
Rests ==
  /\ reader.at = "reached"
  /\ IF Halt \in controlword /\ Reached \in reader.status THEN Clashes ELSE UNCHANGED clashed
  /\ reader' = IF Reached \in reader.status /\ Halt \in controlword
               THEN [reader EXCEPT !.at = "reached send", !.word = controlword \ {Halt}]
               ELSE [reader EXCEPT !.at = "acknowledged"]
  /\ UNCHANGED <<controlword, statusword, mover, toDrive, toHost, drive, begun, ordered, taken, stopped, halts, stuck>>

\* Mutation: a setpoint that is acknowledged stays.
LeavesSetPoint ==
  /\ reader.at = "acknowledged"
  /\ reader' = Waiting /\ statusword' = reader.status
  /\ UNCHANGED <<controlword, mover, toDrive, toHost, drive, movesGhosts>>

\* ... and a setpoint that was acknowledged is not a new one any more; at last, update.
Acknowledged ==
  /\ reader.at = "acknowledged"
  /\ IF Acknowledge \in reader.status
     THEN /\ reader' = [reader EXCEPT !.at = "acknowledged send", !.word = controlword \ {SetPoint}]
          /\ Clashes /\ UNCHANGED statusword
     ELSE reader' = Waiting /\ statusword' = reader.status /\ UNCHANGED clashed
  /\ UNCHANGED <<controlword, mover, toDrive, toHost, drive, begun, ordered, taken, stopped, halts, stuck>>

AfterSend == IF reader.at \in {"reached send", "reached keep"}
             THEN reader' = [reader EXCEPT !.at = "acknowledged"] /\ UNCHANGED statusword
             ELSE reader' = Waiting /\ statusword' = reader.status

ReaderSends ==
  /\ reader.at \in {"reached send", "acknowledged send"}
  /\ \/ /\ toDrive' = Append(toDrive, Word(reader.word))
        /\ reader' = [reader EXCEPT !.at = IF @ = "reached send" THEN "reached keep" ELSE "acknowledged keep"]
        /\ UNCHANGED <<statusword, stuck>>
     \/ Refusing /\ AfterSend /\ stuck' = TRUE /\ UNCHANGED toDrive
  /\ UNCHANGED <<controlword, mover, toHost, drive, begun, ordered, taken, stopped, clashed, halts>>

ReaderKeeps ==
  /\ reader.at \in {"reached keep", "acknowledged keep"}
  /\ controlword' = reader.word /\ AfterSend
  /\ UNCHANGED <<mover, toDrive, toHost, drive, movesGhosts>>

-----------------------------------------------------------------------------
(* The drive, external *)

Status(s) == [kind |-> "status", status |-> s]
Tells(d, more) ==
  IF Prompt /\ d.status # d.told
  THEN drive' = [d EXCEPT !.told = d.status] /\ toHost' = Append(toHost, Status(d.status)) \o more
  ELSE drive' = d /\ toHost' = toHost \o more

TakeSdo ==
  /\ toDrive # <<>> /\ Head(toDrive).kind = "sdo" /\ toDrive' = Tail(toDrive)
  /\ LET m == Head(toDrive)
     IN  \E ok \in BOOLEAN :
           Tells(IF ok THEN [drive EXCEPT !.object = m.ref] ELSE drive,
                 <<[kind |-> "reply", client |-> m.client, ok |-> ok]>>)
  /\ UNCHANGED <<controlword, statusword, mover, reader, movesGhosts>>

TakeWord ==
  /\ toDrive # <<>> /\ Head(toDrive).kind = "word" /\ toDrive' = Tail(toDrive)
  /\ LET w == Head(toDrive).word
         takes == SetPoint \in w /\ SetPoint \notin drive.word /\ Halt \notin w
         status == (IF takes THEN drive.status \ {Reached} ELSE drive.status) \ {Acknowledge}
     IN  /\ Tells([drive EXCEPT
                     !.word = w, !.moves = @ \/ takes,
                     !.status = status \cup (IF takes \/ (SetPoint \in w /\ Acknowledge \in drive.status)
                                             THEN {Acknowledge} ELSE {})], <<>>)
         /\ taken' = IF takes THEN Append(taken, Move(IF Relative \in w THEN "relative" ELSE "absolute", drive.object))
                     ELSE taken
  /\ UNCHANGED <<controlword, statusword, mover, reader, begun, ordered, stopped, clashed, halts, stuck>>

\* At its target, or braked by the halt.
Rest ==
  /\ drive.moves
  /\ Tells([drive EXCEPT !.moves = FALSE, !.status = @ \cup {Reached}], <<>>)
  /\ UNCHANGED <<controlword, statusword, mover, reader, toDrive, movesGhosts>>

\* The event timer of TPDO1, or a change that was held back or is of another bit.
Retell ==
  /\ Len(toHost) < MaxFrames /\ Len(toDrive) < MaxFrames + 1
  /\ drive' = [drive EXCEPT !.told = drive.status] /\ toHost' = Append(toHost, Status(drive.status))
  /\ UNCHANGED <<controlword, statusword, mover, reader, toDrive, movesGhosts>>

Client(c) == ReadWord(c) \/ SendWord(c) \/ KeepWord(c)
Reader == ReadStatus \/ ReadReply \/ Rests \/ Acknowledged \/ ReaderSends \/ ReaderKeeps
DriveTakes == TakeSdo \/ TakeWord
Drive == DriveTakes \/ Rest

MovesNext ==
  \/ \E c \in Callers :
       \/ BeginStop(c) \/ Client(c) \/ CheckMotionDone(c)
       \/ \E order \in MoveOrders, ref \in Targets : BeginMove(c, order, ref)
  \/ Reader \/ Drive \/ Retell

MovesSpec == MovesInit /\ [][MovesNext]_movesVars

\* Threads run on, the drive does what it was told, and its event timer is configured.
MovesFairSpec ==
  /\ MovesSpec /\ \A c \in Callers : WF_movesVars(Client(c))
  /\ WF_movesVars(Reader) /\ WF_movesVars(DriveTakes) /\ WF_movesVars(Rest) /\ WF_movesVars(Retell)

-----------------------------------------------------------------------------
(* Properties *)

MovesTypeOK ==
  /\ MovesFit
  /\ controlword \subseteq {SetPoint, Relative, Halt} /\ statusword \subseteq {Reached, Acknowledge}
  /\ drive.status \subseteq {Reached, Acknowledge} /\ drive.moves \in BOOLEAN
  /\ \A c \in Callers : mover[c].at \in {"idle", "sdo", "read", "send", "keep"}
  /\ Len(taken) <= MaxMoves /\ Len(ordered) <= MaxMoves /\ stuck \in BOOLEAN /\ stopped \in BOOLEAN

\* Everything that was sent has arrived, and everything told has been heard.
Quiet ==
  /\ toDrive = <<>> /\ toHost = <<>> /\ reader = Waiting /\ drive.told = drive.status
  /\ \A c \in Callers : mover[c] = NoMove

\* The drive takes every move for which true was returned, with its own target, once and
\* in order, however close moves follow each other (unless the reader could not send).
MovesAreTaken == Quiet /\ ~stuck /\ ~(clashed /\ halts) => taken = ordered

\* A halt does not stay: the next move is not refused for it.
Halted == Halt \in controlword
HaltEnds == Halted ~> (~Halted \/ stuck)

\* "stop with profile acceleration": after a stop for which true was returned, with no
\* move since, the joint rests or is being halted.
StopIsKept == Quiet /\ stopped /\ drive.moves => Halt \in drive.word
=============================================================================
