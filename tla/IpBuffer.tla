------------------------------ MODULE IpBuffer ------------------------------
(***************************************************************************)
(* Interpolated position: the queue of setpoints of one drive              *)
(* (InterpolatedPositionBuffer.cpp), filled by a control thread            *)
(* (IPositionDirectRawImpl.cpp), moved in batches to the buffer of the     *)
(* drive by that thread when motion begins and by the reader thread when   *)
(* the drive runs low (TechnosoftIpos::interpretIpStatus).                 *)
(*                                                                         *)
(* Points are numbered in the order they are added; what they encode is    *)
(* left out.  The drive is external: it keeps records whose integrity      *)
(* counter is the expected one, moves while bit 4 of its controlword is    *)
(* set and bit 8 is not, and reports its status whenever that changes.     *)
(***************************************************************************)
EXTENDS Integers, Sequences, FiniteSetsExt

CONSTANTS Submodes,   \* [size, offset] of PtBuffer and PvtBuffer
          Low,        \* BUFFER_LOW
          Modulus,    \* records carry the counter modulo 128
          Counters,   \* where earlier motions have left the counter
          MaxPoints,  \* bound: setpoints of a behaviour
          MaxFrames,  \* bound: frames on their way to the drive, or from it
          Prompt      \* the records of a batch arrive within one period of the
                      \* drive, and setPositionRaw returns within it

\* Checked with TypeOK.
ConstantsFit ==
  /\ \A s \in Submodes : s.size \in Nat /\ s.offset \in {0, 1} /\ Low < s.size /\ s.size < Modulus
  /\ Low \in Nat /\ Modulus \in Nat \ {0} /\ Counters \subseteq 0..(2 * Modulus - 1)
  /\ Prompt \in BOOLEAN

VARIABLES sub,       \* the kind of buffer that was created
          queue,     \* pendingTargets
          counter,   \* integrityCounter, 8 bits where records carry 7
          filled, enabled, started,  \* ipBufferFilled, Enabled, ipMotionStarted
          cw,        \* bits 4 and 8 of the stored controlword
          ctl,       \* the control thread: [pc, batch, ok]
          refill,    \* what the reader thread has still to write
          toDrive, toHost,           \* frames, in order
          ip, buf, expect, err, word, \* the drive; ip: it is in this mode
          fresh,     \* history: records have arrived since it executed a point
          added, base, last,         \* history: points added, added before the
                                     \* mode was entered, executed last
          lost, underrun, overrun    \* history: since the mode was entered (underrun:
                                     \* a refill came when it had run empty)

hostVars == <<sub, queue, counter, filled, enabled, started, cw, ctl, refill, added, base>>
driveVars == <<ip, fresh, buf, expect, err, word, last, underrun, overrun>>
vars == <<hostVars, driveVars, toDrive, toHost, lost>>

Idle(mode) == [pc |-> mode, batch |-> <<>>, ok |-> TRUE]

Init ==
  /\ sub \in Submodes
  /\ queue = <<>> /\ counter \in Counters
  /\ filled = FALSE /\ enabled = FALSE /\ started = FALSE
  /\ cw = {} /\ ctl = Idle("left") /\ refill = <<>>
  /\ toDrive = <<>> /\ toHost = <<>>
  /\ ip = FALSE /\ fresh = FALSE /\ buf = <<>> /\ expect = 0 /\ err = FALSE /\ word = {}
  /\ added = 0 /\ base = 0 /\ last = 0
  /\ lost = FALSE /\ underrun = FALSE /\ overrun = FALSE

-----------------------------------------------------------------------------
(* InterpolatedPositionBuffer *)

isQueueReady == Len(queue) > sub.size + sub.offset

\* How many points popBatch takes: one is left for the velocity of the last of
\* the others (PVT), unless it is the only one.
BatchLength(full) ==
  LET pending == Max({Len(queue) - sub.offset, sub.offset})
  IN  Min({IF full THEN sub.size ELSE sub.size - Low, pending})

Record(point, c) == [t |-> "record", point |-> point, ic |-> c % Modulus]

\* popBatch: the records of the first points, numbered by the counter.
popBatch(full) ==
  [k \in 1..BatchLength(full) |-> Record(queue[k], counter + k - 1)]

\* ... and what it leaves behind.
Popped(full) ==
  /\ queue' = SubSeq(queue, BatchLength(full) + 1, Len(queue))
  /\ counter' = (counter + BatchLength(full)) % (2 * Modulus)

\* Mutation: the drive is told to begin with 0.
getBufferConfigFromZero == [t |-> "config", ic |-> 0]
\* getBufferConfig (object 2074h) clears the buffer of the drive and tells it
\* the counter to expect.
getBufferConfig == [t |-> "config", ic |-> counter % Modulus]

\* The queue of the bus takes a frame, or refuses it (prepareMessage).
Accept(frame) == Len(toDrive) < MaxFrames /\ toDrive' = Append(toDrive, frame) /\ UNCHANGED lost
Refuse == (lost => Len(toDrive) = MaxFrames) /\ lost' = TRUE /\ UNCHANGED toDrive

-----------------------------------------------------------------------------
(* The control thread *)

\* setPositionRaw: a point for the queue, and whether a motion is to begin.
SetPosition ==
  /\ ctl.pc = "direct" /\ added < MaxPoints
  /\ added' = added + 1
  /\ queue' = Append(queue, added')
  /\ ctl' = [ctl EXCEPT !.pc = "test"]
  /\ UNCHANGED <<driveVars, toDrive, toHost, lost, sub, counter, filled, enabled, started, cw, refill, base>>

\* Mutation: that a batch was sent already is forgotten.
MayFillAgain == enabled /\ ~started /\ isQueueReady
MayFill == enabled /\ ~filled /\ ~started /\ isQueueReady

DontFill ==
  /\ ctl.pc = "test" /\ ~MayFill
  /\ ctl' = Idle("direct")
  /\ UNCHANGED <<driveVars, toDrive, toHost, lost, sub, queue, counter, filled, enabled, started, cw, refill, added, base>>

Fill ==
  /\ ctl.pc = "test" /\ MayFill
  /\ ctl' = [pc |-> "fill", batch |-> popBatch(TRUE), ok |-> TRUE]
  /\ Popped(TRUE)
  /\ UNCHANGED <<driveVars, toDrive, toHost, lost, sub, filled, enabled, started, cw, refill, added, base>>

FillWrite ==
  /\ ctl.pc = "fill" /\ ctl.batch # <<>>
  /\ \/ Accept(Head(ctl.batch)) /\ ctl' = [ctl EXCEPT !.batch = Tail(@)]
     \/ Refuse /\ ctl' = [ctl EXCEPT !.batch = Tail(@), !.ok = FALSE]
  /\ UNCHANGED <<driveVars, toHost, sub, queue, counter, filled, enabled, started, cw, refill, added, base>>

FillDone ==
  /\ ctl.pc = "fill" /\ ctl.batch = <<>>
  /\ filled' = ctl.ok
  /\ ctl' = Idle("direct")
  /\ UNCHANGED <<driveVars, toDrive, toHost, lost, sub, queue, counter, enabled, started, cw, refill, added, base>>

\* setControlModeRaw begins: mode bits and halt are reset.
ResetWord ==
  /\ ctl.pc \in {"direct", "left"}
  /\ Accept([t |-> "word", bits |-> {}]) /\ cw' = {}
  /\ ctl' = Idle(IF ctl.pc = "direct" THEN "leaving" ELSE "flags")
  /\ UNCHANGED <<driveVars, toHost, sub, queue, counter, filled, enabled, started, refill, added, base>>

\* To another mode: downloads, each of which waits for its reply.
AskOtherMode ==
  /\ ctl.pc = "leaving"
  /\ Accept([t |-> "mode"])
  /\ ctl' = Idle("other")
  /\ UNCHANGED <<driveVars, toHost, sub, queue, counter, filled, enabled, started, cw, refill, added, base>>

\* To this mode: flags and queue, then the downloads, of which the configuration
\* of the buffer is the one that matters here.
EnterMode ==
  /\ ctl.pc = "flags"
  /\ filled' = FALSE /\ started' = FALSE /\ enabled' = TRUE
  /\ queue' = <<>> /\ base' = added
  /\ Accept(getBufferConfig)
  /\ ctl' = Idle("entering")
  /\ UNCHANGED <<driveVars, toHost, sub, counter, cw, refill, added>>

-----------------------------------------------------------------------------
(* The reader thread: interpretIpStatus *)

Receive(type) ==
  refill = <<>> /\ toHost # <<>> /\ Head(toHost).t = type /\ toHost' = Tail(toHost)

WriteWord(bits, done) ==
  \/ Accept([t |-> "word", bits |-> bits]) /\ cw' = bits /\ done' = TRUE
  \/ Refuse /\ UNCHANGED cw /\ done' = FALSE

BufferError(s) ==
  /\ s.error /\ enabled
  /\ enabled' = FALSE
  /\ \/ Accept([t |-> "word", bits |-> cw \union {8}]) /\ cw' = cw \union {8}
     \/ Refuse /\ UNCHANGED cw
  /\ UNCHANGED <<queue, counter, filled, started, refill>>

\* Mutation: motion begins with the first records.
StartsMotionEarly(s) == ~s.empty /\ ~started
StartsMotion(s) == s.full /\ ~started

BufferFull(s) ==
  /\ ~s.error /\ enabled /\ StartsMotion(s)
  /\ WriteWord(cw \union {4}, started)
  /\ UNCHANGED <<queue, counter, filled, enabled, refill>>

BufferLow(s) ==
  /\ ~s.error /\ enabled /\ started
  /\ s.low /\ ~s.empty /\ queue # <<>>
  /\ refill' = popBatch(FALSE) /\ Popped(FALSE)
  /\ UNCHANGED <<filled, enabled, started, cw, toDrive, lost>>

BufferEmpty(s) ==
  /\ ~s.error /\ enabled /\ started /\ s.empty
  /\ \/ Accept([t |-> "word", bits |-> cw \ {4}]) /\ cw' = cw \ {4} /\ started' = FALSE
     \/ Refuse /\ UNCHANGED <<cw, started>>
  /\ filled' = FALSE
  /\ UNCHANGED <<queue, counter, enabled, refill>>

NothingToDo(s) ==
  /\ \/ ~enabled
     \/ /\ ~s.error /\ ~StartsMotion(s)
        /\ ~(started /\ s.low /\ ~s.empty /\ queue # <<>>)
        /\ ~(started /\ s.empty)
  /\ UNCHANGED <<queue, counter, filled, enabled, started, cw, refill, toDrive, lost>>

interpretIpStatus ==
  /\ Receive("status")
  /\ LET s == Head(toHost)
     IN  \/ BufferError(s) \/ BufferFull(s) \/ BufferLow(s)
         \/ BufferEmpty(s) \/ NothingToDo(s)
  /\ UNCHANGED <<driveVars, sub, ctl, added, base>>

RefillWrite ==
  /\ refill # <<>> /\ refill' = Tail(refill)
  /\ Accept(Head(refill)) \/ Refuse
  /\ UNCHANGED <<driveVars, toHost, sub, queue, counter, filled, enabled, started, cw, ctl, added, base>>

\* The reply to the last download of a change of mode, and the new mode.
ModeChanged ==
  /\ Receive("done")
  /\ ctl' = Idle(IF ctl.pc = "entering" THEN "direct" ELSE "left")
  /\ UNCHANGED <<driveVars, toDrive, lost, sub, queue, counter, filled, enabled, started, cw, refill, added, base>>

\* The writer thread drops what it could not send (CanWriter!FlushError).
DropFrames ==
  /\ ~lost /\ toDrive # <<>> /\ \A k \in DOMAIN toDrive : toDrive[k].t \in {"record", "word"}
  /\ toDrive' = <<>> /\ lost' = TRUE
  /\ UNCHANGED <<hostVars, driveVars, toHost>>

-----------------------------------------------------------------------------
(* The drive *)

Status(b, e) == [t |-> "status", full |-> Len(b) = sub.size, low |-> Len(b) <= Low,
                 empty |-> b = <<>>, error |-> e]

Becomes(b, e) ==
  /\ buf' = b /\ err' = e
  /\ IF Status(b, e) = Status(buf, err) THEN UNCHANGED toHost
     ELSE Len(toHost) < MaxFrames /\ toHost' = Append(toHost, Status(b, e))

\* RPDO3 is mapped to the buffer in this mode only.
TakeRecord(f) ==
  /\ f.t = "record" /\ fresh' = TRUE
  /\ \/ ~ip /\ UNCHANGED <<buf, err, expect, overrun, toHost>>
     \/ /\ ip /\ Len(buf) = sub.size
        /\ overrun' = TRUE /\ UNCHANGED <<buf, err, expect, toHost>>
     \/ /\ ip /\ Len(buf) < sub.size /\ f.ic = expect
        /\ Becomes(Append(buf, f.point), err)
        /\ expect' = (expect + 1) % Modulus /\ UNCHANGED overrun
     \/ /\ ip /\ Len(buf) < sub.size /\ f.ic # expect
        /\ Becomes(buf, TRUE) /\ UNCHANGED <<expect, overrun>>
  /\ underrun' = (underrun \/ (ip /\ 4 \in word /\ buf = <<>>))
  /\ UNCHANGED <<ip, word, last, lost>>

TakeWord(f) ==
  /\ f.t = "word" /\ word' = f.bits
  /\ UNCHANGED <<ip, fresh, buf, expect, err, last, underrun, overrun, toHost, lost>>

TakeConfig(f) ==
  /\ f.t = "config"
  /\ ip' = TRUE /\ fresh' = FALSE /\ buf' = <<>> /\ err' = FALSE /\ expect' = f.ic
  /\ toHost' = Append(toHost, [t |-> "done"])
  /\ lost' = FALSE /\ underrun' = FALSE /\ overrun' = FALSE
  /\ UNCHANGED <<word, last>>

TakeMode(f) ==
  /\ f.t = "mode" /\ ip' = FALSE
  /\ toHost' = Append(toHost, [t |-> "done"])
  /\ UNCHANGED <<fresh, buf, expect, err, word, last, underrun, overrun, lost>>

DriveTakes ==
  /\ toDrive # <<>> /\ toDrive' = Tail(toDrive)
  /\ LET f == Head(toDrive)
     IN  TakeRecord(f) \/ TakeWord(f) \/ TakeConfig(f) \/ TakeMode(f)
  /\ UNCHANGED hostVars

UnderWay == {k \in DOMAIN toDrive : toDrive[k].t = "record"}

Execute ==
  /\ ip /\ 4 \in word /\ 8 \notin word /\ buf # <<>>
  /\ Prompt => ~(fresh /\ (UnderWay # {} \/ refill # <<>> \/ ctl.pc = "fill"))
  /\ fresh' = FALSE
  /\ last' = Head(buf)
  /\ Becomes(Tail(buf), err)
  /\ UNCHANGED <<hostVars, toDrive, lost, ip, expect, word, underrun, overrun>>

-----------------------------------------------------------------------------
Next ==
  \/ SetPosition \/ DontFill \/ Fill \/ FillWrite \/ FillDone \/ ResetWord \/ AskOtherMode \/ EnterMode
  \/ interpretIpStatus \/ RefillWrite \/ ModeChanged \/ DropFrames
  \/ DriveTakes \/ Execute

Spec == Init /\ [][Next]_vars

\* Threads run, frames arrive, and a drive in motion moves; nobody has to add
\* points or to change modes.
ControlStep == DontFill \/ Fill \/ FillWrite \/ FillDone \/ AskOtherMode \/ EnterMode
ReaderStep == interpretIpStatus \/ RefillWrite \/ ModeChanged

Fairness ==
  /\ WF_vars(ControlStep) /\ WF_vars(ReaderStep)
  /\ WF_vars(DriveTakes) /\ WF_vars(Execute)

FairSpec == Spec /\ Fairness
-----------------------------------------------------------------------------
(* Properties *)

\* The state of host and drive is well formed; the drive holds no more than its
\* buffer does and no batch is longer than that.
TypeOK ==
  /\ ConstantsFit /\ sub \in Submodes
  /\ queue \in Seq(1..MaxPoints) /\ added \in 0..MaxPoints /\ base \in 0..added
  /\ counter \in 0..(2 * Modulus - 1) /\ expect \in 0..(Modulus - 1)
  /\ {filled, enabled, started, fresh, ip, err, lost, underrun, overrun} \subseteq BOOLEAN
  /\ cw \subseteq {4, 8} /\ word \subseteq {4, 8}
  /\ ctl.pc \in {"left", "flags", "entering", "direct", "test", "fill", "leaving", "other"}
  /\ Len(ctl.batch) <= sub.size /\ Len(refill) <= sub.size - Low
  /\ buf \in Seq(1..MaxPoints) /\ Len(buf) <= sub.size /\ last \in 0..MaxPoints

\* The points since the mode was entered, from the one executed last to the one
\* added last, wherever they are.
Points(records) ==
  LET rs == SelectSeq(records, LAMBDA f : f.t = "record")
  IN  [k \in DOMAIN rs |-> rs[k].point]

Pipeline ==
  SelectSeq(<<last>> \o buf \o Points(toDrive) \o Points(refill) \o Points(ctl.batch) \o queue,
            LAMBDA p : p > base)

\* Unless a frame was refused or dropped or a refill came too late,
\* points are neither skipped, repeated nor reordered on their way from
\* setPositionRaw to the motor, although two threads send them: the flags keep
\* the thread that fills the drive and the one that refills it apart
\* (IPositionDirectRawImpl.cpp:19-34, TechnosoftIpos.cpp:409-422).
PointsInOrder ==
  ip /\ ~lost /\ ~underrun =>
     \A k \in DOMAIN Pipeline : Pipeline[k] = added - Len(Pipeline) + k

\* Whatever is lost, refused, reordered or runs over, the motor goes from each
\* point to the one added after it: the counter in the records tells the drive of
\* every gap (InterpolatedPositionBuffer.cpp:97-107).
NoGapExecuted ==
  LET points == SelectSeq(<<last>> \o buf, LAMBDA p : p > base)
  IN  ip => \A k \in 1..(Len(points) - 1) : points[k + 1] = points[k] + 1

\* A refill, a motion that begins and a mode that is entered again respect the
\* size of the buffer in the drive (TechnosoftIpos.cpp:415), and the counters of
\* host and drive agree over every wrap and every time the mode is entered
\* (InterpolatedPositionBuffer.cpp:50-56, 106): the buffer runs over, and the
\* drive complains, only after frames were lost or a refill came too late.
TroubleOnlyAfterLoss == overrun \/ err => lost \/ underrun

InMode == ip /\ ctl.pc \in {"direct", "test", "fill"}

\* While the mode lasts, a drive that is set in motion has as many points as it can hold: no flag
\* left over from an earlier motion starts it (TechnosoftIpos.cpp:409-413).
StartsFull ==
  [][InMode /\ 4 \notin word /\ 4 \in word' => Len(buf) = sub.size \/ underrun \/ lost]_vars

\* Once the batch that fills the drive is written motion starts, unless frames
\* were lost, the drive complained, or the mode is left: the "full" report of the
\* drive is never missed (IPositionDirectRawImpl.cpp:34, TechnosoftIpos.cpp:409).
Awaited == filled /\ ~started
Started == started \/ ~filled \/ ~enabled \/ lost \/ ~InMode
FilledStarts == Awaited ~> Started
=============================================================================
