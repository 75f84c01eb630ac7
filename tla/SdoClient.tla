------------------------------ MODULE SdoClient ------------------------------
(***************************************************************************)
(* libraries/CanOpenNodeLib/SdoClient.cpp: uploads, downloads and pings of *)
(* threads that share one SDO client, over the frames to and from a        *)
(* conformant SDO server (CiA 301). A transfer sends a request and waits   *)
(* at the state observer for a reply; the initiate transfer is followed,   *)
(* for an object that does not fit, by one transfer per segment, with a    *)
(* toggle bit. No mutex spans the send and the wait, no abort is sent, and *)
(* nothing in a reply says which request it answers.                       *)
(*                                                                         *)
(* Command specifiers 2, 0, 3, 1 and 4 of the server are the kinds         *)
(* "readInit", "readSeg", "writeInit", "writeSeg" and "abort".             *)
(***************************************************************************)
EXTENDS Integers, Sequences

CONSTANTS Clients,    \* threads
          Expedited,  \* objects of at most four bytes
          Segmented,  \* longer ones
          Segments,   \* segments of one of those
          Values,     \* what a segment, or an object of four bytes, can hold
          Timely,     \* TRUE: no timeout elapses while a frame is under way
          Lossy,      \* TRUE: a request may be lost
          MaxFrames   \* bound: frames under way in each direction

\* Checked with SdoTypeOK.
SdoFits == /\ Segments \in Nat \ {0} /\ MaxFrames \in Nat
           /\ Expedited \cap Segmented = {} /\ "0000" \notin Expedited \cup Segmented

Objects == Expedited \cup Segmented
NoObject == "0000"  \* what ping reads
Size(o) == IF o \in Expedited THEN 1 ELSE Segments

\* What an object can hold; of one that fits into a frame only the first value counts.
Contents == [1..Segments -> Values]
Plain(v) == [i \in 1..Segments |-> v]

\* A frame of the SDO channel. by, a ghost: the thread whose present transfer
\* it belongs to, or "old".
Frame(kind, obj, toggle, data, last, by) ==
  [kind |-> kind, obj |-> obj, toggle |-> toggle, data |-> data, last |-> last, by |-> by]
NoFrame == Frame("none", NoObject, 0, 0, FALSE, "old")

VARIABLES
  place,    \* where each thread is: "idle", "send", "await", "check"
  op,       \* what it is doing: [kind, obj, val, phase, parts], val being what
            \* is to be sent, parts what has been received or sent so far
  call, answer, answered, living,  \* stateObserver: calls, their storages and results, alive
  toServer, toClient,  \* frames under way
  dict,     \* object dictionary of the server: one value per segment
  session   \* its state: [mode, obj, parts]

observer == <<call, answer, answered, living>>
server == <<dict, session>>
frames == <<toServer, toClient>>
sdoVars == <<place, op, observer, frames, server>>

Obs == INSTANCE ObserverSpec WITH
  storage <- answer, result <- answered, alive <- living, Waiters <- Clients, Payloads <- {}, NoPayload <- NoFrame

NoOp == [kind |-> "none", obj |-> NoObject, val |-> <<>>, phase |-> "init", parts |-> <<>>]
Idle == [mode |-> "idle", obj |-> NoObject, parts |-> <<>>]

SdoInit ==
  /\ place = [c \in Clients |-> "idle"]
  /\ op = [c \in Clients |-> NoOp]
  /\ Obs!Init
  /\ toServer = <<>> /\ toClient = <<>>
  /\ dict \in [Objects -> Contents] /\ \A o \in Expedited : dict[o] = Plain(dict[o][1])
  /\ session = Idle

-----------------------------------------------------------------------------
(* The operations. *)

Begin(c, kind, obj, val) ==
  /\ place[c] = "idle"
  /\ place' = [place EXCEPT ![c] = "send"]
  /\ op' = [op EXCEPT ![c] = [NoOp EXCEPT !.kind = kind, !.obj = obj, !.val = val]]
  /\ UNCHANGED <<observer, frames, server>>

Upload(c) == \E o \in Objects : Begin(c, "upload", o, <<>>)
Download(c) == \/ \E o \in Expedited, v \in Values : Begin(c, "download", o, Plain(v))
               \/ \E o \in Segmented, val \in Contents : Begin(c, "download", o, val)
Ping(c) == Begin(c, "ping", NoObject, <<>>)

\* The toggle bit of the segment in turn.
Toggle(c) == Len(op[c].parts) % 2

\* Mutation: the continuation bit is set one segment late.
RequestLastLate(c) ==
  LET o == op[c] IN
  IF o.phase = "init"
  THEN IF o.kind = "download" THEN Frame("writeInit", o.obj, 0, IF o.obj \in Expedited THEN o.val[1] ELSE 0,
                                       o.obj \in Expedited, c)
                              ELSE Frame("readInit", o.obj, 0, 0, FALSE, c)
  ELSE IF o.kind = "download" THEN Frame("writeSeg", NoObject, Toggle(c), o.val[Len(o.parts) + 1],
                                       Len(o.parts) = Segments, c)
                              ELSE Frame("readSeg", NoObject, Toggle(c), 0, FALSE, c)

Request(c) ==
  LET o == op[c] IN
  IF o.phase = "init"
  THEN IF o.kind = "download" THEN Frame("writeInit", o.obj, 0, IF o.obj \in Expedited THEN o.val[1] ELSE 0,
                                       o.obj \in Expedited, c)
                              ELSE Frame("readInit", o.obj, 0, 0, FALSE, c)
  ELSE IF o.kind = "download" THEN Frame("writeSeg", NoObject, Toggle(c), o.val[Len(o.parts) + 1],
                                       Len(o.parts) + 1 = Segments, c)
                              ELSE Frame("readSeg", NoObject, Toggle(c), 0, FALSE, c)

\* performTransfer sends the request and calls await.
Send(c) ==
  /\ place[c] = "send" /\ Len(toServer) < MaxFrames
  /\ toServer' = Append(toServer, Request(c))
  /\ Obs!Call(c)
  /\ place' = [place EXCEPT ![c] = "await"]
  /\ UNCHANGED <<op, toClient, server>>

SendFails(c) ==
  /\ place[c] = "send"
  /\ place' = [place EXCEPT ![c] = "idle"]
  /\ op' = [op EXCEPT ![c] = NoOp]
  /\ UNCHANGED <<observer, frames, server>>

OpenWindow(c) == Obs!OpenWindow(c) /\ UNCHANGED <<place, op, frames, server>>

\* Mutation: the wait has no timeout.
ExpireNever(c) == FALSE /\ UNCHANGED sdoVars
Expire(c) ==
  /\ Timely => toServer = <<>> /\ toClient = <<>>
  /\ Obs!Expire(c) /\ UNCHANGED <<place, op, frames, server>>

Return(c) ==
  /\ place[c] = "await" /\ Obs!Return(c)
  /\ place' = [place EXCEPT ![c] = "check"]
  /\ UNCHANGED <<op, frames, server>>

-----------------------------------------------------------------------------
(* What is made of the reply. *)

reply(c) == answer[c]

\* Frames of the transfer that ends belong to nobody from now on.
Aged(s, c) == [i \in 1..Len(s) |-> IF s[i].by = c THEN [s[i] EXCEPT !.by = "old"] ELSE s[i]]

\* The transfer is over; the thread goes on as the operation o, or is done.
Continue(c, o) ==
  /\ op' = [op EXCEPT ![c] = o]
  /\ place' = [place EXCEPT ![c] = IF o = NoOp THEN "idle" ELSE "send"]
  /\ answer' = [answer EXCEPT ![c] = NoFrame]
  /\ toServer' = Aged(toServer, c) /\ toClient' = Aged(toClient, c)
  /\ UNCHANGED <<call, answered, living, server>>

Answered(c, kind, phase) == /\ place[c] = "check" /\ answered[c]
                            /\ op[c].kind = kind /\ op[c].phase = phase

PingAnswered(c) == Answered(c, "ping", "init") /\ Continue(c, NoOp)

\* The command specifier, the index and the subindex are those expected.
UploadMatches(c) == reply(c).kind = "readInit" /\ reply(c).obj = op[c].obj

UploadInitiated(c) ==
  /\ Answered(c, "upload", "init") /\ UploadMatches(c)
  /\ Continue(c, IF reply(c).last THEN NoOp ELSE [op[c] EXCEPT !.phase = "segment"])

\* The command specifier and the toggle bit are those expected.
SegmentMatches(c, kind) == reply(c).kind = kind /\ reply(c).toggle = Toggle(c)

\* The continuation bit is the server's: with no more segments the data is
\* complete.
UploadSegment(c) ==
  /\ Answered(c, "upload", "segment") /\ SegmentMatches(c, "readSeg")
  /\ Continue(c, IF reply(c).last THEN NoOp ELSE [op[c] EXCEPT !.parts = Append(@, reply(c).data)])

DownloadMatches(c) == reply(c).kind = "writeInit" /\ reply(c).obj = op[c].obj

DownloadInitiated(c) ==
  /\ Answered(c, "download", "init") /\ DownloadMatches(c)
  /\ Continue(c, IF op[c].obj \in Expedited THEN NoOp ELSE [op[c] EXCEPT !.phase = "segment"])

DownloadSegment(c) ==
  /\ Answered(c, "download", "segment") /\ SegmentMatches(c, "writeSeg")
  /\ Continue(c, IF Len(op[c].parts) + 1 = Segments THEN NoOp
                 ELSE [op[c] EXCEPT !.parts = Append(@, op[c].val[Len(@) + 1])])

Accepts(c) ==
  \/ Answered(c, "ping", "init")
  \/ Answered(c, "upload", "init") /\ UploadMatches(c)
  \/ Answered(c, "upload", "segment") /\ SegmentMatches(c, "readSeg")
  \/ Answered(c, "download", "init") /\ DownloadMatches(c)
  \/ Answered(c, "download", "segment") /\ SegmentMatches(c, "writeSeg")

\* Timeout, abort, overrun or toggle mismatch: the operation fails.
TransferFails(c) == place[c] = "check" /\ ~Accepts(c) /\ Continue(c, NoOp)

-----------------------------------------------------------------------------
(* The frames: those under way are in order; a request can be lost with the *)
(* transmission queue (CanWriter), a reply when nobody waits for it.        *)

\* CanOpenNode::notifyMessage passes a reply to SdoClient::notify.
Notify ==
  /\ toClient # <<>>
  /\ toClient' = Tail(toClient)
  /\ \/ \E c \in Clients : Obs!Signal(c, Head(toClient))
     \/ (\A c \in Clients : ~Obs!HasWindow(c)) /\ UNCHANGED observer
  /\ UNCHANGED <<place, op, toServer, server>>

LoseRequest == /\ Lossy /\ toServer # <<>>
               /\ toServer' = Tail(toServer)
               /\ UNCHANGED <<place, op, observer, toClient, server>>

-----------------------------------------------------------------------------
(* The server, external. *)

Answer(kind, obj, toggle, data, last) ==
  /\ Len(toClient) < MaxFrames
  /\ toServer' = Tail(toServer)
  /\ toClient' = Append(toClient, Frame(kind, obj, toggle, data, last, Head(toServer).by))
  /\ UNCHANGED <<place, op, observer>>

Asked(kind) == toServer # <<>> /\ Head(toServer).kind = kind
InSession(mode) == session.mode = mode /\ Head(toServer).toggle = Len(session.parts) % 2

ServeReadInit ==
  /\ Asked("readInit") /\ Head(toServer).obj \in Objects
  /\ LET o == Head(toServer).obj IN
     /\ Answer("readInit", o, 0, IF o \in Expedited THEN dict[o][1] ELSE 0, o \in Expedited)
     /\ session' = IF o \in Expedited THEN Idle ELSE [mode |-> "reading", obj |-> o, parts |-> <<>>]
  /\ UNCHANGED dict

ServeReadSegment ==
  /\ Asked("readSeg") /\ InSession("reading")
  /\ LET v == dict[session.obj][Len(session.parts) + 1]
         last == Len(session.parts) + 1 = Segments IN
     /\ Answer("readSeg", session.obj, Head(toServer).toggle, v, last)
     /\ session' = IF last THEN Idle ELSE [session EXCEPT !.parts = Append(@, v)]
  /\ UNCHANGED dict

ServeWriteInit ==
  /\ Asked("writeInit")
  /\ LET o == Head(toServer).obj IN
     /\ Answer("writeInit", o, 0, 0, TRUE)
     /\ session' = IF o \in Expedited THEN Idle ELSE [mode |-> "writing", obj |-> o, parts |-> <<>>]
     /\ dict' = IF o \in Expedited THEN [dict EXCEPT ![o] = Plain(Head(toServer).data)] ELSE dict

ServeWriteSegment ==
  /\ Asked("writeSeg") /\ InSession("writing")
  /\ Len(session.parts) < Segments
  /\ LET parts == Append(session.parts, Head(toServer).data) IN
     /\ Answer("writeSeg", session.obj, Head(toServer).toggle, 0, TRUE)
     /\ session' = IF Head(toServer).last THEN Idle ELSE [session EXCEPT !.parts = parts]
     /\ dict' = IF Head(toServer).last /\ Len(parts) = Segments
                THEN [dict EXCEPT ![session.obj] = parts] ELSE dict

\* An unknown object, a segment out of order, or any request the server
\* cannot serve for now.
ServerAborts == /\ toServer # <<>>
                /\ Answer("abort", Head(toServer).obj, 0, 0, TRUE)
                /\ session' = Idle
                /\ UNCHANGED dict

-----------------------------------------------------------------------------
ServerStep == ServeReadInit \/ ServeReadSegment \/ ServeWriteInit \/ ServeWriteSegment \/ ServerAborts

ClientStep(c) ==
  \/ Send(c) \/ SendFails(c) \/ OpenWindow(c) \/ Expire(c) \/ Return(c)
  \/ PingAnswered(c) \/ UploadInitiated(c) \/ UploadSegment(c)
  \/ DownloadInitiated(c) \/ DownloadSegment(c) \/ TransferFails(c)

SdoNext == \/ \E c \in Clients : Upload(c) \/ Download(c) \/ Ping(c) \/ ClientStep(c)
          \/ Notify \/ LoseRequest \/ ServerStep

SdoSpec == SdoInit /\ [][SdoNext]_sdoVars

\* A thread in an operation goes on; frames need not be served or delivered.
SdoFairSpec == SdoSpec /\ \A c \in Clients : WF_sdoVars(ClientStep(c))

-----------------------------------------------------------------------------
(* Properties. *)

Data == Values \cup {0}
Names == Objects \cup {NoObject}
Transfers == [kind : {"none", "upload", "download", "ping"}, obj : Names, val : Contents \cup {<<>>},
              phase : {"init", "segment"}, parts : Seq(Data)]
SdoFrames == [kind : {"readInit", "readSeg", "writeInit", "writeSeg", "abort"}, obj : Names, toggle : 0..1,
              data : Data, last : BOOLEAN, by : Clients \cup {"old"}]
Sessions == [mode : {"idle", "reading", "writing"}, obj : Names, parts : Seq(Data)]

SdoTypeOK ==
  /\ SdoFits
  /\ place \in [Clients -> {"idle", "send", "await", "check"}]
  /\ op \in [Clients -> Transfers]
  /\ call \in [Clients -> {"out", "waiting", "open", "woken", "expired"}]
  /\ \A c \in Clients : place[c] = "await" <=> call[c] # "out"
  /\ answer \in [Clients -> SdoFrames \cup {NoFrame}] /\ answered \in [Clients -> BOOLEAN]
  /\ toServer \in Seq(SdoFrames) /\ Len(toServer) <= MaxFrames
  /\ toClient \in Seq(SdoFrames) /\ Len(toClient) <= MaxFrames
  /\ dict \in [Objects -> Contents]
  /\ session \in Sessions
  /\ session.mode # "idle" => session.obj \in Segmented
  /\ session.mode = "reading" => Len(session.parts) < Segments

\* A download that reports success has put its value into the dictionary, all
\* of it and each segment in its place, and what an upload has received is what
\* is there, from the first segment on and to the last when no more are to
\* come, whatever requests and replies were lost before.
LastTransfer(c) == op[c].obj \in Expedited \/ (op[c].phase = "segment" /\ Len(op[c].parts) + 1 = Segments)
Received(c) == Append(op[c].parts, reply(c).data)
SuccessTellsTheDictionary ==
  \A c \in Clients : Accepts(c) =>
    /\ op[c].kind = "download" /\ LastTransfer(c) => \A i \in 1..Size(op[c].obj) : dict[op[c].obj][i] = op[c].val[i]
    /\ op[c].kind = "upload" /\ (op[c].phase = "segment" \/ op[c].obj \in Expedited) =>
         /\ \A i \in 1..Len(Received(c)) : Received(c)[i] = dict[op[c].obj][i]
         /\ reply(c).last <=> Len(Received(c)) = Size(op[c].obj)

\* The data an upload of an expedited object returns is what that object has held,
\* even if replies to earlier operations that had timed out arrive late: in a
\* behaviour in which each object o holds values of held[o] only, one of these.
\* (Not so for a segmented object: only its first reply names it, and the toggle
\* bit of a late segment of another one may be the expected one.)
HoldsOnly(held) == \A o \in Expedited : dict[o][1] \in held[o]
ExpeditedWasHeld(held) ==
  \A c \in Clients : Accepts(c) /\ op[c].kind = "upload" /\ op[c].obj \in Expedited
    => reply(c).data \in held[op[c].obj]

\* An operation comes to its end, though any frame may be lost or late.
OperationEnds == \A c \in Clients : (place[c] # "idle") ~> (place[c] = "idle")

\* SdoClient.hpp:27, "SDO transfers block with timeout and always wait for the
\* response or confirm message from the drive": what ends a transfer well is
\* the reply to it. What the code does: any reply of the right shape ends it,
\* that of an earlier transfer that had timed out, too.
SuccessMeansOwnReply == \A c \in Clients : Accepts(c) => reply(c).by = c
=============================================================================
