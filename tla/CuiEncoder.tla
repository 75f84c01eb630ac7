----------------------------- MODULE CuiEncoder -----------------------------
(***************************************************************************)
(* CuiAbsolute and its firmware: an absolute encoder behind a PIC, which    *)
(* tells its reading when polled (mode "pull") or all the time (mode        *)
(* "push"). Each request of the host is sent, awaited with a timeout and    *)
(* repeated a number of times; answers carry no number that would tell      *)
(* which request they belong to.                                            *)
(*                                                                         *)
(* The observers the requests wait at are those of ObserverSpec; a          *)
(* notification that comes between timeout and return only writes what the  *)
(* next success writes again, and is left out.                              *)
(***************************************************************************)
EXTENDS Integers, Sequences

CONSTANTS Clients,    \* callers of the controlboard interfaces
          Modes,      \* subset of {"push", "pull"}
          Readings,   \* where the shaft can be, in the degrees of the PIC
          MaxRetries,
          Timely,     \* a request times out only if its answer does not come any more
          MaxUnderWay   \* bound: frames under way in each direction

\* Checked with CuiTypeOK.
CuiFits ==
  /\ Modes \subseteq {"push", "pull"} /\ Readings \subseteq 0..360 /\ MaxRetries \in Nat \ {0} /\ MaxUnderWay \in Nat \ {0}
  /\ Timely \in BOOLEAN

VARIABLES
  mode, reverse,     \* the configuration of the device
  call,              \* each client: where its request is
  request,           \* the command of each client
  retry,             \* how often the request was sent; one counter for all clients
  storage,           \* what the observer was told for each client
  result,            \* what the last call of each client returned
  encoder,           \* the reading that was streamed last
  crashed,           \* the process of the host is gone
  toPic, toHost,     \* the wire
  pushFlag,          \* the PIC streams
  position,          \* of the shaft
  tainted,           \* a broken reading has left its mark in the buffers of the host
  seen               \* ghost: where the shaft has been during the last call of each client

host == <<call, request, retry, storage, result, encoder, crashed>>
pic == <<pushFlag, tainted>>
cuiVars == <<mode, reverse, host, toPic, toHost, pic, position, seen>>

PUSH_START == "PUSH_START"
PUSH_STOP == "PUSH_STOP"
POLL == "POLL"
None == 1000

normalize(v) ==
  LET w == IF reverse THEN -v ELSE v
  IN  IF w < -180 THEN w + 360 ELSE IF w > 180 THEN w - 360 ELSE w

CuiInit ==
  /\ mode \in Modes /\ reverse \in BOOLEAN
  /\ call = [c \in Clients |-> "idle"] /\ request = [c \in Clients |-> POLL]
  /\ retry = 0 /\ encoder = 0 /\ crashed = FALSE
  /\ storage = [c \in Clients |-> None] /\ result = [c \in Clients |-> None]
  /\ toPic = <<>> /\ toHost = <<>> /\ tainted = FALSE
  /\ pushFlag \in BOOLEAN \* as an earlier host has left it
  /\ position \in Readings /\ seen = [c \in Clients |-> {}]

-----------------------------------------------------------------------------
(* The host *)

HasWindow(c) == call[c] \in {"open", "woken"}

\* initialize, finalize and the getters, as far as they ask the PIC.
performRequest(c) ==
  /\ call[c] = "idle"
  /\ \E r \in IF mode = "push" THEN {PUSH_START, PUSH_STOP} ELSE {POLL} :
       request' = [request EXCEPT ![c] = r]
  /\ call' = [call EXCEPT ![c] = "send"] /\ retry' = 0
  /\ result' = [result EXCEPT ![c] = None] /\ seen' = [seen EXCEPT ![c] = {position}]
  /\ UNCHANGED <<mode, reverse, storage, encoder, crashed, toPic, toHost, pic, position>>

GiveUp(c) == call' = [call EXCEPT ![c] = "idle"]

Send(c) ==
  /\ call[c] = "send"
  /\ retry' = retry + 1
  /\ \/ retry < MaxRetries /\ Len(toPic) < MaxUnderWay
        /\ toPic' = Append(toPic, request[c]) /\ call' = [call EXCEPT ![c] = "turn"]
     \/ retry < MaxRetries /\ GiveUp(c) /\ UNCHANGED toPic \* the queue is full
     \/ retry >= MaxRetries /\ GiveUp(c) /\ UNCHANGED toPic
  /\ UNCHANGED <<mode, reverse, request, storage, result, encoder, crashed, toHost, pic, position, seen>>

\* await: callers take turns.
Await(c) ==
  /\ call[c] = "turn" /\ \A d \in Clients : ~HasWindow(d)
  /\ call' = [call EXCEPT ![c] = "open"]
  /\ UNCHANGED <<mode, reverse, request, retry, storage, result, encoder, crashed, toPic, toHost, pic, position, seen>>

NoAnswerAhead == toPic = <<>> /\ \A i \in DOMAIN toHost : toHost[i].op = "stream"
\* Mutation: each timeout begins to count anew.
ExpireAnew(c) ==
  /\ call[c] = "open" /\ (Timely => NoAnswerAhead)
  /\ call' = [call EXCEPT ![c] = "send"] /\ retry' = 0
  /\ UNCHANGED <<mode, reverse, request, storage, result, encoder, crashed, toPic, toHost, pic, position, seen>>
Expire(c) ==
  /\ call[c] = "open" /\ (Timely => NoAnswerAhead)
  /\ call' = [call EXCEPT ![c] = "send"]
  /\ UNCHANGED <<mode, reverse, request, retry, storage, result, encoder, crashed, toPic, toHost, pic, position, seen>>

\* What was awaited is normalized; start and stop await nothing, and normalize
\* follows their null pointer.
Return(c) ==
  /\ call[c] = "woken"
  /\ IF request[c] = POLL
     THEN /\ result' = [result EXCEPT ![c] = normalize(storage[c])]
          /\ call' = [call EXCEPT ![c] = "idle"] /\ UNCHANGED crashed
     ELSE crashed' = TRUE /\ UNCHANGED <<result, call>>
  /\ UNCHANGED <<mode, reverse, request, retry, storage, encoder, toPic, toHost, pic, position, seen>>

Notify(v) ==
  /\ call' = [c \in Clients |-> IF call[c] = "open" THEN "woken" ELSE call[c]]
  /\ storage' = [c \in Clients |-> IF HasWindow(c) THEN v ELSE storage[c]]

\* Whoever knows the broken reading by its fourth byte, does so in every frame.
notifyMessage ==
  /\ toHost # <<>> /\ toHost' = Tail(toHost)
  /\ LET m == Head(toHost)
     IN  /\ tainted' = (tainted \/ m.broken)
         /\ IF m.broken THEN UNCHANGED <<call, storage, encoder>>
            ELSE IF m.op = "stream" THEN encoder' = normalize(m.reading) /\ UNCHANGED <<call, storage>>
            ELSE Notify(m.reading) /\ UNCHANGED encoder
  /\ UNCHANGED <<mode, reverse, request, retry, result, crashed, toPic, pushFlag, position, seen>>

-----------------------------------------------------------------------------
(* The firmware *)

Frame(op, reading, broken) == [op |-> op, reading |-> reading, broken |-> broken]

\* An acknowledgement has no bytes; the host sees those of some frame before it.
sendAck == \E broken \in {FALSE} \cup {tainted} : toHost' = Append(toHost, Frame("ack", None, broken))
\* Mutation: the reading that was streamed last.
sendStreamed(op) == toHost' = Append(toHost, Frame(op, encoder, FALSE))
sendData(op) ==
  \E broken \in BOOLEAN : toHost' = Append(toHost, Frame(op, position, broken))

Receive ==
  /\ toPic # <<>> /\ Len(toHost) < MaxUnderWay
  /\ toPic' = Tail(toPic)
  /\ CASE Head(toPic) = PUSH_START -> pushFlag' = TRUE /\ sendAck
       [] Head(toPic) = PUSH_STOP -> pushFlag' = FALSE /\ sendAck
       [] OTHER -> sendData("poll") /\ UNCHANGED pushFlag
  /\ UNCHANGED <<mode, reverse, host, tainted, position, seen>>

\* It has one buffer, and pauses after each frame it streams.
Miss ==
  /\ toPic # <<>> /\ toPic' = Tail(toPic)
  /\ UNCHANGED <<mode, reverse, host, toHost, pic, position, seen>>

\* Nothing was received, or something for another node.
Stream ==
  /\ pushFlag /\ Len(toHost) < MaxUnderWay /\ sendData("stream")
  /\ UNCHANGED <<mode, reverse, host, toPic, pic, position, seen>>

\* External: somebody turns the shaft.
Turn ==
  /\ position' \in Readings
  /\ seen' = [c \in Clients |-> IF call[c] = "idle" THEN seen[c] ELSE seen[c] \cup {position'}]
  /\ UNCHANGED <<mode, reverse, host, toPic, toHost, pic>>

Request(c) == Send(c) \/ Await(c) \/ Expire(c) \/ Return(c)
\* Threads of the host that have something to do.
Running(c) == ~crashed /\ Request(c)
Notifying == ~crashed /\ notifyMessage

CuiNext ==
  \/ Notifying
  \/ \E c \in Clients : (~crashed /\ performRequest(c)) \/ Running(c)
  \/ Receive \/ Miss \/ Stream \/ Turn

CuiSpec == CuiInit /\ [][CuiNext]_cuiVars

\* Threads of the host run on, the firmware is a loop that takes what it has received.
CuiFairSpec ==
  /\ CuiSpec
  /\ \A c \in Clients : WF_cuiVars(Running(c))
  /\ WF_cuiVars(Notifying) /\ WF_cuiVars(Receive \/ Miss)

-----------------------------------------------------------------------------
(* Properties *)

CuiTypeOK ==
  /\ CuiFits
  /\ mode \in Modes /\ reverse \in BOOLEAN /\ crashed \in BOOLEAN /\ pushFlag \in BOOLEAN /\ tainted \in BOOLEAN
  /\ call \in [Clients -> {"idle", "send", "turn", "open", "woken"}]
  /\ encoder \in -180..180 /\ retry \in 0..MaxRetries + 1
  /\ result \in [Clients -> -180..180 \cup {None}]
  /\ Len(toPic) <= MaxUnderWay /\ Len(toHost) <= MaxUnderWay

\* A poll that succeeds tells where the shaft has been during the call, however often it
\* was repeated: no answer to an earlier call is taken for its own.
PollIsRecent ==
  \A c \in Clients : result[c] # None => \E p \in seen[c] : result[c] = normalize(p)

\* A request ends, whatever is lost.
RequestEnds == \A c \in Clients : call[c] # "idle" ~> (call[c] = "idle" \/ crashed)

\* "Succesfully processed": a request of the push mode that is acknowledged returns.
AcknowledgedReturns == ~crashed
=============================================================================
