------------------------------ MODULE SdoReplier ------------------------------
(***************************************************************************)
(* SdoReplier: SDO transfers asked for over the network. Each request has a *)
(* client of its own, made for the node it names and kept in one pointer,   *)
(* which the thread that reads the CAN bus follows too; a guard deletes the *)
(* client and writes the reply when the request is over. Each connection of *)
(* the port has a thread, and nothing keeps two requests, or a request and  *)
(* the reader, apart.                                                       *)
(*                                                                         *)
(* The transfer itself is in SdoClient: here it ends well when the reader   *)
(* hands the client a frame, and badly by timeout. To follow a null pointer *)
(* or one to a client that is gone ends the program.                       *)
(***************************************************************************)
EXTENDS Integers, FiniteSets

CONSTANTS Connections, Nodes,
          MaxRequests,  \* bound: requests, of all connections
          MaxFrames     \* bound: frames the nodes send, of all of them

VARIABLES
  sdoClient,  \* the pointer: 0 or the number of a client
  clients,    \* the clients that exist, each with its node
  request,    \* the request of each connection
  reader,     \* the reader thread: its frame, and whether it has passed the check
  made, frames,
  crashed,
  short,      \* ghost: a request had no five elements
  overlapped, \* ghost: two requests at once
  tight       \* ghost: a client was deleted between the reader's check and its use

vars == <<sdoClient, clients, request, reader, made, frames, crashed, short, overlapped, tight>>

Null == 0
NoRequest == [at |-> "none", kind |-> "upload", node |-> CHOOSE n \in Nodes : TRUE, mine |-> Null,
              ok |-> FALSE, inhibited |-> FALSE, replies |-> {}]
NoFrame == [node |-> CHOOSE n \in Nodes : TRUE, at |-> "idle"]

\* A request with no five elements, with a direction or type nobody knows (a download with
\* no six elements is turned down at the same place), and those that lead to a transfer.
Kinds == {"short", "illegal", "upload", "download"}

Init ==
  /\ sdoClient = Null /\ clients = {}
  /\ request = [c \in Connections |-> NoRequest] /\ reader = NoFrame
  /\ made = 0 /\ frames = 0 /\ crashed = FALSE
  /\ short = FALSE /\ overlapped = FALSE /\ tight = FALSE

At(c, step) == request[c].at = step
GoTo(c, step) == request' = [request EXCEPT ![c].at = step]
Exists(p) == \E x \in clients : x.number = p

-----------------------------------------------------------------------------
(* The thread of a connection *)

Read(c) ==
  /\ At(c, "none") /\ made < MaxRequests /\ made' = made + 1
  /\ \E k \in Kinds, n \in Nodes :
       /\ request' = [request EXCEPT ![c] = [NoRequest EXCEPT !.at = IF k = "short" THEN "guard" ELSE "allocate",
                                                              !.kind = k, !.node = n]]
       /\ short' = (short \/ k = "short")
  /\ overlapped' = (overlapped \/ \E d \in Connections \ {c} : ~At(d, "none"))
  /\ UNCHANGED <<sdoClient, clients, reader, frames, crashed, tight>>

\* The client that was in the pointer, if any, is nobody's from now on.
allocate(c) ==
  /\ At(c, "allocate")
  /\ LET fresh == CHOOSE p \in 1..(MaxRequests + 1) : ~Exists(p)
     IN  /\ clients' = clients \cup {[number |-> fresh, node |-> request[c].node]}
         /\ sdoClient' = fresh
  /\ GoTo(c, IF request[c].kind = "illegal" THEN "guard" ELSE "follow")
  /\ UNCHANGED <<reader, made, frames, crashed, short, overlapped, tight>>

\* upload or download through the pointer, whoever has set it.
Follow(c) ==
  /\ At(c, "follow")
  /\ IF Exists(sdoClient)
     THEN request' = [request EXCEPT ![c].mine = sdoClient, ![c].at = "transfer"] /\ UNCHANGED crashed
     ELSE crashed' = TRUE /\ UNCHANGED request
  /\ UNCHANGED <<sdoClient, clients, reader, made, frames, short, overlapped, tight>>

\* The wait of a client that is deleted under it is undefined.
Timeout(c) ==
  /\ At(c, "transfer")
  /\ IF Exists(request[c].mine) THEN GoTo(c, "guard") /\ UNCHANGED crashed ELSE crashed' = TRUE /\ UNCHANGED request
  /\ UNCHANGED <<sdoClient, clients, reader, made, frames, short, overlapped, tight>>

\* A download that ends well flips the guard; an upload replies by itself and, if that
\* could be written, takes the guard its reply; if not, the guard tries again and says fail.
Succeed(c) ==
  /\ At(c, "answered")
  /\ \/ /\ request[c].kind = "download"
        /\ request' = [request EXCEPT ![c].ok = TRUE, ![c].at = "guard"]
     \/ /\ request[c].kind = "upload"
        /\ \/ request' = [request EXCEPT ![c].replies = {"data"}, ![c].inhibited = TRUE, ![c].at = "guard"]
           \/ GoTo(c, "guard")
  /\ UNCHANGED <<sdoClient, clients, reader, made, frames, crashed, short, overlapped, tight>>

Deletes(c) ==
  /\ clients' = {x \in clients : x.number # sdoClient}
  /\ tight' = (tight \/ (reader.at = "use" /\ Exists(sdoClient)))
Replies(c) ==
  request' = [request EXCEPT ![c].at = "reply",
                ![c].replies = IF request[c].inhibited THEN @ ELSE @ \cup {IF request[c].ok THEN "ok" ELSE "fail"}]

\* The destructor of the guard: without a handle, for a request that is too short, it
\* follows a null pointer.
Guard(c) ==
  /\ At(c, "guard")
  /\ IF request[c].kind = "short"
     THEN crashed' = TRUE /\ UNCHANGED <<sdoClient, clients, request, tight>>
     ELSE Deletes(c) /\ Replies(c) /\ sdoClient' = Null /\ UNCHANGED crashed
  /\ UNCHANGED <<reader, made, frames, short, overlapped>>

Over(c) ==
  /\ At(c, "reply") /\ request' = [request EXCEPT ![c] = NoRequest]
  /\ UNCHANGED <<sdoClient, clients, reader, made, frames, crashed, short, overlapped, tight>>

-----------------------------------------------------------------------------
(* The reader thread *)

\* External: some node sends a frame with the identifier of an SDO reply.
Receive ==
  /\ reader.at = "idle" /\ frames < MaxFrames /\ frames' = frames + 1
  /\ \E n \in Nodes : reader' = [node |-> n, at |-> "check"]
  /\ UNCHANGED <<sdoClient, clients, request, made, crashed, short, overlapped, tight>>

\* notifyMessage: the pointer is there, and its client has the identifier; a client that
\* is gone has any ...
Check ==
  /\ reader.at = "check"
  /\ IF sdoClient = Null THEN reader' = NoFrame /\ UNCHANGED crashed
     ELSE IF ~Exists(sdoClient) THEN crashed' = TRUE /\ UNCHANGED reader
     ELSE /\ reader' = IF \E x \in clients : x.number = sdoClient /\ x.node = reader.node
                       THEN [reader EXCEPT !.at = "use"] ELSE NoFrame
          /\ UNCHANGED crashed
  /\ UNCHANGED <<sdoClient, clients, request, made, frames, short, overlapped, tight>>

\* ... and then notify, with the pointer read once more.
Use ==
  /\ reader.at = "use"
  /\ IF ~Exists(sdoClient) THEN crashed' = TRUE /\ UNCHANGED <<reader, request>>
     ELSE /\ reader' = NoFrame /\ UNCHANGED crashed
          /\ request' = [c \in Connections |->
                           IF At(c, "transfer") /\ request[c].mine = sdoClient
                           THEN [request[c] EXCEPT !.at = "answered"] ELSE request[c]]
  /\ UNCHANGED <<sdoClient, clients, made, frames, short, overlapped, tight>>

Idle == (crashed \/ \A c \in Connections : At(c, "none")) /\ UNCHANGED vars

Works ==
  \/ Receive \/ Check \/ Use
  \/ \E c \in Connections : Read(c) \/ allocate(c) \/ Follow(c) \/ Timeout(c) \/ Succeed(c) \/ Guard(c) \/ Over(c)
Next == Idle \/ (~crashed /\ Works)

Spec == Init /\ [][Next]_vars

-----------------------------------------------------------------------------
(* Properties *)

TypeOK ==
  /\ sdoClient \in 0..(MaxRequests + 1) /\ made <= MaxRequests /\ frames <= MaxFrames
  /\ \A x \in clients : x.number \in 1..(MaxRequests + 1) /\ x.node \in Nodes
  /\ \A c \in Connections : request[c].kind \in Kinds /\ request[c].node \in Nodes
  /\ reader.at \in {"idle", "check", "use"}

\* No thread follows a pointer to a client that is not there, whatever frames come and
\* whenever a transfer times out, as long as requests come one by one, are long enough, and
\* the reader is not just past its check.
NothingDangling == ~short /\ ~overlapped /\ ~tight => ~crashed

\* Each request, also one whose transfer failed or whose data could not be written, has
\* exactly one reply, which does not claim more than its transfer did.
OneReplyEach ==
  \A c \in Connections : At(c, "reply") =>
    /\ Cardinality(request[c].replies) = 1
    /\ request[c].replies = {"ok"} <=> request[c].ok
    /\ request[c].replies = {"data"} => request[c].kind = "upload"
=============================================================================
