-------------------------- MODULE DriveStatusMachine --------------------------
(***************************************************************************)
(* libraries/CanOpenNodeLib/DriveStatusMachine.cpp between its callers and *)
(* the drive. A controller thread asks for a state, a transition or a wait *)
(* and walks through the calls of requestState, requestTransition and      *)
(* awaitState, every one of which takes and gives back stateMutex; a mode  *)
(* thread reads the stored controlword, sets or clears a mode bit in it    *)
(* and sends it; the reader thread of the bus calls update with every      *)
(* statusword; the heartbeat monitor calls reset. The frames to and from   *)
(* the drive are delayed and stay in order.                                *)
(***************************************************************************)
EXTENDS Cia402

CONSTANTS Controllers,  \* threads that call requestState, requestTransition, awaitState
          ModeThreads,  \* threads that set or clear a mode bit, setpoint handshakes for one
          Goals,        \* the states the controllers ask for or wait for
          Singles,      \* the transitions they request individually
          Timely,       \* TRUE: no timeout elapses while a frame is under way
          MaxFrames     \* bound: frames under way in each direction

\* Checked with TypeOK.
ConstantsFit ==
  /\ Controllers \cap ModeThreads = {} /\ Goals \subseteq States /\ Singles \subseteq Transitions
  /\ Timely \in BOOLEAN /\ MaxFrames \in Nat

VARIABLES
  controlword, statusword,       \* _controlword, _statusword
  call, storage, result, alive,  \* stateObserver
  pc,        \* where each thread is
  goal,      \* the state a controller asked for, then the one its transition
             \* leads to: the arguments of requestState and awaitState
  path,      \* the transitions it still has to request
  pending,   \* the word each thread is about to send, or has sent and not yet stored
  drive, resetBit,               \* state of the drive, bit 7 of the last word it took
  toDrive, toHost,               \* frames under way
  made,      \* ghost: the drive has been in the goal since the transition was looked up
  enableAsked \* ghost: some call has gone for ENABLE_OPERATION

words == <<controlword, statusword>>
observer == <<call, storage, result, alive>>
request == <<pc, goal, path, pending>>
plant == <<drive, resetBit>>
frames == <<toDrive, toHost>>
ghosts == <<made, enableAsked>>
vars == <<words, observer, request, plant, frames, ghosts>>

Unwritten == "nothing"  \* no caller looks at its storage
Obs == INSTANCE ObserverSpec WITH Waiters <- Controllers, Payloads <- {}, NoPayload <- Unwritten

Threads == Controllers \cup ModeThreads
currentState == parseDriveState(statusword)  \* getCurrentState()

Init ==
  /\ controlword = {} /\ statusword = {}
  /\ Obs!Init
  /\ pc = [t \in Threads |-> "idle"]
  /\ goal = [c \in Controllers |-> "none"]
  /\ path = [c \in Controllers |-> <<>>]
  /\ pending = [t \in Threads |-> {}]
  /\ drive = "NOT_READY_TO_SWITCH_ON" /\ resetBit = FALSE
  /\ toDrive = <<>> /\ toHost = <<>>
  /\ made = [c \in Controllers |-> FALSE]
  /\ enableAsked = FALSE

-----------------------------------------------------------------------------
(* The controllers. *)

\* A call begins: its goal, its transitions and where it starts.
Begin(c, g, p, where) ==
  /\ pc[c] = "idle"
  /\ pc' = [pc EXCEPT ![c] = where]
  /\ goal' = [goal EXCEPT ![c] = g]
  /\ path' = [path EXCEPT ![c] = p]
  /\ UNCHANGED <<words, observer, pending, plant, frames, ghosts>>

RequestState(c) == \E g \in Goals : Begin(c, g, <<>>, "request")
RequestTransition(c) == \E t \in Singles : Begin(c, "none", <<t>>, "state")
AwaitState(c) == \E g \in Goals : Begin(c, g, <<>>, "check")

\* A call returns, true or false, and its locals are gone.
Return(c) == /\ pc' = [pc EXCEPT ![c] = "idle"]
             /\ goal' = [goal EXCEPT ![c] = "none"]
             /\ path' = [path EXCEPT ![c] = <<>>]
             /\ made' = [made EXCEPT ![c] = FALSE]

\* requestState looks at the state: there already, no path, or the path.
FindPath(c) ==
  /\ pc[c] = "request"
  /\ LET found == {p \in shortestPaths : p[1] = currentState /\ p[2] = goal[c]}
     IN \/ (goal[c] = currentState \/ found = {}) /\ Return(c)
        \/ /\ goal[c] # currentState
           /\ \E p \in found : path' = [path EXCEPT ![c] = p[3]]
           /\ pc' = [pc EXCEPT ![c] = "state"]
           /\ UNCHANGED <<goal, made>>
  /\ UNCHANGED <<words, observer, pending, plant, frames, enableAsked>>

\* requestTransition looks at the state again: the transition may not exist.
FindTransition(c) ==
  /\ pc[c] = "state"
  /\ LET t == Head(path[c]) IN
     \/ /\ HasNext(currentState, t)
        /\ goal' = [goal EXCEPT ![c] = NextState(currentState, t)]
        /\ made' = [made EXCEPT ![c] = (drive = NextState(currentState, t))]
        /\ enableAsked' = (enableAsked \/ t = ENABLE_OPERATION)
        /\ pc' = [pc EXCEPT ![c] = "word"]
        /\ UNCHANGED path
     \/ /\ ~HasNext(currentState, t)
        /\ Return(c)
        /\ UNCHANGED enableAsked
  /\ UNCHANGED <<words, observer, pending, plant, frames>>

ReadWord(c) ==
  /\ pc[c] = "word"
  /\ pending' = [pending EXCEPT ![c] = updateStateBits(controlword, Head(path[c]))]
  /\ pc' = [pc EXCEPT ![c] = "write"]
  /\ UNCHANGED <<words, observer, goal, path, plant, frames, ghosts>>

\* awaitState goes on at once if the drive is there.
Check(c) ==
  /\ pc[c] = "check"
  /\ \/ /\ goal[c] = currentState
        /\ pc' = [pc EXCEPT ![c] = "reached"]
        /\ UNCHANGED observer
     \/ /\ goal[c] # currentState
        /\ pc' = [pc EXCEPT ![c] = "await"]
        /\ Obs!Call(c)
  /\ UNCHANGED <<words, goal, path, pending, plant, frames, ghosts>>

OpenWindow(c) ==
  /\ Obs!OpenWindow(c)
  /\ UNCHANGED <<words, request, plant, frames, ghosts>>

\* Mutation: the wait has no timeout.
ExpireNever(c) == FALSE /\ UNCHANGED vars

Expire(c) ==
  /\ Timely => toDrive = <<>> /\ toHost = <<>>
  /\ Obs!Expire(c)
  /\ UNCHANGED <<words, request, plant, frames, ghosts>>

Awaken(c) ==
  /\ pc[c] = "await"
  /\ Obs!Return(c)
  /\ pc' = [pc EXCEPT ![c] = "recheck"]
  /\ UNCHANGED <<words, goal, path, pending, plant, frames, ghosts>>

\* Mutation: being woken is taken for being there.
RecheckAnyChange(c) ==
  /\ pc[c] = "recheck"
  /\ \/ /\ result[c]
        /\ pc' = [pc EXCEPT ![c] = "reached"]
        /\ UNCHANGED <<goal, path, made>>
     \/ ~result[c] /\ Return(c)
  /\ UNCHANGED <<words, observer, pending, plant, frames, enableAsked>>

\* The result of await and the state decide.
Recheck(c) ==
  /\ pc[c] = "recheck"
  /\ \/ /\ result[c] /\ goal[c] = currentState
        /\ pc' = [pc EXCEPT ![c] = "reached"]
        /\ UNCHANGED <<goal, path, made>>
     \/ ~(result[c] /\ goal[c] = currentState) /\ Return(c)
  /\ UNCHANGED <<words, observer, pending, plant, frames, enableAsked>>

\* awaitState was successful: on to the next transition, if there is one.
Proceed(c) ==
  /\ pc[c] = "reached"
  /\ \/ /\ Len(path[c]) > 1
        /\ path' = [path EXCEPT ![c] = Tail(@)]
        /\ pc' = [pc EXCEPT ![c] = "state"]
        /\ UNCHANGED <<goal, made>>
     \/ Len(path[c]) <= 1 /\ Return(c)
  /\ UNCHANGED <<words, observer, pending, plant, frames, enableAsked>>

-----------------------------------------------------------------------------
(* controlword(word), of the controllers and the mode threads. *)

\* Mutation: a queue that never refuses.
WriteAlways(t) ==
  /\ pc[t] = "write"
  /\ toDrive' = Append(toDrive, pending[t])
  /\ pc' = [pc EXCEPT ![t] = "store"]
  /\ UNCHANGED <<words, observer, goal, path, pending, plant, toHost, ghosts>>

Write(t) ==
  /\ pc[t] = "write" /\ Len(toDrive) < MaxFrames
  /\ toDrive' = Append(toDrive, pending[t])
  /\ pc' = [pc EXCEPT ![t] = "store"]
  /\ UNCHANGED <<words, observer, goal, path, pending, plant, toHost, ghosts>>

WriteFails(t) ==
  /\ pc[t] = "write"
  /\ pending' = [pending EXCEPT ![t] = {}]
  /\ \/ t \in Controllers /\ Return(t)
     \/ t \in ModeThreads /\ pc' = [pc EXCEPT ![t] = "idle"] /\ UNCHANGED <<goal, path, made>>
  /\ UNCHANGED <<words, observer, plant, frames, enableAsked>>

Store(t) ==
  /\ pc[t] = "store"
  /\ controlword' = pending[t]
  /\ pending' = [pending EXCEPT ![t] = {}]
  /\ pc' = [pc EXCEPT ![t] = IF t \in Controllers THEN "check" ELSE "idle"]
  /\ UNCHANGED <<statusword, observer, goal, path, plant, frames, ghosts>>

\* controlword(controlword().set(4)) or .reset(4): the read.
ReadMode(t) ==
  /\ t \in ModeThreads /\ pc[t] = "idle"
  /\ \/ pending' = [pending EXCEPT ![t] = controlword \cup {4}]
     \/ pending' = [pending EXCEPT ![t] = controlword \ {4}]
  /\ pc' = [pc EXCEPT ![t] = "write"]
  /\ UNCHANGED <<words, observer, goal, path, plant, frames, ghosts>>

-----------------------------------------------------------------------------
(* The reader thread and the heartbeat monitor. *)

NotifyObserver == \/ \E c \in Controllers : Obs!Signal(c, Unwritten)
                  \/ (\A c \in Controllers : ~Obs!HasWindow(c)) /\ UNCHANGED observer

\* A statusword arrives. If the state bits changed, those of the stored
\* controlword follow and the observer is notified, all under stateMutex.
Update ==
  /\ toHost # <<>>
  /\ toHost' = Tail(toHost)
  /\ statusword' = Head(toHost)
  /\ IF statusword \cap {0, 1, 2, 5, 6} # statusword' \cap {0, 1, 2, 5, 6}
     THEN /\ controlword' = updateStateBits(controlword, stateToControlword(parseDriveState(statusword')))
          /\ NotifyObserver
     ELSE UNCHANGED <<controlword, observer>>
  /\ UNCHANGED <<request, plant, toDrive, ghosts>>

\* Called when the heartbeat of the node is missed.
Reset ==
  /\ ~Timely
  /\ controlword' = {} /\ statusword' = {}
  /\ UNCHANGED <<observer, request, plant, frames, ghosts>>

-----------------------------------------------------------------------------
(* The drive, external. *)

\* The drive is in state s from now on and reports it.
Enter(s) ==
  /\ Len(toHost) < MaxFrames
  /\ \E sw \in Statuswords(s) : toHost' = Append(toHost, sw)
  /\ drive' = s
  /\ made' = [c \in Controllers |-> made[c] \/ (path[c] # <<>> /\ goal[c] = s)]
  /\ UNCHANGED <<words, observer, request, enableAsked>>

DriveTakesWord ==
  /\ toDrive # <<>>
  /\ toDrive' = Tail(toDrive)
  /\ resetBit' = (7 \in Head(toDrive))
  /\ LET s == DriveNext(drive, Head(toDrive), 7 \in Head(toDrive) /\ ~resetBit) IN
     \/ s # drive /\ Enter(s)
     \/ s = drive /\ UNCHANGED <<words, observer, request, drive, toHost, ghosts>>

DriveBoots ==
  /\ drive = "NOT_READY_TO_SWITCH_ON" /\ Enter("SWITCH_ON_DISABLED")
  /\ UNCHANGED <<resetBit, toDrive>>

DriveFaults ==
  /\ \/ drive \notin {"NOT_READY_TO_SWITCH_ON", "FAULT_REACTION_ACTIVE", "FAULT"} /\ Enter("FAULT_REACTION_ACTIVE")
     \/ drive = "FAULT_REACTION_ACTIVE" /\ Enter("FAULT")
  /\ UNCHANGED <<resetBit, toDrive>>

\* Something other than the state changed in the statusword, or it is due.
DriveReports == toHost = <<>> /\ Enter(drive) /\ UNCHANGED <<resetBit, toDrive>>

-----------------------------------------------------------------------------
ControllerStep(c) ==
  \/ FindPath(c) \/ FindTransition(c) \/ ReadWord(c) \/ Check(c) \/ OpenWindow(c)
  \/ Expire(c) \/ Awaken(c) \/ Recheck(c) \/ Proceed(c)
ThreadStep(t) == Write(t) \/ WriteFails(t) \/ Store(t)
DriveStep == DriveTakesWord \/ DriveBoots \/ DriveFaults \/ DriveReports

Next == \/ \E c \in Controllers : RequestState(c) \/ RequestTransition(c) \/ AwaitState(c) \/ ControllerStep(c)
        \/ \E t \in Threads : ThreadStep(t)
        \/ \E t \in ModeThreads : ReadMode(t)
        \/ Update \/ Reset \/ DriveStep

Spec == Init /\ [][Next]_vars

\* The controllers run, and what was sent is taken and delivered; the drive
\* need not do anything by itself and nobody need ask for anything.
FairSpec == /\ Spec /\ WF_vars(DriveTakesWord) /\ WF_vars(Update)
            /\ \A c \in Controllers : WF_vars(ControllerStep(c)) /\ WF_vars(ThreadStep(c))

-----------------------------------------------------------------------------
(* Properties. *)

TypeOK ==
  /\ ConstantsFit
  /\ controlword \subseteq ControlBits /\ statusword \subseteq StatusBits
  /\ alive /\ \A c \in Controllers : Obs!HasWindow(c) => pc[c] = "await"
  /\ goal \in [Controllers -> States \cup {"none"}]
  /\ \A c \in Controllers : path[c] \in Seq(Transitions) /\ made[c] \in BOOLEAN
  /\ \A t \in Threads : pending[t] \subseteq ControlBits
  /\ drive \in States /\ resetBit \in BOOLEAN /\ enableAsked \in BOOLEAN
  /\ Len(toDrive) <= MaxFrames /\ Len(toHost) <= MaxFrames

\* With no statusword under way the program believes the drive to be in the state
\* it is in, unless it has seen none since it began or was reset.
BeliefIsTrue == toHost = <<>> => currentState = drive \/ statusword = {}

\* A word parsed as a state is one of those the drive reports that state with.
StatesAreReported ==
  \A sw \in SUBSET StatusBits :
    LET s == parseDriveState(sw) IN s # "NOT_READY_TO_SWITCH_ON" => sw \in Statuswords(s)

\* A transition the program believes in is one the drive makes when it gets the
\* state bits in place of those of the stored word, and the table knows every
\* state a transition can lead to.
TransitionsAreDrives ==
  LET after(t) == DriveNext(drive, updateStateBits(controlword, t), t = FAULT_RESET)
      edges == {e \in nextStateOnTransition : e[1] = drive}
  IN  /\ \A e \in edges : after(e[2]) = e[3]
      /\ \A t \in Transitions : after(t) # drive => \E e \in edges : e[3] = after(t)

\* A path leads from where the drive is to its goal, and no shorter sequence of
\* transitions does.
PathsAreShortest ==
  \A p \in shortestPaths : p[1] = drive =>
    /\ Reached(drive, p[3]) = p[2]
    /\ \A n \in 0..(Len(p[3]) - 1) : \A q \in [1..n -> Transitions] : Reached(drive, q) # p[2]

\* The tables agree with the drive.
TablesMatchDrive == BeliefIsTrue /\ StatesAreReported /\ TransitionsAreDrives /\ PathsAreShortest

\* A transition that awaitState reports as made (DriveStatusMachine.cpp:205-207)
\* was made after requestTransition looked it up, as far as states with power on
\* are concerned, whatever statuswords of earlier calls were still under way.
\* (Not so for the others: bit 5, no part of SWITCH_ON_DISABLED but of the mask
\* of update, ends a wait early, and the late confirmation serves the next one.)
SuccessIsFresh ==
  \A c \in Controllers :
     pc[c] = "reached" /\ path[c] # <<>> /\ goal[c] \in Powered => made[c]

\* No thread is in the middle of a call and no frame is under way.
Quiescent == /\ toDrive = <<>> /\ toHost = <<>>
             /\ \A t \in Threads : pc[t] = "idle"

\* The stored controlword is what the next setpoint handshake sends with a
\* mode bit changed (IPositionControlRawImpl.cpp:24, TechnosoftIpos.cpp:294).
\* When all is quiet it is no command to change state, however update and the
\* store of requestTransition have been interleaved before.
StoredWordIsHarmless ==
  Quiescent => \A mode \in SUBSET {4} :
    DriveNext(drive, (controlword \ {4}) \cup mode, 7 \in controlword /\ ~resetBit) = drive

\* Nothing that is sent on account of a mode bit, and no stale word, enables
\* the drive before somebody has asked for ENABLE_OPERATION.
NeverEnabledUnasked == drive = "OPERATION_ENABLED" => enableAsked

\* With every wait bounded by a timeout a call always comes to its end, even
\* if the drive faults, falls silent or changes its state all the time.
RequestTerminates == \A c \in Controllers : (pc[c] # "idle") ~> (pc[c] = "idle")

\* DriveStatusMachine.hpp:98, "Await until drive reaches given state, with
\* timeout": no wait is left to its timeout, with nothing under way that could
\* end it, for a state the drive is known to be in. What the code does: the
\* statusword may be handled between the check and the registration with the
\* observer, and its notification then reaches nobody.
NoWaitForWhatIsThere ==
  \A c \in Controllers :
    call[c] = "open" /\ toDrive = <<>> /\ toHost = <<>> => currentState # goal[c]
=============================================================================
