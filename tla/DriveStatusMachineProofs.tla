----------------------- MODULE DriveStatusMachineProofs -----------------------
(***************************************************************************)
(* Proofs about DriveStatusMachine for any number of controllers and mode   *)
(* threads, of frames under way and any timeouts. What enables a drive is   *)
(* bit 3 of a word; the invariant follows it from the argument of a call    *)
(* through the words a thread has read, sent and stored to the drive, and   *)
(* back through the statuswords from which update makes a controlword.      *)
(***************************************************************************)
EXTENDS DriveStatusMachine, SequenceTheorems, TLAPS

-----------------------------------------------------------------------------
(* The tables. *)

\* The commands are different ones, and all of them are words.
LEMMA Commands ==
  /\ \A t \in Transitions : t \subseteq ControlBits
  /\ \A t \in Transitions : 3 \in t <=> t = ENABLE_OPERATION
  /\ \A t \in Transitions : 7 \in t <=> t = FAULT_RESET
  /\ \A t \in Transitions : (1 \in t /\ 2 \notin t) <=> t = QUICK_STOP
  /\ \A t \in Transitions : (0 \notin t /\ 2 \in t) <=> t = SHUTDOWN
  /\ \A t \in Transitions : (0 \in t /\ 3 \notin t) <=> t = SWITCH_ON
  /\ \A t \in Transitions : (1 \notin t /\ 7 \notin t) <=> t = DISABLE_VOLTAGE
<1> USE DEF SHUTDOWN, SWITCH_ON, DISABLE_VOLTAGE, QUICK_STOP, ENABLE_OPERATION, FAULT_RESET, Transitions, ControlBits
<1>1. \A t \in Transitions : t \subseteq ControlBits
  OBVIOUS
<1>2. \A t \in Transitions : 3 \in t <=> t = ENABLE_OPERATION
  OBVIOUS
<1>3. \A t \in Transitions : 7 \in t <=> t = FAULT_RESET
  OBVIOUS
<1>4. \A t \in Transitions : (1 \in t /\ 2 \notin t) <=> t = QUICK_STOP
  OBVIOUS
<1>5. \A t \in Transitions : (0 \notin t /\ 2 \in t) <=> t = SHUTDOWN
  OBVIOUS
<1>6. \A t \in Transitions : (0 \in t /\ 3 \notin t) <=> t = SWITCH_ON
  OBVIOUS
<1>7. \A t \in Transitions : (1 \notin t /\ 7 \notin t) <=> t = DISABLE_VOLTAGE
  OBVIOUS
<1> QED BY <1>1, <1>2, <1>3, <1>4, <1>5, <1>6, <1>7

\* A word is one of the commands, bit by bit.
LEMMA CommandOfWord ==
  ASSUME NEW w
  PROVE  /\ 1 \notin w => Command(w) = DISABLE_VOLTAGE
         /\ 1 \in w /\ 2 \notin w => Command(w) = QUICK_STOP
         /\ 1 \in w /\ 2 \in w /\ 0 \notin w => Command(w) = SHUTDOWN
         /\ 1 \in w /\ 2 \in w /\ 0 \in w /\ 3 \notin w => Command(w) = SWITCH_ON
         /\ 1 \in w /\ 2 \in w /\ 0 \in w /\ 3 \in w => Command(w) = ENABLE_OPERATION
<1>1. ASSUME 1 \in w, 2 \notin w PROVE w \cap {1, 2} = {1}
  BY <1>1
<1>2. ASSUME 1 \in w, 2 \in w, 0 \notin w PROVE w \cap {1, 2} # {1} /\ w \cap {0, 1, 2} = {1, 2}
  BY <1>2
<1>3. ASSUME 1 \in w, 2 \in w, 0 \in w PROVE w \cap {1, 2} # {1} /\ w \cap {0, 1, 2} # {1, 2}
  BY <1>3
<1>4. ASSUME 1 \in w, 2 \in w, 0 \in w, 3 \notin w PROVE w \cap {0, 1, 2, 3} = {0, 1, 2}
  BY <1>4
<1>5. ASSUME 3 \in w PROVE w \cap {0, 1, 2, 3} # {0, 1, 2}
  BY <1>5
<1> QED BY <1>1, <1>2, <1>3, <1>4, <1>5 DEF Command

\* With the state bits of a transition, a word is the command of that transition.
LEMMA CommandOfTransition ==
  ASSUME NEW w, NEW t \in Transitions
  PROVE  Command(updateStateBits(w, t)) = IF t = FAULT_RESET THEN DISABLE_VOLTAGE ELSE t
<1> DEFINE u == updateStateBits(w, t)
<1>1. \A b \in {0, 1, 2, 3} : b \in u <=> b \in t
  BY DEF updateStateBits
<1> HIDE DEF u
<1>2. t \in {SHUTDOWN, SWITCH_ON, DISABLE_VOLTAGE, QUICK_STOP, ENABLE_OPERATION, FAULT_RESET}
  BY DEF Transitions
<1>3. CASE t = FAULT_RESET
  <2>1. 1 \notin t
    BY <1>3 DEF FAULT_RESET
  <2> QED BY <1>1, <1>3, <2>1, CommandOfWord DEF u
<1>4. CASE t = DISABLE_VOLTAGE
  <2>1. 1 \notin t /\ t # FAULT_RESET
    BY <1>4 DEF FAULT_RESET, DISABLE_VOLTAGE
  <2> QED BY <1>1, <1>4, <2>1, CommandOfWord DEF u
<1>5. CASE t = QUICK_STOP
  <2>1. 1 \in t /\ 2 \notin t /\ t # FAULT_RESET
    BY <1>5 DEF FAULT_RESET, QUICK_STOP
  <2> QED BY <1>1, <1>5, <2>1, CommandOfWord DEF u
<1>6. CASE t = SHUTDOWN
  <2>1. 1 \in t /\ 2 \in t /\ 0 \notin t /\ t # FAULT_RESET
    BY <1>6 DEF FAULT_RESET, SHUTDOWN
  <2> QED BY <1>1, <1>6, <2>1, CommandOfWord DEF u
<1>7. CASE t = SWITCH_ON
  <2>1. 1 \in t /\ 2 \in t /\ 0 \in t /\ 3 \notin t /\ t # FAULT_RESET
    BY <1>7 DEF FAULT_RESET, SWITCH_ON
  <2> QED BY <1>1, <1>7, <2>1, CommandOfWord DEF u
<1>8. CASE t = ENABLE_OPERATION
  <2>1. 1 \in t /\ 2 \in t /\ 0 \in t /\ 3 \in t /\ t # FAULT_RESET
    BY <1>8 DEF FAULT_RESET, ENABLE_OPERATION
  <2> QED BY <1>1, <1>8, <2>1, CommandOfWord DEF u
<1> QED BY <1>2, <1>3, <1>4, <1>5, <1>6, <1>7, <1>8

\* The drive stays among its states, and nothing without bit 3 enables it.
LEMMA DriveGoes ==
  ASSUME NEW s \in States, NEW w, NEW edge
  PROVE  /\ DriveNext(s, w, edge) \in States
         /\ s # "OPERATION_ENABLED" /\ 3 \notin w => DriveNext(s, w, edge) # "OPERATION_ENABLED"
<1>1. DriveNext(s, w, edge) \in States
  BY DEF DriveNext, States
<1>2. ASSUME s # "OPERATION_ENABLED", 3 \notin w PROVE DriveNext(s, w, edge) # "OPERATION_ENABLED"
  <2>1. Command(w) \in {DISABLE_VOLTAGE, QUICK_STOP, SHUTDOWN, SWITCH_ON}
    BY <1>2, CommandOfWord
  <2>2. Command(w) # ENABLE_OPERATION
    BY <2>1 DEF DISABLE_VOLTAGE, QUICK_STOP, SHUTDOWN, SWITCH_ON, ENABLE_OPERATION
  <2> QED BY <1>2, <2>2 DEF DriveNext
<1> QED BY <1>1, <1>2

\* A statusword is parsed as the state it reports.
LEMMA Reported ==
  ASSUME NEW s \in States, NEW sw \in Statuswords(s)
  PROVE  sw \subseteq StatusBits /\ parseDriveState(sw) = s
<1>1. CASE s = "NOT_READY_TO_SWITCH_ON"
  <2>1. sw = {} \/ sw = {5}
    BY <1>1 DEF Statuswords
  <2> QED BY <1>1, <2>1 DEF parseDriveState, StatusBits
<1>2. CASE s = "SWITCH_ON_DISABLED"
  <2>1. sw = {6} \/ sw = {5, 6}
    BY <1>2 DEF Statuswords
  <2>2. sw \cap {0, 1, 2, 3, 6} = {6} /\ sw \subseteq StatusBits
    BY <2>1 DEF StatusBits
  <2> QED BY <1>2, <2>2 DEF parseDriveState
<1>3. CASE s = "READY_TO_SWITCH_ON"
  <2>1. sw = {0, 5}
    BY <1>3 DEF Statuswords
  <2> QED BY <1>3, <2>1 DEF parseDriveState, StatusBits
<1>4. CASE s = "SWITCHED_ON"
  <2>1. sw = {0, 1, 5}
    BY <1>4 DEF Statuswords
  <2> QED BY <1>4, <2>1 DEF parseDriveState, StatusBits
<1>5. CASE s = "OPERATION_ENABLED"
  <2>1. sw = {0, 1, 2, 5}
    BY <1>5 DEF Statuswords
  <2> QED BY <1>5, <2>1 DEF parseDriveState, StatusBits
<1>6. CASE s = "QUICK_STOP_ACTIVE"
  <2>1. sw = {0, 1, 2}
    BY <1>6 DEF Statuswords
  <2> QED BY <1>6, <2>1 DEF parseDriveState, StatusBits
<1>7. CASE s = "FAULT_REACTION_ACTIVE"
  <2>1. sw = {0, 1, 2, 3} \/ sw = {0, 1, 2, 3, 5}
    BY <1>7 DEF Statuswords
  <2> QED BY <1>7, <2>1 DEF parseDriveState, StatusBits
<1>8. CASE s = "FAULT"
  <2>1. sw = {3} \/ sw = {3, 5}
    BY <1>8 DEF Statuswords
  <2> QED BY <1>8, <2>1 DEF parseDriveState, StatusBits
<1> QED BY <1>1, <1>2, <1>3, <1>4, <1>5, <1>6, <1>7, <1>8 DEF States

\* Every word is parsed as a state, no word at all as none that is known, and the
\* controlword made of it enables only what is enabled.
LEMMA Parsed ==
  ASSUME NEW sw
  PROVE  /\ parseDriveState(sw) \in States
         /\ stateToControlword(parseDriveState(sw)) \subseteq ControlBits
         /\ 3 \in stateToControlword(parseDriveState(sw)) => parseDriveState(sw) = "OPERATION_ENABLED"
<1>1. parseDriveState(sw) \in States
  BY DEF parseDriveState, States
<1>2. ASSUME NEW s \in States
      PROVE  stateToControlword(s) \subseteq ControlBits /\ (3 \in stateToControlword(s) => s = "OPERATION_ENABLED")
  BY DEF stateToControlword, ControlBits, SHUTDOWN, SWITCH_ON, ENABLE_OPERATION, QUICK_STOP, DISABLE_VOLTAGE
<1> QED BY <1>1, <1>2

\* A word with other state bits is a word; it has bit 3 if they have.
LEMMA Updated ==
  ASSUME NEW w \in SUBSET ControlBits, NEW r \in SUBSET ControlBits
  PROVE  updateStateBits(w, r) \in SUBSET ControlBits /\ (3 \in updateStateBits(w, r) <=> 3 \in r)
  BY DEF updateStateBits, ControlBits

\* What the tables hold.
LEMMA Tabled ==
  /\ \A e \in nextStateOnTransition : e[1] \in States /\ e[2] \in Transitions /\ e[3] \in States
  /\ \A p \in shortestPaths : p[3] \in Seq(Transitions) /\ p[3] # <<>>
<1>1. \A e \in nextStateOnTransition : e[1] \in States /\ e[2] \in Transitions /\ e[3] \in States
  BY DEF nextStateOnTransition, States, Transitions, DISABLE_OPERATION
<1>2. ASSUME NEW p \in shortestPaths PROVE p[3] \in Seq(Transitions) /\ p[3] # <<>>
  <2>1. \/ \E t \in Transitions : p[3] = <<t>>
        \/ \E t, u \in Transitions : p[3] = <<t, u>>
        \/ \E t, u, v \in Transitions : p[3] = <<t, u, v>>
    BY DEF shortestPaths, Transitions, DISABLE_OPERATION
  <2>2. CASE \E t \in Transitions : p[3] = <<t>>
    BY <2>2
  <2>3. CASE \E t, u \in Transitions : p[3] = <<t, u>>
    BY <2>3
  <2>4. CASE \E t, u, v \in Transitions : p[3] = <<t, u, v>>
    BY <2>4
  <2> QED BY <2>1, <2>2, <2>3, <2>4
<1> QED BY <1>1, <1>2

\* The state a transition leads to is one that the table holds.
LEMMA Follows ==
  ASSUME NEW s, NEW t, HasNext(s, t)
  PROVE  /\ NextState(s, t) \in States
         /\ \E e \in nextStateOnTransition : e[1] = s /\ e[2] = t /\ NextState(s, t) = e[3]
<1>1. PICK e \in nextStateOnTransition : e[1] = s /\ e[2] = t
  BY DEF HasNext
<1> DEFINE x == CHOOSE y \in nextStateOnTransition : y[1] = s /\ y[2] = t
<1>2. x \in nextStateOnTransition /\ x[1] = s /\ x[2] = t
  BY <1>1
<1>3. NextState(s, t) = x[3]
  BY DEF NextState
<1> HIDE DEF x
<1> QED BY <1>2, <1>3, Tabled

-----------------------------------------------------------------------------
(* The invariant. *)

Places == {"idle", "request", "state", "word", "write", "store", "check", "await", "recheck", "reached"}
Calls == {"out", "waiting", "open", "woken", "expired"}

Typed ==
  /\ controlword \in SUBSET ControlBits /\ statusword \in SUBSET StatusBits
  /\ alive = TRUE /\ call \in [Controllers -> Calls]
  /\ pc \in [Threads -> Places]
  /\ goal \in [Controllers -> States \cup {"none"}]
  /\ path \in [Controllers -> Seq(Transitions)]
  /\ pending \in [Threads -> SUBSET ControlBits]
  /\ drive \in States /\ resetBit \in BOOLEAN
  /\ toDrive \in Seq(SUBSET ControlBits) /\ Len(toDrive) <= MaxFrames
  /\ toHost \in Seq(SUBSET StatusBits) /\ Len(toHost) <= MaxFrames
  /\ made \in [Controllers -> BOOLEAN] /\ enableAsked \in BOOLEAN

\* A controller waits where its call to await says, and has a transition to request
\* where it is about to.
Located ==
  /\ \A c \in Controllers : call[c] # "out" => pc[c] = "await"
  /\ \A c \in Controllers : pc[c] \in {"state", "word"} => path[c] # <<>>

\* The enabled state as the program sees it.
Enabled(sw) == parseDriveState(sw) = "OPERATION_ENABLED"

\* Until somebody asks for ENABLE_OPERATION no transition that was looked up is that
\* one, no word that was read, stored, sent or is under way has bit 3, and no
\* statusword, stored or under way, is that of an enabled drive.
Unasked ==
  /\ drive # "OPERATION_ENABLED" /\ 3 \notin controlword /\ ~Enabled(statusword)
  /\ \A t \in Threads : 3 \notin pending[t]
  /\ \A c \in Controllers : pc[c] = "word" => Head(path[c]) # ENABLE_OPERATION
  /\ \A i \in 1..Len(toDrive) : 3 \notin toDrive[i]
  /\ \A i \in 1..Len(toHost) : ~Enabled(toHost[i])
Asked == enableAsked \/ Unasked

\* The last statusword under way tells the state of the drive; if none is, the stored
\* one does, or there is none.
Told ==
  /\ toHost # <<>> => parseDriveState(toHost[Len(toHost)]) = drive
  /\ BeliefIsTrue

IInv == Typed /\ Located /\ Asked /\ Told

\* What is where in a queue that gets longer.
LEMMA Appended ==
  ASSUME NEW S, NEW q \in Seq(S), NEW x \in S
  PROVE  /\ Append(q, x) \in Seq(S) /\ Append(q, x) # <<>>
         /\ Len(q) \in Nat /\ Len(Append(q, x)) = Len(q) + 1 /\ Append(q, x)[Len(q) + 1] = x
         /\ \A i \in 1..Len(q) : Append(q, x)[i] = q[i]
<1>1. /\ Append(q, x) \in Seq(S) /\ Len(q) \in Nat /\ Len(Append(q, x)) = Len(q) + 1 /\ Append(q, x)[Len(q) + 1] = x
      /\ \A i \in 1..Len(q) : Append(q, x)[i] = q[i]
  BY AppendProperties, LenProperties
<1>2. Append(q, x) # <<>>
  BY AppendProperties
<1> QED BY <1>1, <1>2

\* What is where in a queue that gets shorter.
LEMMA Shortened ==
  ASSUME NEW S, NEW q \in Seq(S), q # <<>>
  PROVE  /\ Head(q) \in S /\ Head(q) = q[1] /\ Tail(q) \in Seq(S)
         /\ Len(q) \in Nat \ {0} /\ Len(Tail(q)) = Len(q) - 1
         /\ \A i \in 1..Len(Tail(q)) : Tail(q)[i] = q[i + 1]
  BY HeadTailProperties, LenProperties, EmptySeq

\* At first nothing is under way.
LEMMA InitIInv == ASSUME ConstantsFit PROVE Init => IInv
<1> SUFFICES ASSUME Init PROVE IInv
  OBVIOUS
<1>1. ~Enabled({})
  BY DEF Enabled, parseDriveState
<1>2. Typed
  <2>1. /\ toDrive = <<>> /\ toHost = <<>> /\ Len(<<>>) = 0 /\ MaxFrames \in Nat
        /\ toDrive \in Seq(SUBSET ControlBits) /\ toHost \in Seq(SUBSET StatusBits)
    BY DEF Init, ConstantsFit
  <2>2. alive = TRUE /\ call \in [Controllers -> Calls]
    BY DEF Init, Obs!Init, Calls
  <2>3. path \in [Controllers -> Seq(Transitions)]
    BY DEF Init
  <2>4. /\ pc \in [Threads -> Places] /\ goal \in [Controllers -> States \cup {"none"}]
        /\ pending \in [Threads -> SUBSET ControlBits] /\ made \in [Controllers -> BOOLEAN]
        /\ controlword \in SUBSET ControlBits /\ statusword \in SUBSET StatusBits
        /\ drive \in States /\ resetBit \in BOOLEAN /\ enableAsked \in BOOLEAN
    BY DEF Init, Places, States
  <2> QED BY <2>1, <2>2, <2>3, <2>4 DEF Typed
<1>3. Located
  BY DEF Init, Located, Obs!Init, Threads
<1>4. Unasked
  <2>1. 1..Len(toDrive) = {} /\ 1..Len(toHost) = {}
    BY DEF Init
  <2> QED BY <1>1, <2>1 DEF Init, Unasked, Threads
<1>5. Told
  BY DEF Init, Told, BeliefIsTrue
<1> QED BY <1>2, <1>3, <1>4, <1>5 DEF IInv, Asked

-----------------------------------------------------------------------------
(* Every step keeps it. First the controllers. *)

\* A step that moves a controller, with no word read, stored or sent.
LEMMA Moved ==
  ASSUME ConstantsFit, IInv, UNCHANGED <<words, pending, plant, frames, alive>>,
         NEW c \in Controllers, NEW where \in Places, pc' = [pc EXCEPT ![c] = where],
         goal' \in [Controllers -> States \cup {"none"}],
         NEW p \in Seq(Transitions), path' = [path EXCEPT ![c] = p], where \in {"state", "word"} => p # <<>>,
         made' \in [Controllers -> BOOLEAN],
         call' \in [Controllers -> Calls], \A u \in Controllers \ {c} : call'[u] = call[u],
         call'[c] # "out" => where = "await",
         enableAsked' \in BOOLEAN, enableAsked => enableAsked',
         where = "word" => enableAsked' \/ Head(p) # ENABLE_OPERATION
  PROVE  IInv'
<1>1. UNCHANGED <<controlword, statusword, pending, drive, resetBit, toDrive, toHost, alive>>
  BY DEF words, plant, frames
<1>2. Typed'
  <2>1. pc' \in [Threads -> Places] /\ path' \in [Controllers -> Seq(Transitions)]
    BY DEF IInv, Typed, Threads
  <2> QED BY <1>1, <2>1 DEF IInv, Typed
<1>3. /\ pc'[c] = where /\ path'[c] = p
      /\ \A u \in Controllers \ {c} : pc'[u] = pc[u] /\ path'[u] = path[u]
  BY DEF IInv, Typed, Threads
<1>4. Located'
  BY <1>3 DEF IInv, Located
<1>5. Asked'
  <2>1. CASE enableAsked
    BY <2>1 DEF Asked
  <2>2. CASE Unasked /\ ~enableAsked'
    <3>1. \A u \in Controllers : pc'[u] = "word" => Head(path'[u]) # ENABLE_OPERATION
      BY <1>3, <2>2 DEF Unasked
    <3> QED BY <1>1, <2>2, <3>1 DEF Asked, Unasked
  <2>3. CASE enableAsked'
    BY <2>3 DEF Asked
  <2> QED BY <2>1, <2>2, <2>3 DEF IInv, Asked
<1>6. Told'
  BY <1>1 DEF IInv, Told, BeliefIsTrue, currentState
<1> QED BY <1>2, <1>4, <1>5, <1>6 DEF IInv

\* A controller's call comes to its end.
LEMMA Returned ==
  ASSUME ConstantsFit, IInv, NEW c \in Controllers, pc[c] # "await",
         Return(c), UNCHANGED <<words, observer, pending, plant, frames, enableAsked>>
  PROVE  IInv'
<1>1. /\ pc' = [pc EXCEPT ![c] = "idle"] /\ path' = [path EXCEPT ![c] = <<>>]
      /\ goal' \in [Controllers -> States \cup {"none"}] /\ made' \in [Controllers -> BOOLEAN]
      /\ call' = call /\ alive' = alive /\ "idle" \in Places
  BY DEF Return, IInv, Typed, observer, Places
<1>2. <<>> \in Seq(Transitions)
  OBVIOUS
<1>3. call' \in [Controllers -> Calls] /\ call'[c] = "out" /\ enableAsked' \in BOOLEAN
  BY <1>1 DEF IInv, Typed, Located
<1> QED BY <1>1, <1>2, <1>3, Moved

\* A call begins.
LEMMA BeginKeeps ==
  ASSUME ConstantsFit, IInv, NEW c \in Controllers, NEW g \in States \cup {"none"}, NEW p \in Seq(Transitions),
         NEW where \in Places \ {"word"}, where = "state" => p # <<>>, Begin(c, g, p, where)
  PROVE  IInv'
<1>1. /\ pc[c] = "idle" /\ pc' = [pc EXCEPT ![c] = where] /\ path' = [path EXCEPT ![c] = p]
      /\ goal' \in [Controllers -> States \cup {"none"}] /\ made' \in [Controllers -> BOOLEAN]
      /\ UNCHANGED <<words, pending, plant, frames, alive, call, enableAsked>>
  BY DEF Begin, IInv, Typed, observer, ghosts
<1>2. call' \in [Controllers -> Calls] /\ call'[c] = "out" /\ enableAsked' \in BOOLEAN
  BY <1>1 DEF IInv, Typed, Located
<1> QED BY <1>1, <1>2, Moved

\* requestState.
LEMMA FindPathKeeps ==
  ASSUME ConstantsFit, IInv, NEW c \in Controllers, FindPath(c)
  PROVE  IInv'
<1>1. pc[c] = "request" /\ UNCHANGED <<words, observer, pending, plant, frames, enableAsked>>
  BY DEF FindPath
<1>2. CASE Return(c)
  BY <1>1, <1>2, Returned
<1>3. CASE /\ \E p \in {q \in shortestPaths : q[1] = currentState /\ q[2] = goal[c]} : path' = [path EXCEPT ![c] = p[3]]
           /\ pc' = [pc EXCEPT ![c] = "state"] /\ UNCHANGED <<goal, made>>
  <2>1. PICK p \in shortestPaths : path' = [path EXCEPT ![c] = p[3]]
    BY <1>3
  <2>2. PICK q \in Seq(Transitions) : q = p[3] /\ q # <<>>
    BY Tabled
  <2>3. path' = [path EXCEPT ![c] = q] /\ "state" \in Places
    BY <2>1, <2>2 DEF Places
  <2>4. call' = call /\ alive' = alive /\ call' \in [Controllers -> Calls] /\ call'[c] = "out"
    BY <1>1 DEF observer, IInv, Typed, Located
  <2> QED BY <1>1, <1>3, <2>2, <2>3, <2>4, Moved DEF IInv, Typed
<1> QED BY <1>2, <1>3 DEF FindPath

\* requestTransition looks the transition up.
LEMMA FindTransitionKeeps ==
  ASSUME ConstantsFit, IInv, NEW c \in Controllers, FindTransition(c)
  PROVE  IInv'
<1> DEFINE t == Head(path[c])
<1>1. pc[c] = "state" /\ UNCHANGED <<words, observer, pending, plant, frames>>
  BY DEF FindTransition
<1>2. CASE Return(c) /\ UNCHANGED enableAsked
  BY <1>1, <1>2, Returned
<1>3. CASE /\ HasNext(currentState, t) /\ goal' = [goal EXCEPT ![c] = NextState(currentState, t)]
           /\ made' = [made EXCEPT ![c] = (drive = NextState(currentState, t))]
           /\ enableAsked' = (enableAsked \/ t = ENABLE_OPERATION)
           /\ pc' = [pc EXCEPT ![c] = "word"] /\ UNCHANGED path
  <2>1. path[c] # <<>> /\ path[c] \in Seq(Transitions) /\ "word" \in Places
    BY <1>1 DEF IInv, Typed, Located, Places
  <2>2. path' = [path EXCEPT ![c] = path[c]]
    BY <1>3 DEF IInv, Typed
  <2>3. NextState(currentState, t) \in States
    BY <1>3, Follows
  <2>4. goal' \in [Controllers -> States \cup {"none"}] /\ made' \in [Controllers -> BOOLEAN]
    <3>1. goal' \in [Controllers -> States \cup {"none"}]
      BY <1>3, <2>3 DEF IInv, Typed
    <3>2. (drive = NextState(currentState, t)) \in BOOLEAN
      OBVIOUS
    <3>3. made' \in [Controllers -> BOOLEAN]
      BY <1>3, <3>2 DEF IInv, Typed
    <3> QED BY <3>1, <3>3
  <2>5. call' = call /\ alive' = alive /\ call' \in [Controllers -> Calls] /\ call'[c] = "out"
    BY <1>1 DEF observer, IInv, Typed, Located
  <2>6. enableAsked' \in BOOLEAN /\ (enableAsked => enableAsked') /\ (enableAsked' \/ Head(path[c]) # ENABLE_OPERATION)
    BY <1>3
  <2> HIDE DEF t
  <2> QED BY <1>1, <1>3, <2>1, <2>2, <2>4, <2>5, <2>6, Moved
<1> QED BY <1>2, <1>3 DEF FindTransition

\* It makes the word to send.
LEMMA ReadWordKeeps ==
  ASSUME ConstantsFit, IInv, NEW c \in Controllers, ReadWord(c)
  PROVE  IInv'
<1> DEFINE word == updateStateBits(controlword, Head(path[c]))
<1>1. /\ pc[c] = "word" /\ pending' = [pending EXCEPT ![c] = word] /\ pc' = [pc EXCEPT ![c] = "write"]
      /\ UNCHANGED <<controlword, statusword, call, alive, goal, path, drive, resetBit, toDrive, toHost, made, enableAsked>>
  BY DEF ReadWord, words, observer, plant, frames, ghosts
<1>2. Head(path[c]) \in Transitions /\ Transitions \subseteq SUBSET ControlBits
  <2>1. path[c] \in Seq(Transitions) /\ path[c] # <<>>
    BY <1>1 DEF IInv, Typed, Located
  <2> QED BY <2>1, Shortened, Commands
<1>3. word \in SUBSET ControlBits /\ (3 \in word <=> Head(path[c]) = ENABLE_OPERATION)
  <2>1. 3 \in Head(path[c]) <=> Head(path[c]) = ENABLE_OPERATION
    BY <1>2, Commands
  <2> QED BY <1>2, <2>1, Updated DEF IInv, Typed
<1> HIDE DEF word
<1>4. Typed' /\ Located' /\ Told'
  <2>1. Typed'
    BY <1>1, <1>3 DEF IInv, Typed, Places
  <2>2. Located'
    BY <1>1 DEF IInv, Located, Typed, Threads
  <2> QED BY <1>1, <2>1, <2>2 DEF IInv, Told, BeliefIsTrue, currentState
<1>5. Asked'
  <2>1. Unasked => Unasked'
    <3> SUFFICES ASSUME Unasked PROVE Unasked'
      OBVIOUS
    <3>1. \A t \in Threads : 3 \notin pending'[t]
      BY <1>1, <1>3 DEF Unasked, IInv, Typed
    <3>2. \A u \in Controllers : pc'[u] = "word" => Head(path'[u]) # ENABLE_OPERATION
      BY <1>1 DEF Unasked, IInv, Typed, Threads
    <3> QED BY <1>1, <3>1, <3>2 DEF Unasked
  <2> QED BY <1>1, <2>1 DEF IInv, Asked
<1> QED BY <1>4, <1>5 DEF IInv

\* awaitState looks at the state, and calls await.
LEMMA CheckKeeps ==
  ASSUME ConstantsFit, IInv, NEW c \in Controllers, Check(c)
  PROVE  IInv'
<1>1. /\ pc[c] = "check" /\ UNCHANGED <<words, goal, path, pending, plant, frames, made, enableAsked>>
      /\ path' = [path EXCEPT ![c] = path[c]] /\ path[c] \in Seq(Transitions) /\ call[c] = "out"
  BY DEF Check, ghosts, IInv, Typed, Located
<1>2. CASE pc' = [pc EXCEPT ![c] = "reached"] /\ UNCHANGED observer
  <2>1. call' = call /\ alive' = alive /\ "reached" \in Places
    BY <1>2 DEF observer, Places
  <2> QED BY <1>1, <1>2, <2>1, Moved DEF IInv, Typed
<1>3. CASE pc' = [pc EXCEPT ![c] = "await"] /\ Obs!Call(c)
  <2>1. alive' = alive /\ "await" \in Places /\ call' = [call EXCEPT ![c] = "waiting"]
    BY <1>3 DEF Obs!Call, Places
  <2>2. call' \in [Controllers -> Calls] /\ \A u \in Controllers \ {c} : call'[u] = call[u]
    BY <2>1 DEF IInv, Typed, Calls
  <2> QED BY <1>1, <1>3, <2>1, <2>2, Moved DEF IInv, Typed
<1> QED BY <1>2, <1>3 DEF Check

\* The observer lets a call have its turn, or gives it up.
LEMMA WaitKeeps ==
  ASSUME ConstantsFit, IInv, NEW c \in Controllers, NEW x \in Calls, call[c] # "out", call' = [call EXCEPT ![c] = x],
         UNCHANGED <<words, request, plant, frames, ghosts, alive>>
  PROVE  IInv'
<1>1. UNCHANGED <<controlword, statusword, alive, pc, goal, path, pending, drive, resetBit, toDrive, toHost, made, enableAsked>>
  BY DEF words, request, plant, frames, ghosts
<1>2. Typed' /\ Located'
  BY <1>1 DEF IInv, Typed, Located
<1> QED BY <1>1, <1>2 DEF IInv, Asked, Unasked, Told, BeliefIsTrue, currentState

\* await returns.
LEMMA AwakenKeeps ==
  ASSUME ConstantsFit, IInv, NEW c \in Controllers, Awaken(c)
  PROVE  IInv'
<1>1. /\ pc[c] = "await" /\ UNCHANGED <<words, goal, path, pending, plant, frames, made, enableAsked>>
      /\ path' = [path EXCEPT ![c] = path[c]] /\ path[c] \in Seq(Transitions)
      /\ pc' = [pc EXCEPT ![c] = "recheck"] /\ alive' = alive /\ call' = [call EXCEPT ![c] = "out"]
  BY DEF Awaken, Obs!Return, ghosts, IInv, Typed
<1>2. /\ call' \in [Controllers -> Calls] /\ call'[c] = "out" /\ \A u \in Controllers \ {c} : call'[u] = call[u]
      /\ "recheck" \in Places
  BY <1>1 DEF IInv, Typed, Calls, Places
<1> QED BY <1>1, <1>2, Moved DEF IInv, Typed

\* Its result and the state decide.
LEMMA RecheckKeeps ==
  ASSUME ConstantsFit, IInv, NEW c \in Controllers, Recheck(c)
  PROVE  IInv'
<1>1. /\ pc[c] = "recheck" /\ UNCHANGED <<words, observer, pending, plant, frames, enableAsked>>
      /\ path[c] \in Seq(Transitions) /\ call[c] = "out"
  BY DEF Recheck, IInv, Typed, Located
<1>2. CASE Return(c)
  BY <1>1, <1>2, Returned
<1>3. CASE pc' = [pc EXCEPT ![c] = "reached"] /\ UNCHANGED <<goal, path, made>>
  <2>1. call' = call /\ alive' = alive /\ "reached" \in Places /\ path' = [path EXCEPT ![c] = path[c]]
    BY <1>1, <1>3 DEF observer, Places, IInv, Typed
  <2> QED BY <1>1, <1>3, <2>1, Moved DEF IInv, Typed
<1> QED BY <1>2, <1>3 DEF Recheck

\* The next transition of a path.
LEMMA ProceedKeeps ==
  ASSUME ConstantsFit, IInv, NEW c \in Controllers, Proceed(c)
  PROVE  IInv'
<1>1. /\ pc[c] = "reached" /\ UNCHANGED <<words, observer, pending, plant, frames, enableAsked>>
      /\ path[c] \in Seq(Transitions) /\ call[c] = "out"
  BY DEF Proceed, IInv, Typed, Located
<1>2. CASE Return(c)
  BY <1>1, <1>2, Returned
<1>3. CASE /\ Len(path[c]) > 1 /\ path' = [path EXCEPT ![c] = Tail(@)]
           /\ pc' = [pc EXCEPT ![c] = "state"] /\ UNCHANGED <<goal, made>>
  <2>1. PICK q \in Seq(Transitions) : q = path[c]
    BY <1>1
  <2>2. Len(q) > 1 /\ Len(q) \in Nat /\ q # <<>>
    BY <1>3, <2>1, LenProperties
  <2>3. Tail(q) \in Seq(Transitions) /\ Len(Tail(q)) = Len(q) - 1
    BY <2>2, Shortened
  <2>4. Tail(q) # <<>>
    <3>1. Len(Tail(q)) # 0
      BY <2>2, <2>3
    <3> QED BY <3>1, <2>3, EmptySeq
  <2>5. path' = [path EXCEPT ![c] = Tail(q)] /\ "state" \in Places /\ call' = call /\ alive' = alive
    BY <1>1, <1>3, <2>1 DEF observer, Places, IInv, Typed
  <2> QED BY <1>1, <1>3, <2>3, <2>4, <2>5, Moved DEF IInv, Typed
<1> QED BY <1>2, <1>3 DEF Proceed

-----------------------------------------------------------------------------
(* The words. *)

\* A word is sent.
LEMMA WriteKeeps ==
  ASSUME ConstantsFit, IInv, NEW t \in Threads, Write(t)
  PROVE  IInv'
<1>1. /\ pc[t] = "write" /\ Len(toDrive) < MaxFrames /\ toDrive' = Append(toDrive, pending[t])
      /\ pc' = [pc EXCEPT ![t] = "store"] /\ pending[t] \in SUBSET ControlBits
      /\ UNCHANGED <<controlword, statusword, alive, call, goal, path, pending, drive, resetBit, toHost, made, enableAsked>>
  BY DEF Write, words, observer, plant, ghosts, IInv, Typed
<1>2. /\ toDrive' \in Seq(SUBSET ControlBits) /\ Len(toDrive) \in Nat /\ Len(toDrive') = Len(toDrive) + 1
      /\ toDrive'[Len(toDrive) + 1] = pending[t] /\ \A i \in 1..Len(toDrive) : toDrive'[i] = toDrive[i]
  BY <1>1, Appended DEF IInv, Typed
<1>3. Typed'
  <2>1. Len(toDrive') <= MaxFrames /\ "store" \in Places
    BY <1>1, <1>2 DEF ConstantsFit, Places
  <2> QED BY <1>1, <1>2, <2>1 DEF IInv, Typed
<1>4. Located'
  BY <1>1 DEF IInv, Located, Typed, Threads
<1>5. Unasked => Unasked'
  <2> SUFFICES ASSUME Unasked PROVE Unasked'
    OBVIOUS
  <2>1. ASSUME NEW i \in 1..Len(toDrive') PROVE 3 \notin toDrive'[i]
    <3>1. i \in 1..Len(toDrive) \/ i = Len(toDrive) + 1
      BY <1>2
    <3> QED BY <1>2, <3>1 DEF Unasked
  <2>2. \A u \in Controllers : pc'[u] = "word" => pc[u] = "word"
    BY <1>1 DEF IInv, Typed, Threads
  <2> QED BY <1>1, <2>1, <2>2 DEF Unasked
<1>6. Told'
  BY <1>1 DEF IInv, Told, BeliefIsTrue, currentState
<1> QED BY <1>1, <1>3, <1>4, <1>5, <1>6 DEF IInv, Asked

\* A word is not sent, or is stored, or a mode bit is changed in one: the stored word
\* and the one a thread holds are words still, with bit 3 only if they had it.
LEMMA Held ==
  ASSUME ConstantsFit, IInv, NEW t \in Threads, NEW where \in Places, where \notin {"state", "word"},
         pc' = [pc EXCEPT ![t] = where], pc[t] # "await",
         NEW w \in SUBSET ControlBits, pending' = [pending EXCEPT ![t] = w], 3 \in w => 3 \in controlword,
         controlword' \in SUBSET ControlBits, 3 \in controlword' => 3 \in controlword \/ 3 \in pending[t],
         goal' \in [Controllers -> States \cup {"none"}], made' \in [Controllers -> BOOLEAN],
         path' \in [Controllers -> Seq(Transitions)], \A u \in Controllers \ {t} : path'[u] = path[u],
         UNCHANGED <<statusword, observer, plant, frames, enableAsked>>
  PROVE  IInv'
<1>1. UNCHANGED <<statusword, alive, call, drive, resetBit, toDrive, toHost, enableAsked>>
  BY DEF observer, plant, frames
<1>2. Typed'
  BY <1>1 DEF IInv, Typed
<1>3. \A u \in Threads \ {t} : pc'[u] = pc[u] /\ pending'[u] = pending[u]
  BY DEF IInv, Typed
<1>4. pc'[t] = where /\ pending'[t] = w
  BY DEF IInv, Typed
<1>5. Located'
  BY <1>1, <1>3, <1>4 DEF IInv, Located, Threads
<1>6. Unasked => Unasked'
  <2> SUFFICES ASSUME Unasked PROVE Unasked'
    OBVIOUS
  <2>1. \A u \in Threads : 3 \notin pending'[u]
    BY <1>3, <1>4 DEF Unasked
  <2>2. \A u \in Controllers : pc'[u] = "word" => Head(path'[u]) # ENABLE_OPERATION
    BY <1>3, <1>4 DEF Unasked, Threads
  <2> QED BY <1>1, <2>1, <2>2 DEF Unasked
<1>7. Told'
  BY <1>1 DEF IInv, Told, BeliefIsTrue, currentState
<1> QED BY <1>1, <1>2, <1>5, <1>6, <1>7 DEF IInv, Asked

\* A word cannot be sent.
LEMMA WriteFailsKeeps ==
  ASSUME ConstantsFit, IInv, NEW t \in Threads, WriteFails(t)
  PROVE  IInv'
<1>1. /\ pc[t] = "write" /\ pending' = [pending EXCEPT ![t] = {}]
      /\ controlword' = controlword /\ UNCHANGED <<statusword, observer, plant, frames, enableAsked>>
      /\ {} \in SUBSET ControlBits /\ "idle" \in Places /\ controlword \in SUBSET ControlBits
  BY DEF WriteFails, words, IInv, Typed, Places
<1>2. CASE t \in Controllers /\ Return(t)
  <2>1. <<>> \in Seq(Transitions)
    OBVIOUS
  <2>2. /\ pc' = [pc EXCEPT ![t] = "idle"] /\ goal' \in [Controllers -> States \cup {"none"}]
        /\ made' \in [Controllers -> BOOLEAN] /\ path' \in [Controllers -> Seq(Transitions)]
        /\ \A u \in Controllers \ {t} : path'[u] = path[u]
    BY <1>2, <2>1 DEF Return, IInv, Typed
  <2> QED BY <1>1, <2>2, Held
<1>3. CASE t \in ModeThreads /\ pc' = [pc EXCEPT ![t] = "idle"] /\ UNCHANGED <<goal, path, made>>
  BY <1>1, <1>3, Held DEF IInv, Typed
<1> QED BY <1>2, <1>3 DEF WriteFails

\* A word is stored.
LEMMA StoreKeeps ==
  ASSUME ConstantsFit, IInv, NEW t \in Threads, Store(t)
  PROVE  IInv'
<1> DEFINE where == IF t \in Controllers THEN "check" ELSE "idle"
<1>1. /\ pc[t] = "store" /\ controlword' = pending[t] /\ pending' = [pending EXCEPT ![t] = {}]
      /\ pc' = [pc EXCEPT ![t] = where] /\ UNCHANGED <<statusword, observer, goal, path, plant, frames, made, enableAsked>>
      /\ {} \in SUBSET ControlBits /\ pending[t] \in SUBSET ControlBits
  BY DEF Store, ghosts, IInv, Typed
<1>2. where \in Places /\ where \notin {"state", "word"}
  BY DEF Places
<1> HIDE DEF where
<1> QED BY <1>1, <1>2, Held DEF IInv, Typed

\* A mode bit is changed in the stored word.
LEMMA ReadModeKeeps ==
  ASSUME ConstantsFit, IInv, NEW t \in ModeThreads, ReadMode(t)
  PROVE  IInv'
<1>1. PICK w \in {controlword \cup {4}, controlword \ {4}} : pending' = [pending EXCEPT ![t] = w]
  BY DEF ReadMode
<1>2. w \in SUBSET ControlBits /\ (3 \in w => 3 \in controlword) /\ controlword \in SUBSET ControlBits
  BY <1>1 DEF IInv, Typed, ControlBits
<1>3. /\ pc[t] = "idle" /\ pc' = [pc EXCEPT ![t] = "write"] /\ "write" \in Places /\ t \in Threads
      /\ controlword' = controlword /\ UNCHANGED <<statusword, observer, goal, path, plant, frames, made, enableAsked>>
  BY DEF ReadMode, words, ghosts, Places, Threads
<1> QED BY <1>1, <1>2, <1>3, Held DEF IInv, Typed

-----------------------------------------------------------------------------
(* The reader thread, the heartbeat monitor and the drive. *)

\* The observer may be notified.
LEMMA Notified ==
  ASSUME IInv, NotifyObserver \/ UNCHANGED observer
  PROVE  alive' = TRUE /\ call' \in [Controllers -> Calls] /\ \A c \in Controllers : call'[c] # "out" => call[c] # "out"
<1>1. CASE UNCHANGED observer
  BY <1>1 DEF observer, IInv, Typed
<1>2. ASSUME NEW c \in Controllers, Obs!Signal(c, Unwritten)
      PROVE  alive' = TRUE /\ call' \in [Controllers -> Calls] /\ \A u \in Controllers : call'[u] # "out" => call[u] # "out"
  <2>1. /\ alive' = alive /\ call[c] \in {"open", "woken", "expired"}
        /\ call' = [call EXCEPT ![c] = IF call[c] = "open" THEN "woken" ELSE call[c]]
    BY <1>2 DEF Obs!Signal, Obs!HasWindow, IInv, Typed
  <2> QED BY <2>1 DEF IInv, Typed, Calls
<1> QED BY <1>1, <1>2 DEF NotifyObserver

\* A statusword arrives.
LEMMA UpdateKeeps ==
  ASSUME ConstantsFit, IInv, Update
  PROVE  IInv'
<1> DEFINE follows == stateToControlword(parseDriveState(statusword'))
<1>1. /\ toHost # <<>> /\ toHost' = Tail(toHost) /\ statusword' = Head(toHost)
      /\ controlword' = updateStateBits(controlword, follows) \/ controlword' = controlword
      /\ NotifyObserver \/ UNCHANGED observer
      /\ UNCHANGED <<pc, goal, path, pending, drive, resetBit, toDrive, made, enableAsked>>
  BY DEF Update, request, plant, ghosts
<1>2. /\ toHost \in Seq(SUBSET StatusBits) /\ Head(toHost) \in SUBSET StatusBits /\ Head(toHost) = toHost[1]
      /\ Tail(toHost) \in Seq(SUBSET StatusBits) /\ Len(toHost) \in Nat \ {0} /\ Len(toHost') = Len(toHost) - 1
      /\ \A i \in 1..Len(toHost') : toHost'[i] = toHost[i + 1]
  BY <1>1, Shortened DEF IInv, Typed
<1>3. controlword' \in SUBSET ControlBits /\ (3 \in controlword' => 3 \in controlword \/ Enabled(statusword'))
  <2>1. follows \in SUBSET ControlBits /\ (3 \in follows => Enabled(statusword'))
    BY Parsed DEF Enabled
  <2> HIDE DEF follows
  <2>2. controlword \in SUBSET ControlBits
    BY DEF IInv, Typed
  <2> QED BY <1>1, <2>1, <2>2, Updated
<1>4. alive' = TRUE /\ call' \in [Controllers -> Calls] /\ \A c \in Controllers : call'[c] # "out" => call[c] # "out"
  BY <1>1, Notified
<1>5. Typed'
  <2>1. Len(toHost') <= MaxFrames
    BY <1>2 DEF IInv, Typed, ConstantsFit
  <2> QED BY <1>1, <1>2, <1>3, <1>4, <2>1 DEF IInv, Typed
<1>6. Located'
  BY <1>1, <1>4 DEF IInv, Located
<1>7. Unasked => Unasked'
  <2> SUFFICES ASSUME Unasked PROVE Unasked'
    OBVIOUS
  <2>1. ~Enabled(statusword')
    BY <1>1, <1>2 DEF Unasked
  <2>2. ASSUME NEW i \in 1..Len(toHost') PROVE ~Enabled(toHost'[i])
    <3>1. i + 1 \in 1..Len(toHost)
      BY <1>2
    <3> QED BY <1>2, <3>1 DEF Unasked
  <2> QED BY <1>1, <1>3, <2>1, <2>2 DEF Unasked, Enabled
<1>8. Told'
  <2>1. parseDriveState(toHost[Len(toHost)]) = drive
    BY <1>1 DEF IInv, Told
  <2>2. CASE toHost' # <<>>
    <3>1. Len(toHost') \in 1..Len(toHost') /\ Len(toHost') + 1 = Len(toHost)
      BY <1>1, <1>2, <2>2, LenProperties, EmptySeq
    <3> QED BY <1>1, <1>2, <2>1, <2>2, <3>1 DEF Told, BeliefIsTrue
  <2>3. CASE toHost' = <<>>
    <3>1. Len(toHost) = 1
      BY <1>2, <2>3
    <3> QED BY <1>1, <1>2, <2>1, <2>3, <3>1 DEF Told, BeliefIsTrue, currentState
  <2> QED BY <2>2, <2>3
<1> QED BY <1>1, <1>5, <1>6, <1>7, <1>8 DEF IInv, Asked

\* The heartbeat is missed.
LEMMA ResetKeeps ==
  ASSUME ConstantsFit, IInv, Reset
  PROVE  IInv'
<1>1. /\ controlword' = {} /\ statusword' = {}
      /\ UNCHANGED <<alive, call, pc, goal, path, pending, drive, resetBit, toDrive, toHost, made, enableAsked>>
  BY DEF Reset, observer, request, plant, frames, ghosts
<1>2. ~Enabled({})
  BY DEF Enabled, parseDriveState
<1>3. Typed' /\ Located' /\ Told'
  BY <1>1 DEF IInv, Typed, Located, Told, BeliefIsTrue
<1>4. Unasked => Unasked'
  BY <1>1, <1>2 DEF Unasked
<1> QED BY <1>1, <1>3, <1>4 DEF IInv, Asked

\* The drive enters a state, which somebody has asked for if it is the enabled one.
LEMMA EnterKeeps ==
  ASSUME ConstantsFit, IInv, NEW s \in States, Enter(s), toDrive' \in Seq(SUBSET ControlBits), Len(toDrive') <= MaxFrames,
         resetBit' \in BOOLEAN, Unasked => s # "OPERATION_ENABLED" /\ \A i \in 1..Len(toDrive') : 3 \notin toDrive'[i]
  PROVE  IInv'
<1>1. PICK sw \in Statuswords(s) : toHost' = Append(toHost, sw)
  BY DEF Enter
<1>2. sw \in SUBSET StatusBits /\ parseDriveState(sw) = s
  BY Reported
<1>3. /\ Len(toHost) < MaxFrames /\ drive' = s
      /\ made' = [c \in Controllers |-> made[c] \/ (path[c] # <<>> /\ goal[c] = s)]
      /\ UNCHANGED <<controlword, statusword, alive, call, pc, goal, path, pending, enableAsked>>
  BY DEF Enter, words, observer, request
<1>4. /\ toHost' \in Seq(SUBSET StatusBits) /\ Len(toHost) \in Nat /\ Len(toHost') = Len(toHost) + 1 /\ toHost' # <<>>
      /\ toHost'[Len(toHost) + 1] = sw /\ \A i \in 1..Len(toHost) : toHost'[i] = toHost[i]
  BY <1>1, <1>2, Appended DEF IInv, Typed
<1>5. Typed'
  <2>1. Len(toHost') <= MaxFrames
    BY <1>3, <1>4 DEF ConstantsFit
  <2>2. made' \in [Controllers -> BOOLEAN]
    BY <1>3 DEF IInv, Typed
  <2> QED BY <1>3, <1>4, <2>1, <2>2 DEF IInv, Typed
<1>6. Located'
  BY <1>3 DEF IInv, Located
<1>7. Unasked => Unasked'
  <2> SUFFICES ASSUME Unasked PROVE Unasked'
    OBVIOUS
  <2>1. ~Enabled(sw)
    BY <1>2 DEF Enabled
  <2>2. ASSUME NEW i \in 1..Len(toHost') PROVE ~Enabled(toHost'[i])
    <3>1. i \in 1..Len(toHost) \/ i = Len(toHost) + 1
      BY <1>4
    <3> QED BY <1>4, <2>1, <3>1 DEF Unasked
  <2> QED BY <1>3, <2>2 DEF Unasked
<1>8. Told'
  BY <1>2, <1>3, <1>4 DEF Told, BeliefIsTrue
<1> QED BY <1>3, <1>5, <1>6, <1>7, <1>8 DEF IInv, Asked

\* The drive takes a word.
LEMMA DriveTakesWordKeeps ==
  ASSUME ConstantsFit, IInv, DriveTakesWord
  PROVE  IInv'
<1> DEFINE word == Head(toDrive)
           s == DriveNext(drive, word, 7 \in word /\ ~resetBit)
<1>1. /\ toDrive # <<>> /\ toDrive' = Tail(toDrive) /\ resetBit' = (7 \in word)
      /\ \/ s # drive /\ Enter(s)
         \/ s = drive /\ UNCHANGED <<words, observer, request, drive, toHost, ghosts>>
  BY DEF DriveTakesWord
<1>2. /\ word = toDrive[1] /\ toDrive' \in Seq(SUBSET ControlBits) /\ Len(toDrive) \in Nat \ {0}
      /\ Len(toDrive') = Len(toDrive) - 1 /\ \A i \in 1..Len(toDrive') : toDrive'[i] = toDrive[i + 1]
  BY <1>1, Shortened DEF IInv, Typed
<1>3. resetBit' \in BOOLEAN /\ Len(toDrive') <= MaxFrames
  BY <1>1, <1>2 DEF IInv, Typed, ConstantsFit
<1>4. drive \in States
  BY DEF IInv, Typed
<1>5. s \in States /\ (Unasked => s # "OPERATION_ENABLED")
  <2>1. Unasked => 3 \notin word /\ drive # "OPERATION_ENABLED"
    BY <1>2 DEF Unasked
  <2> QED BY <1>4, <2>1, DriveGoes
<1>6. Unasked => \A i \in 1..Len(toDrive') : 3 \notin toDrive'[i]
  <2> SUFFICES ASSUME Unasked, NEW i \in 1..Len(toDrive') PROVE 3 \notin toDrive'[i]
    OBVIOUS
  <2>1. i + 1 \in 1..Len(toDrive)
    BY <1>2
  <2> QED BY <1>2, <2>1 DEF Unasked
<1>7. CASE Enter(s)
  <2> HIDE DEF s, word
  <2> QED BY <1>2, <1>3, <1>5, <1>6, <1>7, EnterKeeps
<1>8. CASE UNCHANGED <<words, observer, request, drive, toHost, ghosts>>
  <2>1. UNCHANGED <<controlword, statusword, alive, call, pc, goal, path, pending, drive, toHost, made, enableAsked>>
    BY <1>8 DEF words, observer, request, ghosts
  <2>2. Typed' /\ Located' /\ Told'
    BY <1>2, <1>3, <2>1 DEF IInv, Typed, Located, Told, BeliefIsTrue, currentState
  <2>3. Unasked => Unasked'
    BY <1>6, <2>1 DEF Unasked
  <2> QED BY <2>1, <2>2, <2>3 DEF IInv, Asked
<1> QED BY <1>1, <1>7, <1>8

\* The drive boots, faults or reports.
LEMMA DriveStepKeeps ==
  ASSUME ConstantsFit, IInv, DriveStep
  PROVE  IInv'
<1>1. ASSUME NEW s \in States, Enter(s), UNCHANGED <<resetBit, toDrive>>, s = drive \/ s # "OPERATION_ENABLED" PROVE IInv'
  <2>1. /\ toDrive' \in Seq(SUBSET ControlBits) /\ Len(toDrive') <= MaxFrames /\ resetBit' \in BOOLEAN
        /\ Unasked => s # "OPERATION_ENABLED" /\ \A i \in 1..Len(toDrive') : 3 \notin toDrive'[i]
    BY <1>1 DEF IInv, Typed, Unasked
  <2> QED BY <1>1, <2>1, EnterKeeps
<1>2. {"SWITCH_ON_DISABLED", "FAULT_REACTION_ACTIVE", "FAULT"} \subseteq States /\ drive \in States
  BY DEF States, IInv, Typed
<1>3. CASE DriveTakesWord
  BY <1>3, DriveTakesWordKeeps
<1>4. CASE DriveBoots
  BY <1>1, <1>2, <1>4 DEF DriveBoots
<1>5. CASE DriveFaults
  BY <1>1, <1>2, <1>5 DEF DriveFaults
<1>6. CASE DriveReports
  BY <1>1, <1>2, <1>6 DEF DriveReports
<1> QED BY <1>3, <1>4, <1>5, <1>6 DEF DriveStep

-----------------------------------------------------------------------------
(* All of them. *)

\* A step of a controller.
LEMMA ControllerKeeps ==
  ASSUME ConstantsFit, IInv, NEW c \in Controllers, ControllerStep(c)
  PROVE  IInv'
<1>1. CASE OpenWindow(c)
  <2>1. /\ call[c] = "waiting" /\ call' = [call EXCEPT ![c] = "open"] /\ alive' = alive /\ "open" \in Calls
        /\ UNCHANGED <<words, request, plant, frames, ghosts>>
    BY <1>1 DEF OpenWindow, Obs!OpenWindow, Calls
  <2> QED BY <2>1, WaitKeeps
<1>2. CASE Expire(c)
  <2>1. /\ call[c] = "open" /\ call' = [call EXCEPT ![c] = "expired"] /\ alive' = alive /\ "expired" \in Calls
        /\ UNCHANGED <<words, request, plant, frames, ghosts>>
    BY <1>2 DEF Expire, Obs!Expire, Calls
  <2> QED BY <2>1, WaitKeeps
<1> QED BY <1>1, <1>2, FindPathKeeps, FindTransitionKeeps, ReadWordKeeps, CheckKeeps, AwakenKeeps, RecheckKeeps,
           ProceedKeeps DEF ControllerStep

\* A call of a controller begins.
LEMMA CallKeeps ==
  ASSUME ConstantsFit, IInv, NEW c \in Controllers, RequestState(c) \/ RequestTransition(c) \/ AwaitState(c)
  PROVE  IInv'
<1>0. <<>> \in Seq(Transitions) /\ {"request", "state", "check"} \subseteq Places \ {"word"}
  BY DEF Places
<1>1. CASE RequestState(c)
  <2>1. PICK g \in Goals : Begin(c, g, <<>>, "request")
    BY <1>1 DEF RequestState
  <2>2. g \in States \cup {"none"}
    BY DEF ConstantsFit
  <2> QED BY <1>0, <2>1, <2>2, BeginKeeps
<1>2. CASE RequestTransition(c)
  <2>1. PICK t \in Singles : Begin(c, "none", <<t>>, "state")
    BY <1>2 DEF RequestTransition
  <2>2. PICK p \in Seq(Transitions) : p = <<t>> /\ p # <<>>
    <3>1. PICK u \in Transitions : u = t
      BY DEF ConstantsFit
    <3>2. <<u>> \in Seq(Transitions) /\ <<u>> # <<>>
      OBVIOUS
    <3> QED BY <3>1, <3>2
  <2> QED BY <1>0, <2>1, <2>2, BeginKeeps
<1>3. CASE AwaitState(c)
  <2>1. PICK g \in Goals : Begin(c, g, <<>>, "check")
    BY <1>3 DEF AwaitState
  <2>2. g \in States \cup {"none"}
    BY DEF ConstantsFit
  <2> QED BY <1>0, <2>1, <2>2, BeginKeeps
<1> QED BY <1>1, <1>2, <1>3

\* Every step keeps the invariant.
LEMMA NextKeeps == ASSUME ConstantsFit, IInv, [Next]_vars PROVE IInv'
<1>1. CASE \E c \in Controllers : RequestState(c) \/ RequestTransition(c) \/ AwaitState(c) \/ ControllerStep(c)
  BY <1>1, CallKeeps, ControllerKeeps
<1>2. CASE \E t \in Threads : ThreadStep(t)
  BY <1>2, WriteKeeps, WriteFailsKeeps, StoreKeeps DEF ThreadStep
<1>3. CASE \E t \in ModeThreads : ReadMode(t)
  BY <1>3, ReadModeKeeps
<1>4. CASE Update \/ Reset \/ DriveStep
  BY <1>4, UpdateKeeps, ResetKeeps, DriveStepKeeps
<1>5. CASE UNCHANGED vars
  <2>1. UNCHANGED <<controlword, statusword, alive, call, pc, goal, path, pending, drive, resetBit, toDrive, toHost,
                    made, enableAsked>>
    BY <1>5 DEF vars, words, observer, request, plant, frames, ghosts
  <2> QED BY <2>1 DEF IInv, Typed, Located, Asked, Unasked, Told, BeliefIsTrue, currentState
<1> QED BY <1>1, <1>2, <1>3, <1>4, <1>5 DEF Next

\* So it holds always.
LEMMA Inductive == ASSUME ConstantsFit PROVE Spec => []IInv
<1>1. Init => IInv
  BY InitIInv
<1>2. IInv /\ [Next]_vars => IInv'
  BY NextKeeps
<1> QED BY <1>1, <1>2, PTL DEF Spec

-----------------------------------------------------------------------------
\* The type invariant of the state machine, its callers, the observer and the drive.
THEOREM MachineTyped == ASSUME ConstantsFit PROVE Spec => []TypeOK
<1>1. IInv => TypeOK
  <2> SUFFICES ASSUME IInv PROVE TypeOK
    OBVIOUS
  <2>1. \A c \in Controllers : Obs!HasWindow(c) => pc[c] = "await"
    BY DEF IInv, Located, Obs!HasWindow
  <2> QED BY <2>1 DEF IInv, Typed, TypeOK
<1> QED BY <1>1, Inductive, PTL

\* Whatever words are read, changed, sent and stored in whatever order, by however
\* many threads, and whatever statuswords arrive late: a drive is enabled only after
\* some call has gone for ENABLE_OPERATION.
THEOREM NotEnabledUnasked == ASSUME ConstantsFit PROVE Spec => []NeverEnabledUnasked
<1>1. IInv => NeverEnabledUnasked
  BY DEF IInv, Asked, Unasked, NeverEnabledUnasked
<1> QED BY <1>1, Inductive, PTL

\* With no statusword under way the program believes what is the case.
THEOREM BeliefHolds == ASSUME ConstantsFit PROVE Spec => []BeliefIsTrue
<1>1. IInv => BeliefIsTrue
  BY DEF IInv, Told
<1> QED BY <1>1, Inductive, PTL

\* The words parsed as a state are those that report it.
LEMMA ParsedIsReported == StatesAreReported
<1> SUFFICES ASSUME NEW sw \in SUBSET StatusBits, parseDriveState(sw) # "NOT_READY_TO_SWITCH_ON"
             PROVE  sw \in Statuswords(parseDriveState(sw))
  BY DEF StatesAreReported
<1> DEFINE m == sw \cap {0, 1, 2, 3, 6}
           n == sw \cap {0, 1, 2, 3, 5, 6}
<1>1. n = sw /\ (sw = m \/ sw = m \cup {5})
  BY DEF StatusBits
<1> HIDE DEF m, n
<1>2. \/ m = {6} /\ parseDriveState(sw) = "SWITCH_ON_DISABLED"
      \/ n = {0, 5} /\ parseDriveState(sw) = "READY_TO_SWITCH_ON"
      \/ n = {0, 1, 5} /\ parseDriveState(sw) = "SWITCHED_ON"
      \/ n = {0, 1, 2, 5} /\ parseDriveState(sw) = "OPERATION_ENABLED"
      \/ n = {0, 1, 2} /\ parseDriveState(sw) = "QUICK_STOP_ACTIVE"
      \/ m = {0, 1, 2, 3} /\ parseDriveState(sw) = "FAULT_REACTION_ACTIVE"
      \/ m = {3} /\ parseDriveState(sw) = "FAULT"
  BY DEF parseDriveState, m, n
<1> QED BY <1>1, <1>2 DEF Statuswords

\* What the drive makes of a transition the table holds is what the table says, and
\* it makes no other.
LEMMA DriveObeysTable ==
  ASSUME NEW s \in States, NEW w, NEW t \in Transitions
  PROVE  LET to == DriveNext(s, updateStateBits(w, t), t = FAULT_RESET) IN
         /\ \A e \in nextStateOnTransition : e[1] = s /\ e[2] = t => to = e[3]
         /\ to # s => \E e \in nextStateOnTransition : e[1] = s /\ e[3] = to
<1> DEFINE c == Command(updateStateBits(w, t))
           to == DriveNext(s, updateStateBits(w, t), t = FAULT_RESET)
<1>1. c = IF t = FAULT_RESET THEN DISABLE_VOLTAGE ELSE t
  BY CommandOfTransition
<1>2. /\ SHUTDOWN # SWITCH_ON /\ SHUTDOWN # DISABLE_VOLTAGE /\ SHUTDOWN # QUICK_STOP /\ SHUTDOWN # ENABLE_OPERATION
      /\ SWITCH_ON # DISABLE_VOLTAGE /\ SWITCH_ON # QUICK_STOP /\ SWITCH_ON # ENABLE_OPERATION
      /\ DISABLE_VOLTAGE # QUICK_STOP /\ DISABLE_VOLTAGE # ENABLE_OPERATION /\ QUICK_STOP # ENABLE_OPERATION
      /\ FAULT_RESET \notin {SHUTDOWN, SWITCH_ON, DISABLE_VOLTAGE, QUICK_STOP, ENABLE_OPERATION}
  BY DEF SHUTDOWN, SWITCH_ON, DISABLE_VOLTAGE, QUICK_STOP, ENABLE_OPERATION, FAULT_RESET
<1>3. t \in {SHUTDOWN, SWITCH_ON, DISABLE_VOLTAGE, QUICK_STOP, ENABLE_OPERATION, FAULT_RESET}
  BY DEF Transitions
<1>4. ASSUME NEW e \in nextStateOnTransition, e[1] = s, e[2] = t PROVE to = e[3]
  BY <1>1, <1>2, <1>3, <1>4 DEF nextStateOnTransition, DISABLE_OPERATION, DriveNext
<1>5. ASSUME to # s PROVE \E e \in nextStateOnTransition : e[1] = s /\ e[3] = to
  <2>1. <<s, to>> \in {<<"FAULT", "SWITCH_ON_DISABLED">>, <<"SWITCH_ON_DISABLED", "READY_TO_SWITCH_ON">>,
          <<"READY_TO_SWITCH_ON", "SWITCHED_ON">>, <<"READY_TO_SWITCH_ON", "SWITCH_ON_DISABLED">>,
          <<"SWITCHED_ON", "SWITCH_ON_DISABLED">>, <<"SWITCHED_ON", "OPERATION_ENABLED">>,
          <<"QUICK_STOP_ACTIVE", "OPERATION_ENABLED">>, <<"SWITCHED_ON", "READY_TO_SWITCH_ON">>,
          <<"OPERATION_ENABLED", "READY_TO_SWITCH_ON">>, <<"OPERATION_ENABLED", "SWITCHED_ON">>,
          <<"OPERATION_ENABLED", "QUICK_STOP_ACTIVE">>, <<"OPERATION_ENABLED", "SWITCH_ON_DISABLED">>,
          <<"QUICK_STOP_ACTIVE", "SWITCH_ON_DISABLED">>}
    BY <1>5 DEF DriveNext
  <2> QED BY <2>1 DEF nextStateOnTransition
<1> QED BY <1>4, <1>5

\* A function that is defined by its earlier values is the one that has them, where
\* such a function is known.
LEMMA ReachedIs ==
  ASSUME NEW s, NEW p, NEW g, NEW n \in Nat, Len(p) = n,
         g = [k \in 0..n |-> IF k = 0 THEN s ELSE Follow(g[k - 1], p[k])]
  PROVE  \E f : f = [k \in 0..n |-> IF k = 0 THEN s ELSE Follow(f[k - 1], p[k])] /\ Reached(s, p) = f[n]
<1> DEFINE f == CHOOSE h : h = [k \in 0..n |-> IF k = 0 THEN s ELSE Follow(h[k - 1], p[k])]
<1>1. f = [k \in 0..n |-> IF k = 0 THEN s ELSE Follow(f[k - 1], p[k])]
  OBVIOUS
<1>2. Reached(s, p) = f[n]
  BY DEF Reached
<1> HIDE DEF f
<1> QED BY <1>1, <1>2

\* Sequences of at most three transitions, one by one.
LEMMA Unrolled ==
  ASSUME NEW s, NEW p
  PROVE  /\ Len(p) = 0 => Reached(s, p) = s
         /\ Len(p) = 1 => Reached(s, p) = Follow(s, p[1])
         /\ Len(p) = 2 => Reached(s, p) = Follow(Follow(s, p[1]), p[2])
         /\ Len(p) = 3 => Reached(s, p) = Follow(Follow(Follow(s, p[1]), p[2]), p[3])
<1> DEFINE a == Follow(s, p[1])
           b == Follow(a, p[2])
           c == Follow(b, p[3])
           g(n) == [k \in 0..n |-> IF k = 0 THEN s ELSE IF k = 1 THEN a ELSE IF k = 2 THEN b ELSE c]
<1>1. ASSUME NEW n \in 0..3 PROVE g(n) = [k \in 0..n |-> IF k = 0 THEN s ELSE Follow(g(n)[k - 1], p[k])]
  <2>1. ASSUME NEW k \in 0..n PROVE g(n)[k] = IF k = 0 THEN s ELSE Follow(g(n)[k - 1], p[k])
    <3>1. CASE k = 0
      BY <3>1
    <3>2. CASE k = 1
      <4>1. g(n)[k - 1] = s /\ g(n)[k] = a
        BY <3>2
      <4> QED BY <3>2, <4>1
    <3>3. CASE k = 2
      <4>1. g(n)[k - 1] = a /\ g(n)[k] = b
        BY <3>3
      <4> QED BY <3>3, <4>1
    <3>4. CASE k = 3
      <4>1. g(n)[k - 1] = b /\ g(n)[k] = c
        BY <3>4
      <4> QED BY <3>4, <4>1
    <3> QED BY <3>1, <3>2, <3>3, <3>4
  <2> QED BY <2>1
<1>2. ASSUME NEW n \in 0..3, Len(p) = n
      PROVE  \E f : f = [k \in 0..n |-> IF k = 0 THEN s ELSE Follow(f[k - 1], p[k])] /\ Reached(s, p) = f[n]
  <2> DEFINE h == g(n)
  <2>1. h = [k \in 0..n |-> IF k = 0 THEN s ELSE Follow(h[k - 1], p[k])]
    BY <1>1
  <2> HIDE DEF h
  <2> QED BY <1>2, <2>1, ReachedIs
<1> HIDE DEF g
<1>3. ASSUME Len(p) = 0 PROVE Reached(s, p) = s
  BY <1>2, <1>3
<1>4. ASSUME Len(p) = 1 PROVE Reached(s, p) = a
  <2>1. PICK f : f = [k \in 0..1 |-> IF k = 0 THEN s ELSE Follow(f[k - 1], p[k])] /\ Reached(s, p) = f[1]
    BY <1>2, <1>4
  <2>2. f[0] = s
    BY <2>1
  <2>3. f[1] = Follow(f[0], p[1])
    BY <2>1
  <2> QED BY <2>1, <2>2, <2>3
<1>5. ASSUME Len(p) = 2 PROVE Reached(s, p) = b
  <2>1. PICK f : f = [k \in 0..2 |-> IF k = 0 THEN s ELSE Follow(f[k - 1], p[k])] /\ Reached(s, p) = f[2]
    BY <1>2, <1>5
  <2>2. f[0] = s
    BY <2>1
  <2>3. f[1] = Follow(f[0], p[1])
    BY <2>1
  <2>4. f[2] = Follow(f[1], p[2])
    BY <2>1
  <2> QED BY <2>1, <2>2, <2>3, <2>4
<1>6. ASSUME Len(p) = 3 PROVE Reached(s, p) = c
  <2>1. PICK f : f = [k \in 0..3 |-> IF k = 0 THEN s ELSE Follow(f[k - 1], p[k])] /\ Reached(s, p) = f[3]
    BY <1>2, <1>6
  <2>2. f[0] = s
    BY <2>1
  <2>3. f[1] = Follow(f[0], p[1])
    BY <2>1
  <2>4. f[2] = Follow(f[1], p[2])
    BY <2>1
  <2>5. f[3] = Follow(f[2], p[3])
    BY <2>1
  <2> QED BY <2>1, <2>2, <2>3, <2>4, <2>5
<1> QED BY <1>3, <1>4, <1>5, <1>6

\* A transition the table holds leads where it says.
LEMMA FollowsTable == ASSUME NEW e \in nextStateOnTransition PROVE Follow(e[1], e[2]) = e[3]
<1>1. HasNext(e[1], e[2])
  BY DEF HasNext
<1>2. PICK x \in nextStateOnTransition : x[1] = e[1] /\ x[2] = e[2] /\ NextState(e[1], e[2]) = x[3]
  BY <1>1, Follows
<1>3. e[1] \in States /\ e[2] \in Transitions
  BY Tabled
<1>4. x[3] = e[3]
  BY <1>2, <1>3, DriveObeysTable
<1> QED BY <1>1, <1>2, <1>4 DEF Follow

\* From where more than one transition is needed, it does not lead farther.
LEMMA OneAtATime ==
  ASSUME NEW t
  PROVE  /\ Follow("SWITCH_ON_DISABLED", t) \in {"READY_TO_SWITCH_ON", "nowhere"}
         /\ Follow("READY_TO_SWITCH_ON", t) \in {"SWITCHED_ON", "SWITCH_ON_DISABLED", "nowhere"}
         /\ Follow("nowhere", t) = "nowhere"
<1>1. ASSUME NEW s, HasNext(s, t) PROVE <<s, NextState(s, t)>> \in {<<e[1], e[3]>> : e \in nextStateOnTransition}
  BY <1>1, Follows
<1>2. \A e \in nextStateOnTransition :
        /\ e[1] = "SWITCH_ON_DISABLED" => e[3] = "READY_TO_SWITCH_ON"
        /\ e[1] = "READY_TO_SWITCH_ON" => e[3] \in {"SWITCHED_ON", "SWITCH_ON_DISABLED"}
        /\ e[1] # "nowhere"
  BY DEF nextStateOnTransition
<1> QED BY <1>1, <1>2 DEF Follow

LEMMA PathsShortest ==
  ASSUME NEW p \in shortestPaths
  PROVE  /\ Reached(p[1], p[3]) = p[2]
         /\ \A n \in 0..(Len(p[3]) - 1) : \A q \in [1..n -> Transitions] : Reached(p[1], q) # p[2]
<1> DEFINE s == p[1]
           w == p[3]
<1>1. /\ Len(w) \in 1..3
      /\ Len(w) = 1 => <<s, w[1], p[2]>> \in nextStateOnTransition
      /\ Len(w) = 2 => \E m : <<s, w[1], m>> \in nextStateOnTransition /\ <<m, w[2], p[2]>> \in nextStateOnTransition
      /\ Len(w) = 3 => \E m, l : /\ <<s, w[1], m>> \in nextStateOnTransition
                                 /\ <<m, w[2], l>> \in nextStateOnTransition
                                 /\ <<l, w[3], p[2]>> \in nextStateOnTransition
  BY DEF shortestPaths, nextStateOnTransition
<1>2. /\ s # p[2]
      /\ Len(w) >= 2 => <<s, p[2]>> \in {<<"SWITCH_ON_DISABLED", "SWITCHED_ON">>,
                                         <<"SWITCH_ON_DISABLED", "OPERATION_ENABLED">>,
                                         <<"READY_TO_SWITCH_ON", "OPERATION_ENABLED">>}
      /\ Len(w) = 3 => <<s, p[2]>> = <<"SWITCH_ON_DISABLED", "OPERATION_ENABLED">>
  BY DEF shortestPaths
<1> HIDE DEF s, w
<1>3. Reached(s, w) = p[2]
  <2> DEFINE Leads(a, t, b) == Follow(a, t) = b
  <2>1. \A a, t, b : <<a, t, b>> \in nextStateOnTransition => Leads(a, t, b)
    BY FollowsTable
  <2>2. CASE Len(w) = 1
    BY <1>1, <2>1, <2>2, Unrolled
  <2>3. CASE Len(w) = 2
    <3>1. PICK m : <<s, w[1], m>> \in nextStateOnTransition /\ <<m, w[2], p[2]>> \in nextStateOnTransition
      BY <1>1, <2>3
    <3>2. Follow(s, w[1]) = m /\ Follow(m, w[2]) = p[2]
      BY <2>1, <3>1
    <3> QED BY <2>3, <3>2, Unrolled
  <2>4. CASE Len(w) = 3
    <3>1. PICK m, l : /\ <<s, w[1], m>> \in nextStateOnTransition
                     /\ <<m, w[2], l>> \in nextStateOnTransition
                     /\ <<l, w[3], p[2]>> \in nextStateOnTransition
      BY <1>1, <2>4
    <3>2. Follow(s, w[1]) = m /\ Follow(m, w[2]) = l /\ Follow(l, w[3]) = p[2]
      BY <2>1, <3>1
    <3> QED BY <2>4, <3>2, Unrolled
  <2> QED BY <1>1, <2>2, <2>3, <2>4
<1>4. ASSUME NEW n \in 0..(Len(w) - 1), NEW q \in [1..n -> Transitions] PROVE Reached(s, q) # p[2]
  <2>1. n \in 0..2 /\ n < Len(w)
    <3>1. Len(w) \in 1..3
      BY <1>1
    <3> DEFINE l == Len(w)
    <3>2. n \in 0..(l - 1) /\ l \in 1..3
      BY <3>1
    <3> HIDE DEF l
    <3>3. n \in 0..2 /\ n < l
      BY <3>2
    <3> QED BY <3>3 DEF l
  <2>5. Len(q) = n
    <3>1. q \in Seq(Transitions)
      BY <2>1
    <3> QED BY <2>1, <3>1, LenProperties
  <2>2. CASE n = 0
    BY <1>2, <2>5, <2>2, Unrolled
  <2>3. CASE n = 1
    BY <1>1, <1>2, <2>1, <2>5, <2>3, Unrolled, OneAtATime
  <2>4. CASE n = 2
    <3>1. s = "SWITCH_ON_DISABLED" /\ p[2] = "OPERATION_ENABLED"
      BY <1>1, <1>2, <2>1, <2>4
    <3>2. Follow(s, q[1]) \in {"READY_TO_SWITCH_ON", "nowhere"}
      BY <3>1, OneAtATime
    <3>3. Follow(Follow(s, q[1]), q[2]) # "OPERATION_ENABLED"
      BY <3>2, OneAtATime
    <3> QED BY <2>5, <2>4, <3>1, <3>3, Unrolled
  <2> QED BY <2>1, <2>2, <2>3, <2>4
<1> QED BY <1>3, <1>4 DEF s, w

\* What the program believes of the drive is so: its state, once no word is on its
\* way; what it does on a transition, in whatever state it is and whatever other bits
\* the stored word has; and the paths lead to their goals, no sequence does sooner.
THEOREM TablesHold == ASSUME ConstantsFit PROVE Spec => []TablesMatchDrive
<1>1. ASSUME IInv PROVE TransitionsAreDrives
  <2>1. drive \in States
    BY <1>1 DEF IInv, Typed
  <2>2. ASSUME NEW e \in nextStateOnTransition PROVE e[2] \in Transitions
    BY <2>2 DEF nextStateOnTransition, Transitions, DISABLE_OPERATION
  <2> QED BY <2>1, <2>2, DriveObeysTable DEF TransitionsAreDrives
<1>2. IInv => BeliefIsTrue
  BY DEF IInv, Told
<1>3. PathsAreShortest
  BY PathsShortest DEF PathsAreShortest
<1>4. IInv => TablesMatchDrive
  BY <1>1, <1>2, <1>3, ParsedIsReported DEF TablesMatchDrive
<1> QED BY <1>4, Inductive, PTL
=============================================================================
