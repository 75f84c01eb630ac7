------------------------------- MODULE Cia402 -------------------------------
(***************************************************************************)
(* The tables of libraries/CanOpenNodeLib/DriveStatusMachine.cpp, and the  *)
(* drive they are about. The drive is external: CiA 402 as the statusword  *)
(* and controlword patterns quoted in the source describe it.              *)
(*                                                                         *)
(* A word is the set of its bits that are 1.                               *)
(***************************************************************************)
EXTENDS Integers, Sequences

States == {"NOT_READY_TO_SWITCH_ON", "SWITCH_ON_DISABLED", "READY_TO_SWITCH_ON",
           "SWITCHED_ON", "OPERATION_ENABLED", "QUICK_STOP_ACTIVE",
           "FAULT_REACTION_ACTIVE", "FAULT"}

Powered == {"SWITCHED_ON", "OPERATION_ENABLED", "QUICK_STOP_ACTIVE"}

\* The values of enum DriveTransition, as the bits they set.
SHUTDOWN == {1, 2}
SWITCH_ON == {0, 1, 2}
DISABLE_VOLTAGE == {}
QUICK_STOP == {1}
ENABLE_OPERATION == {0, 1, 2, 3}
FAULT_RESET == {7}
DISABLE_OPERATION == SWITCH_ON
Transitions == {SHUTDOWN, SWITCH_ON, DISABLE_VOLTAGE, QUICK_STOP, ENABLE_OPERATION, FAULT_RESET}

ControlBits == {0, 1, 2, 3, 4, 7}  \* 4 stands for the mode-specific bits
StatusBits == {0, 1, 2, 3, 5, 6}

-----------------------------------------------------------------------------
(* The tables of the program. *)

parseDriveState(sw) ==
  CASE sw \cap {0, 1, 2, 3, 6} = {6}            -> "SWITCH_ON_DISABLED"
    [] sw \cap {0, 1, 2, 3, 5, 6} = {0, 5}       -> "READY_TO_SWITCH_ON"
    [] sw \cap {0, 1, 2, 3, 5, 6} = {0, 1, 5}    -> "SWITCHED_ON"
    [] sw \cap {0, 1, 2, 3, 5, 6} = {0, 1, 2, 5} -> "OPERATION_ENABLED"
    [] sw \cap {0, 1, 2, 3, 5, 6} = {0, 1, 2}    -> "QUICK_STOP_ACTIVE"
    [] sw \cap {0, 1, 2, 3, 6} = {0, 1, 2, 3}    -> "FAULT_REACTION_ACTIVE"
    [] sw \cap {0, 1, 2, 3, 6} = {3}             -> "FAULT"
    [] OTHER -> "NOT_READY_TO_SWITCH_ON"  \* also: assume drive is dead

\* The state bits of the stored word give way to the requested ones.
updateStateBits(stored, requested) == (stored \ {0, 1, 2, 3, 7}) \cup requested

\* Mutation: the word for the next state of the chain.
StateToControlwordEager(s) ==
  CASE s = "READY_TO_SWITCH_ON" -> SWITCH_ON
    [] s \in {"SWITCHED_ON", "OPERATION_ENABLED"} -> ENABLE_OPERATION
    [] s = "QUICK_STOP_ACTIVE"  -> QUICK_STOP
    [] OTHER -> DISABLE_VOLTAGE
stateToControlword(s) ==
  CASE s = "READY_TO_SWITCH_ON" -> SHUTDOWN
    [] s = "SWITCHED_ON"        -> SWITCH_ON
    [] s = "OPERATION_ENABLED"  -> ENABLE_OPERATION
    [] s = "QUICK_STOP_ACTIVE"  -> QUICK_STOP
    [] OTHER -> DISABLE_VOLTAGE

\* <<from, transition, to>>
nextStateOnTransition ==
  {<<"SWITCH_ON_DISABLED", SHUTDOWN, "READY_TO_SWITCH_ON">>,
   <<"READY_TO_SWITCH_ON", SWITCH_ON, "SWITCHED_ON">>,
   <<"SWITCHED_ON", ENABLE_OPERATION, "OPERATION_ENABLED">>,
   <<"OPERATION_ENABLED", DISABLE_OPERATION, "SWITCHED_ON">>,
   <<"SWITCHED_ON", SHUTDOWN, "READY_TO_SWITCH_ON">>,
   <<"READY_TO_SWITCH_ON", DISABLE_VOLTAGE, "SWITCH_ON_DISABLED">>,
   <<"OPERATION_ENABLED", SHUTDOWN, "READY_TO_SWITCH_ON">>,
   <<"OPERATION_ENABLED", DISABLE_VOLTAGE, "SWITCH_ON_DISABLED">>,
   <<"SWITCHED_ON", DISABLE_VOLTAGE, "SWITCH_ON_DISABLED">>,
   <<"OPERATION_ENABLED", QUICK_STOP, "QUICK_STOP_ACTIVE">>,
   <<"QUICK_STOP_ACTIVE", DISABLE_VOLTAGE, "SWITCH_ON_DISABLED">>,
   <<"FAULT", FAULT_RESET, "SWITCH_ON_DISABLED">>,
   <<"QUICK_STOP_ACTIVE", ENABLE_OPERATION, "OPERATION_ENABLED">>}

\* Mutation: a detour that ends in the right state.
PathsWithDetour ==
  {<<"SWITCH_ON_DISABLED", "READY_TO_SWITCH_ON", <<SHUTDOWN, SWITCH_ON, SHUTDOWN>>>>}
\* <<from, goal, transitions>>
shortestPaths ==
  {<<"SWITCH_ON_DISABLED", "READY_TO_SWITCH_ON", <<SHUTDOWN>>>>,
   <<"SWITCH_ON_DISABLED", "SWITCHED_ON", <<SHUTDOWN, SWITCH_ON>>>>,
   <<"SWITCH_ON_DISABLED", "OPERATION_ENABLED", <<SHUTDOWN, SWITCH_ON, ENABLE_OPERATION>>>>,
   <<"READY_TO_SWITCH_ON", "SWITCHED_ON", <<SWITCH_ON>>>>,
   <<"READY_TO_SWITCH_ON", "OPERATION_ENABLED", <<SWITCH_ON, ENABLE_OPERATION>>>>,
   <<"SWITCHED_ON", "OPERATION_ENABLED", <<ENABLE_OPERATION>>>>,
   <<"OPERATION_ENABLED", "SWITCHED_ON", <<DISABLE_OPERATION>>>>,
   <<"OPERATION_ENABLED", "READY_TO_SWITCH_ON", <<SHUTDOWN>>>>,
   <<"OPERATION_ENABLED", "SWITCH_ON_DISABLED", <<DISABLE_VOLTAGE>>>>,
   <<"SWITCHED_ON", "READY_TO_SWITCH_ON", <<SHUTDOWN>>>>,
   <<"SWITCHED_ON", "SWITCH_ON_DISABLED", <<DISABLE_VOLTAGE>>>>,
   <<"READY_TO_SWITCH_ON", "SWITCH_ON_DISABLED", <<DISABLE_VOLTAGE>>>>,
   <<"QUICK_STOP_ACTIVE", "SWITCH_ON_DISABLED", <<DISABLE_VOLTAGE>>>>}

HasNext(s, t) == \E e \in nextStateOnTransition : e[1] = s /\ e[2] = t
NextState(s, t) == (CHOOSE e \in nextStateOnTransition : e[1] = s /\ e[2] = t)[3]

-----------------------------------------------------------------------------
(* The drive, external: CiA 402 as seen from its controlword. *)

Command(word) == CASE 1 \notin word -> DISABLE_VOLTAGE
                   [] word \cap {1, 2} = {1} -> QUICK_STOP
                   [] word \cap {0, 1, 2} = {1, 2} -> SHUTDOWN
                   [] word \cap {0, 1, 2, 3} = {0, 1, 2} -> SWITCH_ON
                   [] OTHER -> ENABLE_OPERATION

\* Where a word takes the drive; the fault reset needs a rising edge of bit 7.
DriveNext(s, word, edge) ==
  LET c == Command(word) IN
  CASE s = "FAULT" /\ edge -> "SWITCH_ON_DISABLED"
    [] s = "SWITCH_ON_DISABLED" /\ c = SHUTDOWN -> "READY_TO_SWITCH_ON"
    [] s = "READY_TO_SWITCH_ON" /\ c \in {SWITCH_ON, ENABLE_OPERATION} -> "SWITCHED_ON"
    [] s \in {"READY_TO_SWITCH_ON", "SWITCHED_ON"} /\ c \in {DISABLE_VOLTAGE, QUICK_STOP} -> "SWITCH_ON_DISABLED"
    [] s \in {"SWITCHED_ON", "QUICK_STOP_ACTIVE"} /\ c = ENABLE_OPERATION -> "OPERATION_ENABLED"
    [] s \in {"SWITCHED_ON", "OPERATION_ENABLED"} /\ c = SHUTDOWN -> "READY_TO_SWITCH_ON"
    [] s = "OPERATION_ENABLED" /\ c = SWITCH_ON -> "SWITCHED_ON"
    [] s = "OPERATION_ENABLED" /\ c = QUICK_STOP -> "QUICK_STOP_ACTIVE"
    [] s \in {"OPERATION_ENABLED", "QUICK_STOP_ACTIVE"} /\ c = DISABLE_VOLTAGE -> "SWITCH_ON_DISABLED"
    [] OTHER -> s

\* The statuswords of a drive in a state; the bits of a fault or of a drive
\* that is not ready leave bit 5 free, switch on disabled does too.
Statuswords(s) ==
  CASE s = "NOT_READY_TO_SWITCH_ON" -> {{}, {5}}
    [] s = "SWITCH_ON_DISABLED"     -> {{6}, {5, 6}}
    [] s = "READY_TO_SWITCH_ON"     -> {{0, 5}}
    [] s = "SWITCHED_ON"            -> {{0, 1, 5}}
    [] s = "OPERATION_ENABLED"      -> {{0, 1, 2, 5}}
    [] s = "QUICK_STOP_ACTIVE"      -> {{0, 1, 2}}
    [] s = "FAULT_REACTION_ACTIVE"  -> {{0, 1, 2, 3}, {0, 1, 2, 3, 5}}
    [] s = "FAULT"                  -> {{3}, {3, 5}}

-----------------------------------------------------------------------------
\* Where a transition, or a sequence of them, leads through the table.
Follow(s, t) == IF HasNext(s, t) THEN NextState(s, t) ELSE "nowhere"
Reached(from, path) ==
  LET after[k \in 0..Len(path)] == IF k = 0 THEN from ELSE Follow(after[k - 1], path[k])
  IN  after[Len(path)]
=============================================================================
