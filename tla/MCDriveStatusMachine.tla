------------------------- MODULE MCDriveStatusMachine -------------------------
(* The goals are the ends of the chain the controllers of this repository ask
   for, the single transitions the two that requestState does not know. *)
EXTENDS DriveStatusMachine, TLC

AllGoals == {"SWITCH_ON_DISABLED", "SWITCHED_ON", "OPERATION_ENABLED"}
AllSingles == {QUICK_STOP, FAULT_RESET}
=============================================================================
