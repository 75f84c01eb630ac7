---------------------------- MODULE AnalogSensors ----------------------------
(***************************************************************************)
(* Four devices that are read, each in its own way: PhidgetSpatial, whose   *)
(* handler stores packets of three vectors while a reader copies them;      *)
(* LeapMotionSensor, which follows one hand; SpaceNavigator, which takes    *)
(* one event per reading and forgets motion after some readings without     *)
(* any; Jr3, which asks a driver for four channels.                         *)
(*                                                                         *)
(* One device is chosen in the beginning. Its members are in m, what is     *)
(* outside of it (packets, hands, the mouse) in world. Packets are told      *)
(* apart by their number, of forces only which channels are up to date is   *)
(* known. getState, getChannels and calibrations that do nothing are Ask.   *)
(***************************************************************************)
EXTENDS Integers, Sequences

CONSTANTS Devices,
          Hands,     \* at most three
          MaxNoData, \* MAX_NO_DATA_ITERATIONS, 10 in the code
          MaxWorld,  \* bound: things that happen outside
          MaxReads   \* bound: readings

VARIABLES device, phase, m, world, happened, reads, reading,
          before,    \* ghost: the reading before the last
          idle       \* ghost: readings in a row that found no event

vars == <<device, phase, m, world, happened, reads, reading, before, idle>>

Nothing == [ok |-> FALSE]
Unset == 0
NoHand == "invalid"
Channels == 0..3
\* The channels for which a request to the driver of Jr3 succeeds.
Answers == {Channels, {3}, Channels \ {3}}
Parts == {"acceleration", "angularRate", "magneticField"}

Members(d) ==
  CASE d = "phidget" -> [semaphore |-> "free", handler |-> {}, reader |-> {}, data |-> [p \in Parts |-> Unset],
                         copy |-> [p \in Parts |-> Unset]]
    [] d = "leap" -> [currentHandId |-> NoHand, lastValidSize |-> 6]
    [] d = "navigator" -> [motion |-> 0, button |-> FALSE, noDataCounter |-> 0]
    [] d = "jr3" -> [scaled |-> {}, zeroed |-> {}, recent |-> {}]

Init ==
  /\ device \in Devices /\ phase = "new" /\ m = Members(device)
  /\ world = CASE device = "leap" -> <<>> [] device = "navigator" -> <<>> [] OTHER -> 1
  /\ happened = 0 /\ reads = 0 /\ reading = Nothing /\ before = Nothing /\ idle = 0

\* open fails when the device is not there (LeapMotionSensor asks ten times). Jr3 sets,
\* reads and zeroes its channels without a look at what the driver answers.
open ==
  /\ phase = "new" /\ phase' \in {"open", "failed"}
  /\ IF device = "jr3" /\ phase' = "open"
     THEN \E good \in Answers : m' = [m EXCEPT !.scaled = good, !.zeroed = good]
     ELSE UNCHANGED m
  /\ UNCHANGED <<device, world, happened, reads, reading, before, idle>>

close ==
  /\ phase \in {"open", "failed"} /\ phase' = "closed"
  /\ UNCHANGED <<device, m, world, happened, reads, reading, before, idle>>

Ask == phase = "open" /\ UNCHANGED vars

Over == phase = "closed" /\ UNCHANGED vars

Reads(d) == device = d /\ phase = "open" /\ reads < MaxReads
Shows(r) == reading' = r /\ before' = (IF device = "leap" THEN reading ELSE Nothing) /\ reads' = reads + 1
Happens(d) == device = d /\ happened < MaxWorld /\ happened' = happened + 1

-----------------------------------------------------------------------------
(* PhidgetSpatial *)

\* SpatialDataHandler: a packet, part by part, under the semaphore ...
HandlerWaits ==
  /\ Happens("phidget") /\ phase # "new" /\ m.semaphore = "free"
  /\ world' = world + 1 /\ m' = [m EXCEPT !.semaphore = "handler", !.handler = Parts]
  /\ UNCHANGED <<device, phase, reads, reading, before, idle>>
HandlerStores ==
  /\ device = "phidget" /\ m.handler # {}
  /\ \E p \in m.handler : m' = [m EXCEPT !.data[p] = world - 1, !.handler = @ \ {p},
                                         !.semaphore = IF m.handler = {p} THEN "free" ELSE @]
  /\ UNCHANGED <<device, phase, world, happened, reads, reading, before, idle>>

\* ... and read, likewise.
ReadWaits ==
  /\ Reads("phidget") /\ m.semaphore = "free" /\ m.reader = {}
  /\ m' = [m EXCEPT !.semaphore = "reader", !.reader = Parts]
  /\ UNCHANGED <<device, phase, world, happened, reads, reading, before, idle>>
ReadCopies ==
  /\ device = "phidget" /\ m.reader # {}
  /\ \E p \in m.reader :
       /\ m' = [m EXCEPT !.copy[p] = m.data[p], !.reader = @ \ {p},
                         !.semaphore = IF m.reader = {p} THEN "free" ELSE @]
       /\ IF m.reader = {p} THEN Shows([ok |-> TRUE, data |-> m'.copy]) ELSE UNCHANGED <<reads, reading, before>>
  /\ UNCHANGED <<device, phase, world, happened, idle>>

-----------------------------------------------------------------------------
(* LeapMotionSensor: the hands in sight, in some order *)

HandsMove ==
  /\ Happens("leap")
  /\ \E hs \in {<<>>} \cup {<<h>> : h \in Hands} \cup {<<g, h>> : g, h \in Hands} :
       (Len(hs) = 2 => hs[1] # hs[2]) /\ world' = hs
  /\ UNCHANGED <<device, phase, m, reads, reading, before, idle>>

\* The hand it follows or, if it follows none, the first; when that one is not there what
\* was valid last, of six elements if nothing ever was. One thread reads.
readLeap ==
  /\ Reads("leap")
  /\ LET inSight == {world[i] : i \in 1..Len(world)}
         hand == IF m.currentHandId # NoHand THEN m.currentHandId ELSE IF world = <<>> THEN NoHand ELSE world[1]
     IN  IF hand \in inSight
         THEN /\ m' = [currentHandId |-> hand, lastValidSize |-> 8]
              /\ Shows([ok |-> TRUE, hand |-> hand, size |-> 8])
         ELSE /\ m' = [m EXCEPT !.currentHandId = NoHand]
              /\ Shows([ok |-> TRUE, hand |-> NoHand, size |-> m.lastValidSize])
  /\ UNCHANGED <<device, phase, world, happened, idle>>

-----------------------------------------------------------------------------
(* SpaceNavigator: a queue of events in the daemon *)

MouseMoves ==
  /\ Happens("navigator")
  /\ \E e \in [type : {"motion"}, value : {0, 1}] \cup [type : {"button"}, value : BOOLEAN] : world' = Append(world, e)
  /\ UNCHANGED <<device, phase, m, reads, reading, before, idle>>

\* Every event, a button as well, keeps the motion for another MaxNoData readings.
readNavigator ==
  /\ Reads("navigator")
  /\ LET e == Head(world)
         counter == IF world = <<>> THEN m.noDataCounter + 1 ELSE 0
         taken == [m EXCEPT !.motion = IF world # <<>> /\ e.type = "motion" THEN e.value ELSE @,
                            !.button = IF world # <<>> /\ e.type = "button" THEN e.value ELSE @]
     IN  /\ m' = IF counter >= MaxNoData THEN [taken EXCEPT !.noDataCounter = 0, !.motion = 0]
                 ELSE [taken EXCEPT !.noDataCounter = counter]
         /\ idle' = IF world = <<>> THEN idle + 1 ELSE 0
         /\ world' = IF world = <<>> THEN world ELSE Tail(world)
  /\ Shows([ok |-> TRUE, motion |-> m'.motion, button |-> m'.button])
  /\ UNCHANGED <<device, phase, happened>>

-----------------------------------------------------------------------------
(* Jr3: the force changes; a channel that cannot be read keeps what it had *)

ForceChanges ==
  /\ Happens("jr3") /\ m' = [m EXCEPT !.recent = {}]
  /\ UNCHANGED <<device, phase, world, reads, reading, before, idle>>

\* Only the answer for the last channel is looked at.
readJr3 ==
  /\ Reads("jr3")
  /\ \E good \in Answers :
       /\ m' = [m EXCEPT !.recent = @ \cup good]
       /\ Shows(IF 3 \in good THEN [ok |-> TRUE, recent |-> m'.recent] ELSE Nothing)
  /\ UNCHANGED <<device, phase, world, happened, idle>>

\* calibrateSensor, calibrateChannel.
calibrateSensor ==
  /\ Reads("jr3") /\ reads' = reads + 1
  /\ \E good \in Answers \cup {{c} : c \in Channels} : m' = [m EXCEPT !.zeroed = @ \cup good]
  /\ UNCHANGED <<device, phase, world, happened, reading, before, idle>>

Next ==
  \/ open \/ close \/ Ask \/ Over \/ HandlerWaits \/ HandlerStores \/ ReadWaits \/ ReadCopies \/ HandsMove \/ readLeap
  \/ MouseMoves \/ readNavigator \/ ForceChanges \/ readJr3 \/ calibrateSensor

Spec == Init /\ [][Next]_vars

-----------------------------------------------------------------------------
(* Properties *)

TypeOK ==
  /\ device \in Devices /\ phase \in {"new", "open", "failed", "closed"}
  /\ happened <= MaxWorld /\ reads <= MaxReads /\ DOMAIN m = DOMAIN Members(device)

\* A reading of the PhidgetSpatial is one packet; the LeapMotionSensor does not change
\* hands from one valid reading to the next; the SpaceNavigator does not show motion that
\* has had no event for MaxNoData readings; the last channel of a Jr3 is up to date.
ReadingsAreTrue ==
  reading.ok =>
    CASE device = "phidget" -> \A p, q \in Parts : reading.data[p] = reading.data[q]
      [] device = "leap" -> before.ok /\ NoHand \notin {reading.hand, before.hand} => reading.hand = before.hand
      [] device = "navigator" -> reading.motion # 0 => idle < MaxNoData
      [] device = "jr3" -> 3 \in reading.recent
=============================================================================
