---------------------------- MODULE WiimoteSensor ----------------------------
(***************************************************************************)
(* WiimoteSensor: a thread waits for events of the Wiimote, takes them one  *)
(* by one and publishes what they add up to; a reader of the device takes   *)
(* copies. The thread also wakes up for the standard input, which it never  *)
(* reads, and then finds no event and handles the last one again. close     *)
(* waits for the thread, which may be waiting for an event.                 *)
(*                                                                         *)
(* The accelerometer is one number, of the buttons those that switch the    *)
(* yaw axis are kept. Events and the keyboard are external.                 *)
(***************************************************************************)
EXTENDS Integers, Sequences

CONSTANTS Levels,     \* accelerations
          MaxEvents,  \* bound: events of the Wiimote
          MaxReads    \* bound: readings

VARIABLES
  phase,      \* "new", "open", "closing", "over"
  iface,      \* the interface exists
  pc,         \* the thread: "none", "poll", "waiting", "dispatch", "publish", "ended"
  events,     \* events that nobody has taken
  typed,      \* there is something on the standard input, or it is closed
  event,      \* the last event, a member that is not initialised
  localEventData, eventData,
  yawActive,  \* one for all devices
  reads, count,
  told,       \* ghost: what the events taken so far add up to
  garbage     \* ghost: the thread has handled an event that is not initialised

dataVars == <<localEventData, eventData, yawActive, told, garbage>>
vars == <<phase, iface, pc, events, typed, event, dataVars, reads, count>>

Buttons == {"one", "two"}
Event == [type : {"key"}, code : Buttons, state : {TRUE, FALSE}] \cup [type : {"accel"}, level : Levels]
           \cup {[type |-> "other"]}
NoData == [accel |-> 0, one |-> FALSE, two |-> FALSE]

\* What an event changes.
Handled(data, e) ==
  CASE e.type = "key" -> [data EXCEPT ![e.code] = e.state]
    [] e.type = "accel" -> [data EXCEPT !.accel = e.level]
    [] OTHER -> data

Init ==
  /\ phase = "new" /\ iface = FALSE /\ pc = "none" /\ events = <<>> /\ typed = FALSE
  /\ event = [type |-> "unset"]
  /\ localEventData = NoData /\ eventData = NoData /\ yawActive = FALSE
  /\ reads = 0 /\ count = 0 /\ told = NoData /\ garbage = FALSE

\* open: any of its steps may fail, before or after there is an interface; the destructor
\* of a device that failed to open closes it.
open ==
  /\ phase = "new"
  /\ \/ iface' \in BOOLEAN /\ phase' = "closing" /\ pc' = "ended"
     \/ iface' = TRUE /\ phase' = "open" /\ pc' = "poll"
  /\ UNCHANGED <<events, typed, event, dataVars, reads, count>>

-----------------------------------------------------------------------------
(* The thread *)

\* It looks whether it is to stop before each wait only ...
Poll ==
  /\ pc = "poll" /\ pc' = IF phase = "closing" THEN "ended" ELSE "waiting"
  /\ UNCHANGED <<phase, iface, events, typed, event, dataVars, reads, count>>

\* ... and a wait goes on until something comes.
Wake ==
  /\ pc = "waiting" /\ (events # <<>> \/ typed) /\ pc' = "dispatch"
  /\ UNCHANGED <<phase, iface, events, typed, event, dataVars, reads, count>>

\* xwii_iface_dispatch: without a new event the last one is handled again; before there
\* was any, that is whatever memory holds. Keys and types that are not used publish nothing.
Dispatch ==
  /\ pc = "dispatch"
  /\ event' = IF events = <<>> THEN event ELSE Head(events)
  /\ events' = IF events = <<>> THEN events ELSE Tail(events)
  /\ garbage' = (garbage \/ event'.type = "unset")
  /\ told' = IF events = <<>> THEN told ELSE Handled(told, Head(events))
  /\ \E e \in IF event'.type = "unset" THEN Event ELSE {event'} :
       /\ localEventData' = Handled(localEventData, e)
       /\ pc' = IF e.type = "other" THEN "poll" ELSE "publish"
  /\ UNCHANGED <<phase, iface, typed, eventData, yawActive, reads, count>>

Publish ==
  /\ pc = "publish" /\ pc' = "poll" /\ eventData' = localEventData
  /\ UNCHANGED <<phase, iface, events, typed, event, localEventData, yawActive, told, garbage, reads, count>>

\* poll or xwii_iface_dispatch fails: the thread ends and the device goes on without it.
Break ==
  /\ pc \in {"waiting", "dispatch"} /\ pc' = "ended"
  /\ UNCHANGED <<phase, iface, events, typed, event, dataVars, reads, count>>

-----------------------------------------------------------------------------
(* Readers *)

\* read: a button that is pressed and released between two readings has no effect.
read ==
  /\ phase = "open" /\ reads < MaxReads /\ reads' = reads + 1
  /\ yawActive' = IF eventData.one THEN FALSE ELSE eventData.two \/ yawActive
  /\ UNCHANGED <<phase, iface, pc, events, typed, event, localEventData, eventData, told, garbage, count>>

\* getState, getChannels and the calibrations change nothing.
NoEffect == phase = "open" /\ UNCHANGED vars

\* close: stop and join; then the interface goes.
Stop ==
  /\ phase = "open" /\ phase' = "closing"
  /\ UNCHANGED <<iface, pc, events, typed, event, dataVars, reads, count>>
Close ==
  /\ phase = "closing" /\ pc = "ended"
  /\ phase' = "over" /\ iface' = FALSE
  /\ UNCHANGED <<pc, events, typed, event, dataVars, reads, count>>

-----------------------------------------------------------------------------
(* External *)

Happens ==
  /\ iface /\ count < MaxEvents /\ count' = count + 1
  /\ \E e \in Event : events' = Append(events, e)
  /\ UNCHANGED <<phase, iface, pc, typed, event, dataVars, reads>>
Type ==
  /\ ~typed /\ typed' = TRUE
  /\ UNCHANGED <<phase, iface, pc, events, event, dataVars, reads, count>>

Over == phase = "over" /\ UNCHANGED vars

Thread == Poll \/ Wake \/ Dispatch \/ Publish \/ Break
Next == open \/ Thread \/ read \/ NoEffect \/ Stop \/ Close \/ Happens \/ Type \/ Over

\* The thread runs on, and whoever has called close waits for it.
Spec == Init /\ [][Next]_vars /\ WF_vars(Thread) /\ WF_vars(Close)

-----------------------------------------------------------------------------
(* Properties *)

TypeOK ==
  /\ phase \in {"new", "open", "closing", "over"}
  /\ pc \in {"none", "poll", "waiting", "dispatch", "publish", "ended"}
  /\ events \in Seq(Event) /\ Len(events) <= MaxEvents /\ event \in Event \cup {[type |-> "unset"]}
  /\ reads <= MaxReads /\ eventData.accel \in Levels \cup {0} /\ typed \in BOOLEAN /\ yawActive \in BOOLEAN

\* What readers copy is what the events add up to that the thread has taken, however often
\* the keyboard made it handle one of them again, and the interface is there as long as the
\* thread uses it.
PublishesWhatCame ==
  /\ pc \in {"poll", "waiting"} /\ ~garbage => eventData = told
  /\ pc \notin {"none", "ended"} => iface

\* Whoever closes the device gets an answer once something comes, an event or a key.
CloseEnds == phase = "closing" /\ (typed \/ events # <<>>) ~> phase = "over"
=============================================================================
