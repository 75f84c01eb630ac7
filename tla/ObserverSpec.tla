---------------------------- MODULE ObserverSpec ----------------------------
(***************************************************************************)
(* What a state observer promises to its callers, with no semaphore and no *)
(* mutex in sight: calls to await take turns; while a call holds the turn  *)
(* its window is open, a notification wakes the call and leaves its        *)
(* payload in the caller's storage, a timeout gives up on the window, and  *)
(* nothing is ever written for a caller whose window is not there.         *)
(* StateObserver implements this module.                                   *)
(***************************************************************************)

CONSTANTS Waiters,   \* threads that call await
          Payloads,  \* what notify hands over
          NoPayload  \* the caller's storage before anything was written to it

VARIABLES
  call,     \* where each caller is
  storage,  \* the caller's storage, the argument of await
  result,   \* what its last call returned, FALSE from one call to the next return
  alive     \* FALSE once the destructor of the observer has begun

vars == <<call, storage, result, alive>>

\* The call has the turn: "open" is undecided, "woken" will return true,
\* "expired" will return false.
HasWindow(w) == call[w] \in {"open", "woken", "expired"}

Init == /\ call = [w \in Waiters |-> "out"]
        /\ storage = [w \in Waiters |-> NoPayload]
        /\ result = [w \in Waiters |-> FALSE]
        /\ alive = TRUE

Call(w) == /\ call[w] = "out"
           /\ call' = [call EXCEPT ![w] = "waiting"]
           /\ storage' = [storage EXCEPT ![w] = NoPayload]
           /\ result' = [result EXCEPT ![w] = FALSE]
           /\ UNCHANGED alive

Refuse(w) == /\ call[w] = "waiting" /\ ~alive
             /\ call' = [call EXCEPT ![w] = "out"]
             /\ result' = [result EXCEPT ![w] = FALSE]
             /\ UNCHANGED <<storage, alive>>

OpenWindow(w) == /\ call[w] = "waiting"
                 /\ \A u \in Waiters : ~HasWindow(u)
                 /\ call' = [call EXCEPT ![w] = "open"]
                 /\ UNCHANGED <<storage, result, alive>>

\* A notification, or (with v = NoPayload) the interruption, reaches the
\* window. A late one writes the payload and does not change the verdict.
Signal(w, v) == /\ HasWindow(w)
                /\ call' = [call EXCEPT ![w] = IF @ = "open" THEN "woken" ELSE @]
                /\ storage' = [storage EXCEPT ![w] = IF v = NoPayload THEN @ ELSE v]
                /\ UNCHANGED <<result, alive>>

Expire(w) == /\ call[w] = "open"
             /\ call' = [call EXCEPT ![w] = "expired"]
             /\ UNCHANGED <<storage, result, alive>>

Return(w) == /\ call[w] \in {"woken", "expired"}
             /\ call' = [call EXCEPT ![w] = "out"]
             /\ result' = [result EXCEPT ![w] = (call[w] = "woken")]
             /\ UNCHANGED <<storage, alive>>

Destroy == /\ alive' = FALSE
           /\ UNCHANGED <<call, storage, result>>

Next == \/ \E w \in Waiters : \/ Call(w) \/ Refuse(w) \/ OpenWindow(w)
                              \/ Expire(w) \/ Return(w)
                              \/ \E v \in Payloads \cup {NoPayload} : Signal(w, v)
        \/ Destroy

Spec == Init /\ [][Next]_vars
=============================================================================
