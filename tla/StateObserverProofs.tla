------------------------ MODULE StateObserverProofs ------------------------
(***************************************************************************)
(* Proofs about StateObserver for any number of waiters and notifiers and  *)
(* any payloads. OneWindow and WakeupBalance are not inductive alone: what *)
(* a call finds on its semaphore when it leaves must be known too.         *)
(***************************************************************************)
EXTENDS StateObserver, TLAPS

\* A call on its way out has used up its wakeup, and its decrement has been
\* paid back, by a post or by the timeout.
SettledOnLeave ==
  \A w \in Waiters : pc[w] = "leaving" => count >= 0 /\ wakeups = 0

IInv == TypeOK /\ OneWindow /\ WakeupBalance /\ SettledOnLeave

USE NoWaiterAssumption, MaxCountAssumption

\* The invariant holds of a fresh observer.
LEMMA InitIInv == Init => IInv
  BY DEF Init, IInv, TypeOK, OneWindow, WakeupBalance, SettledOnLeave, Inside, Window

\* Every section of await keeps the invariant.
LEMMA WaiterStep ==
  ASSUME IInv, NEW w \in Waiters,
         \/ Call(w) \/ LockAwait(w) \/ CheckInactive(w) \/ CheckActive(w)
         \/ Register(w) \/ SemWait(w) \/ SemWake(w) \/ SemTimeout(w) \/ Unregister(w)
  PROVE  IInv'
<1> USE DEF IInv, TypeOK, OneWindow, WakeupBalance, SettledOnLeave, Inside, Window,
            semVars, notifierVars
<1>1. CASE Call(w)          BY <1>1 DEF Call
<1>2. CASE LockAwait(w)     BY <1>2 DEF LockAwait
<1>3. CASE CheckInactive(w) BY <1>3 DEF CheckInactive
<1>4. CASE CheckActive(w)   BY <1>4 DEF CheckActive
<1>5. CASE Register(w)      BY <1>5 DEF Register
<1>6. CASE SemWait(w)
  <2>1. count' = count - 1 /\ count \in 0..MaxCount /\ wakeups = 0
    BY <1>6 DEF SemWait
  <2>2. CASE count - 1 < 0   BY <1>6, <2>1, <2>2 DEF SemWait
  <2>3. CASE ~(count - 1 < 0)
    <3>1. count' \in 0..MaxCount /\ wakeups' = 0
      BY <1>6, <2>1, <2>3 DEF SemWait
    <3>2. /\ pc' = [pc EXCEPT ![w] = "leaving"]
          /\ verdict' = [verdict EXCEPT ![w] = TRUE]
          /\ UNCHANGED <<storage, awaitMutex, semaphore, wakeups, remoteStorage, active, npc, raw, dpc>>
      BY <1>6, <2>3 DEF SemWait
    <3>3. TypeOK' BY <3>1, <3>2
    <3>4. OneWindow' BY <1>6, <3>1, <3>2 DEF SemWait
    <3>5. WakeupBalance' /\ SettledOnLeave' BY <1>6, <3>1, <3>2 DEF SemWait
    <3> QED BY <3>3, <3>4, <3>5
  <2> QED BY <2>2, <2>3
<1>7. CASE SemWake(w)       BY <1>7 DEF SemWake
<1>8. CASE SemTimeout(w)    BY <1>8 DEF SemTimeout
<1>9. CASE Unregister(w)    BY <1>9 DEF Unregister
<1> QED BY <1>1, <1>2, <1>3, <1>4, <1>5, <1>6, <1>7, <1>8, <1>9
\* So does every section of notify and of interrupt, which leave the waiters
\* where they are.
LEMMA SignalStep ==
  ASSUME IInv, \/ \E n \in Notifiers : (\E v \in Payloads : NotifyCheck(n, v)) \/ NotifyLocked(n)
               \/ Deactivate \/ InterruptLocked
  PROVE  IInv'
<1> USE DEF IInv, TypeOK, OneWindow, WakeupBalance, SettledOnLeave, Inside, Window,
            semVars, notifierVars, waiterVars
<1>1. ASSUME NEW n \in Notifiers, NEW v \in Payloads, NotifyCheck(n, v) PROVE IInv'
  BY <1>1 DEF NotifyCheck
<1>2. ASSUME NEW n \in Notifiers, NotifyLocked(n) PROVE IInv'
  <2>1. CASE semaphore = "live"
    <3>1. /\ count \in -1..(MaxCount - 1)
          /\ count' = count + 1
          /\ wakeups' = IF count + 1 <= 0 THEN wakeups + 1 ELSE wakeups
          /\ UNCHANGED <<semaphore, pc, verdict, awaitMutex, remoteStorage, active, dpc>>
      BY <1>2, <2>1 DEF NotifyLocked, Post
    <3>2. PICK w \in Waiters : pc[w] \in Window /\ awaitMutex = w /\ remoteStorage = w
      BY <2>1
    <3>3. count + 1 <= 0 => wakeups = 0
      BY <3>1, <3>2
    <3>4. storage' \in [Waiters -> Payloads \cup {NoPayload}]
      BY <1>2, <2>1, <3>2 DEF NotifyLocked, Deliver
    <3>5. npc' \in [Notifiers -> {"out", "checked"}] /\ raw' \in [Notifiers -> Payloads \cup {NoPayload}]
      BY <1>2 DEF NotifyLocked
    <3>6. TypeOK'
      BY <3>1, <3>3, <3>4, <3>5
    <3>7. OneWindow'
      BY <3>1
    <3>8. WakeupBalance' /\ SettledOnLeave'
      BY <3>1, <3>2, <3>3
    <3> QED BY <3>6, <3>7, <3>8
  <2>2. CASE semaphore # "live"
    BY <1>2, <2>2 DEF NotifyLocked
  <2> QED BY <2>1, <2>2
<1>3. CASE Deactivate
  BY <1>3 DEF Deactivate
<1>4. CASE InterruptLocked
  <2>1. CASE semaphore = "live"
    <3>1. /\ count \in -1..(MaxCount - 1)
          /\ count' = count + 1
          /\ wakeups' = IF count + 1 <= 0 THEN wakeups + 1 ELSE wakeups
          /\ UNCHANGED <<semaphore, pc, verdict, awaitMutex, remoteStorage, active, storage, npc, raw>>
          /\ dpc' = "interrupted"
      BY <1>4, <2>1 DEF InterruptLocked, Post
    <3>2. PICK w \in Waiters : pc[w] \in Window /\ awaitMutex = w
      BY <2>1
    <3>3. count + 1 <= 0 => wakeups = 0
      BY <3>1, <3>2
    <3>4. TypeOK'
      BY <3>1, <3>3
    <3>5. OneWindow'
      BY <3>1
    <3>6. WakeupBalance' /\ SettledOnLeave'
      BY <3>1, <3>2, <3>3
    <3> QED BY <3>4, <3>5, <3>6
  <2>2. CASE semaphore # "live"
    BY <1>4, <2>2 DEF InterruptLocked
  <2> QED BY <2>1, <2>2
<1> QED BY <1>1, <1>2, <1>3, <1>4

\* A step of others disturbs nothing.
LEMMA StutterStep == ASSUME IInv, UNCHANGED vars PROVE IInv'
  BY DEF IInv, TypeOK, OneWindow, WakeupBalance, SettledOnLeave, Inside, Window, vars

\* The inductive invariant of the observer.
THEOREM Inductive == Spec => []IInv
<1>1. IInv /\ [Next]_vars => IInv'
  <2> SUFFICES ASSUME IInv, [Next]_vars PROVE IInv'
    OBVIOUS
  <2>1. CASE UNCHANGED vars
    BY <2>1, StutterStep
  <2>2. CASE Next
    BY <2>2, WaiterStep, SignalStep DEF Next
  <2> QED BY <2>1, <2>2
<1> QED BY InitIInv, <1>1, PTL DEF Spec

\* Every variable keeps its type; in particular a semaphore never holds more
\* than one pending wakeup, however notifications and timeouts interleave.
THEOREM TypeCorrect == Spec => []TypeOK
  BY Inductive, PTL DEF IInv

\* For any number of threads: a registered semaphore belongs to the one call
\* that holds awaitMutex, and so does the storage a notifier writes into.
THEOREM WindowIsOwned == Spec => []OneWindow
  BY Inductive, PTL DEF IInv

\* For any number of threads: a post that comes between wait's decrement and
\* its sleep, or before both, is never lost, and none is invented.
THEOREM NoPostIsLost == Spec => []WakeupBalance
  BY Inductive, PTL DEF IInv
\* For any number of threads: a notifier writes into the storage of a call that is
\* registered, and of no other. It takes what is registered on trust, so that this rests
\* on the window being owned.
THEOREM WritesAreOwned == Spec => WritesOnlyInWindow
<1> DEFINE Owned == \A w \in Waiters : storage'[w] # storage[w] =>
                      pc[w] \in Window \/ (pc[w] = "out" /\ storage'[w] = NoPayload)
<1>1. IInv /\ [Next]_vars => Owned
  <2> SUFFICES ASSUME IInv, Next, NEW w \in Waiters, storage'[w] # storage[w]
               PROVE  pc[w] \in Window \/ (pc[w] = "out" /\ storage'[w] = NoPayload)
    BY DEF vars
  <2>1. CASE \E u \in Waiters : Call(u)
    BY <2>1 DEF Call, IInv, TypeOK
  <2>2. CASE \E n \in Notifiers : NotifyLocked(n)
    <3>1. PICK n \in Notifiers : semaphore = "live" /\ Deliver(raw[n])
      BY <2>2 DEF NotifyLocked
    <3>2. remoteStorage = w
      BY <3>1 DEF Deliver, IInv, TypeOK
    <3>3. PICK u \in Waiters : pc[u] \in Window /\ remoteStorage = u
      BY <3>1 DEF IInv, OneWindow
    <3> QED BY <3>2, <3>3
  <2>3. storage' = storage \/ (\E u \in Waiters : Call(u)) \/ (\E n \in Notifiers : NotifyLocked(n))
    BY DEF Next, LockAwait, CheckInactive, CheckActive, Register, SemWait, SemWake, SemTimeout,
           Unregister, NotifyCheck, Deactivate, InterruptLocked
  <2> QED BY <2>1, <2>2, <2>3
<1>2. IInv /\ [Next]_vars => [Owned]_vars
  BY <1>1
<1> QED BY Inductive, <1>2, PTL DEF Spec, WritesOnlyInWindow
-----------------------------------------------------------------------------
(* Refinement: every section of code is a step of ObserverSpec or a stutter. *)

\* Where a call stands in the abstract window depends on its own pc and
\* verdict and, while it is registered, on the counters.
LEMMA SameAbsCall ==
  ASSUME NEW w \in Waiters, pc'[w] = pc[w], verdict'[w] = verdict[w],
         pc[w] \in {"registered", "blocked"} => count' = count /\ wakeups' = wakeups
  PROVE  AbstractCall(w)' = AbstractCall(w)
  BY DEF AbstractCall, Woken, Window

\* No two calls are registered at a time.
LEMMA OneOwner ==
  ASSUME IInv, NEW u \in Waiters, NEW w \in Waiters, pc[w] \in Inside, u # w
  PROVE  pc[u] \notin Inside
  BY DEF IInv, OneWindow

\* The sections of await.
LEMMA WaiterRefines ==
  ASSUME IInv, NEW w \in Waiters,
         \/ Call(w) \/ LockAwait(w) \/ CheckInactive(w) \/ CheckActive(w)
         \/ Register(w) \/ SemWait(w) \/ SemWake(w) \/ SemTimeout(w) \/ Unregister(w)
  PROVE  \/ Abstract!Call(w) \/ Abstract!Refuse(w) \/ Abstract!OpenWindow(w)
         \/ Abstract!Expire(w) \/ Abstract!Return(w) \/ UNCHANGED Abstract!vars
<1> USE DEF IInv, TypeOK, Inside, Window, semVars, notifierVars
<1>1. \A u \in Waiters \ {w} : pc'[u] = pc[u] /\ verdict'[u] = verdict[u]
  BY DEF Call, LockAwait, CheckInactive, CheckActive, Register, SemWait, SemWake,
         SemTimeout, Unregister
<1>2. ASSUME pc[w] \in Inside \/ (count' = count /\ wakeups' = wakeups)
      PROVE  \A u \in Waiters \ {w} : AbstractCall(u)' = AbstractCall(u)
  BY <1>1, <1>2, SameAbsCall, OneOwner
<1>3. CASE Call(w)
  <2>1. AbstractCall(w) = "out" /\ AbstractCall(w)' = "waiting"
    BY <1>3 DEF Call, AbstractCall
  <2>2. Abstract!Call(w)
    BY <1>3, <1>2, <2>1 DEF Call, Abstract!Call
  <2> QED BY <2>2
<1>4. CASE CheckInactive(w)
  <2>1. AbstractCall(w) = "waiting" /\ AbstractCall(w)' = "out"
    BY <1>4 DEF CheckInactive, AbstractCall
  <2>2. Abstract!Refuse(w)
    BY <1>4, <1>2, <2>1 DEF CheckInactive, Abstract!Refuse
  <2> QED BY <2>2
<1>5. CASE Register(w)
  <2>1. AbstractCall(w) = "waiting" /\ AbstractCall(w)' = "open"
    BY <1>5 DEF Register, AbstractCall, Woken
  <2>2. \A u \in Waiters : AbstractCall(u) \notin {"open", "woken", "expired"}
    BY <1>5, <2>1, OneOwner DEF Register, AbstractCall, Woken
  <2>3. Abstract!OpenWindow(w)
    BY <1>5, <1>2, <2>1, <2>2 DEF Register, Abstract!OpenWindow, Abstract!HasWindow
  <2> QED BY <2>3
<1>6. CASE SemTimeout(w)
  <2>1. AbstractCall(w) = "open" /\ AbstractCall(w)' = "expired"
    BY <1>6 DEF SemTimeout, AbstractCall, Woken
  <2>2. Abstract!Expire(w)
    BY <1>6, <1>2, <2>1 DEF SemTimeout, Abstract!Expire
  <2> QED BY <2>2
<1>7. CASE Unregister(w)
  <2>1. /\ AbstractCall(w) = IF verdict[w] THEN "woken" ELSE "expired"
        /\ AbstractCall(w)' = "out"
    BY <1>7 DEF Unregister, AbstractCall, Woken
  <2>2. Abstract!Return(w)
    BY <1>7, <1>2, <2>1 DEF Unregister, Abstract!Return
  <2> QED BY <2>2
<1>8. CASE LockAwait(w) \/ CheckActive(w)
  <2>1. AbstractCall(w) = "waiting" /\ AbstractCall(w)' = "waiting"
    BY <1>8 DEF LockAwait, CheckActive, AbstractCall
  <2>2. UNCHANGED Abstract!vars
    BY <1>8, <1>2, <2>1 DEF LockAwait, CheckActive, Abstract!vars
  <2> QED BY <2>2
<1>9. CASE SemWait(w) \/ SemWake(w)
  <2>1. AbstractCall(w)' = AbstractCall(w)
    BY <1>9 DEF SemWait, SemWake, AbstractCall, Woken, WakeupBalance
  <2>2. UNCHANGED Abstract!vars
    BY <1>9, <1>2, <2>1 DEF SemWait, SemWake, Abstract!vars
  <2> QED BY <2>2
<1> QED BY <1>3, <1>4, <1>5, <1>6, <1>7, <1>8, <1>9
\* A post on the registered semaphore wakes its call if it is still undecided,
\* and only then.
LEMMA PostWakes ==
  ASSUME IInv, semaphore = "live", Post, UNCHANGED <<pc, verdict>>
  PROVE  \E w \in Waiters :
           /\ remoteStorage = w
           /\ AbstractCall(w) \in {"open", "woken", "expired"}
           /\ AbstractCall(w)' = IF AbstractCall(w) = "open" THEN "woken" ELSE AbstractCall(w)
           /\ \A u \in Waiters \ {w} : AbstractCall(u)' = AbstractCall(u)
<1> USE DEF IInv, TypeOK
<1>1. PICK w \in Waiters : pc[w] \in Window /\ remoteStorage = w
  BY DEF OneWindow
<1>2. AbstractCall(w) \in {"open", "woken", "expired"}
  BY <1>1 DEF AbstractCall, Woken, Window
<1>3. AbstractCall(w)' = IF AbstractCall(w) = "open" THEN "woken" ELSE AbstractCall(w)
  <2>1. CASE pc[w] = "registered"
    BY <2>1 DEF AbstractCall, Woken, Window, Post, WakeupBalance
  <2>2. CASE pc[w] = "blocked"
    BY <2>2 DEF AbstractCall, Woken, Window, Post, WakeupBalance
  <2>3. CASE pc[w] = "leaving"
    BY <2>3 DEF AbstractCall, Woken, Window
  <2> QED BY <1>1, <2>1, <2>2, <2>3 DEF Window
<1>4. \A u \in Waiters \ {w} : pc[u] \notin Inside
  BY <1>1, OneOwner DEF Inside
<1>5. \A u \in Waiters \ {w} : AbstractCall(u)' = AbstractCall(u)
  BY <1>4, SameAbsCall DEF Inside, Window
<1> QED BY <1>1, <1>2, <1>3, <1>5

\* The sections of notify and of interrupt.
LEMMA SignalRefines ==
  ASSUME IInv, \/ \E n \in Notifiers : (\E v \in Payloads : NotifyCheck(n, v)) \/ NotifyLocked(n)
               \/ Deactivate \/ InterruptLocked
  PROVE  \/ \E w \in Waiters, v \in Payloads \cup {NoPayload} : Abstract!Signal(w, v)
         \/ Abstract!Destroy \/ UNCHANGED Abstract!vars
<1> USE DEF IInv, TypeOK
<1>1. UNCHANGED <<pc, verdict>>
  BY DEF NotifyCheck, NotifyLocked, Deactivate, InterruptLocked, waiterVars
<1>2. ASSUME UNCHANGED semVars PROVE \A u \in Waiters : AbstractCall(u)' = AbstractCall(u)
  BY <1>1, <1>2, SameAbsCall DEF semVars
<1>3. ASSUME NEW n \in Notifiers, NEW v \in Payloads, NotifyCheck(n, v)
      PROVE  UNCHANGED Abstract!vars
  BY <1>1, <1>2, <1>3 DEF NotifyCheck, Abstract!vars
<1>4. CASE Deactivate
  <2>1. Abstract!Destroy
    BY <1>1, <1>2, <1>4 DEF Deactivate, Abstract!Destroy
  <2> QED BY <2>1
<1>5. ASSUME NEW n \in Notifiers, NotifyLocked(n)
      PROVE  \/ \E w \in Waiters, v \in Payloads \cup {NoPayload} : Abstract!Signal(w, v)
             \/ UNCHANGED Abstract!vars
  <2>1. CASE semaphore = "live"
    <3>1. Post /\ Deliver(raw[n]) /\ UNCHANGED active
      BY <1>5, <2>1 DEF NotifyLocked
    <3>2. PICK w \in Waiters :
             /\ remoteStorage = w
             /\ AbstractCall(w) \in {"open", "woken", "expired"}
             /\ AbstractCall(w)' = IF AbstractCall(w) = "open" THEN "woken" ELSE AbstractCall(w)
             /\ \A u \in Waiters \ {w} : AbstractCall(u)' = AbstractCall(u)
      BY <1>1, <2>1, <3>1, PostWakes
    <3>3. Abstract!Signal(w, raw[n])
      BY <1>1, <3>1, <3>2 DEF Deliver, Abstract!Signal, Abstract!HasWindow
    <3> QED BY <3>3
  <2>2. CASE semaphore # "live"
    BY <1>1, <1>2, <1>5, <2>2 DEF NotifyLocked, Abstract!vars
  <2> QED BY <2>1, <2>2
<1>6. CASE InterruptLocked
  <2>1. CASE semaphore = "live"
    <3>1. Post /\ UNCHANGED <<storage, active>>
      BY <1>6, <2>1 DEF InterruptLocked
    <3>2. PICK w \in Waiters :
             /\ AbstractCall(w) \in {"open", "woken", "expired"}
             /\ AbstractCall(w)' = IF AbstractCall(w) = "open" THEN "woken" ELSE AbstractCall(w)
             /\ \A u \in Waiters \ {w} : AbstractCall(u)' = AbstractCall(u)
      BY <1>1, <2>1, <3>1, PostWakes
    <3>3. Abstract!Signal(w, NoPayload)
      BY <1>1, <3>1, <3>2 DEF Abstract!Signal, Abstract!HasWindow
    <3> QED BY <3>3
  <2>2. CASE semaphore # "live"
    BY <1>1, <1>2, <1>6, <2>2 DEF InterruptLocked, Abstract!vars
  <2> QED BY <2>1, <2>2
<1> QED BY <1>3, <1>4, <1>5, <1>6

\* For any threads and payloads, the semaphore-based observer is the
\* turn-based rendezvous of ObserverSpec.
THEOREM Refinement == Spec => ImplementsObserverSpec
<1>1. Init => Abstract!Init
  <2> SUFFICES ASSUME Init PROVE Abstract!Init
    OBVIOUS
  <2>1. \A w \in Waiters : pc[w] = "out" /\ ~verdict[w]
    BY DEF Init
  <2>2. ASSUME NEW w \in Waiters PROVE AbstractCall(w) = "out"
    <3>1. pc[w] = "out" BY <2>1
    <3> QED BY <3>1 DEF AbstractCall, Window
  <2>3. [w \in Waiters |-> pc[w] = "out" /\ verdict[w]] = [w \in Waiters |-> FALSE]
    BY <2>1, Zenon
  <2>4. [w \in Waiters |-> AbstractCall(w)] = [w \in Waiters |-> "out"]
    BY <2>2, Zenon
  <2> QED BY <2>3, <2>4, Zenon DEF Init, Abstract!Init
<1>2. IInv /\ [Next]_vars => [Abstract!Next]_Abstract!vars
  <2> SUFFICES ASSUME IInv, [Next]_vars PROVE [Abstract!Next]_Abstract!vars
    OBVIOUS
  <2>1. CASE UNCHANGED vars
    <3>1. \A w \in Waiters : AbstractCall(w)' = AbstractCall(w)
      BY <2>1, SameAbsCall DEF vars
    <3>2. UNCHANGED Abstract!vars
      BY <2>1, <3>1 DEF vars, Abstract!vars
    <3> QED BY <3>2
  <2>2. CASE \E w \in Waiters :
               \/ Call(w) \/ LockAwait(w) \/ CheckInactive(w) \/ CheckActive(w)
               \/ Register(w) \/ SemWait(w) \/ SemWake(w) \/ SemTimeout(w) \/ Unregister(w)
    BY <2>2, WaiterRefines DEF Abstract!Next
  <2>3. CASE \/ \E n \in Notifiers : (\E v \in Payloads : NotifyCheck(n, v)) \/ NotifyLocked(n)
             \/ Deactivate \/ InterruptLocked
    BY <2>3, SignalRefines DEF Abstract!Next
  <2> QED BY <2>1, <2>2, <2>3 DEF Next
<1> QED BY <1>1, <1>2, Inductive, PTL DEF Spec, ImplementsObserverSpec, Abstract!Spec
=============================================================================
