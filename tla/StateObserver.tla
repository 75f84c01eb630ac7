--------------------------- MODULE StateObserver ---------------------------
(***************************************************************************)
(* StateObserverBase::Private and its BinaryTimedSemaphore                 *)
(* (libraries/StateObserverLib/StateObserver.cpp). Threads call await,     *)
(* others call notify, and the destructor interrupts. One action per       *)
(* section of code that runs under a lock; between two of them any other   *)
(* thread may run.                                                         *)
(***************************************************************************)
EXTENDS Integers

CONSTANTS Waiters,    \* threads that call await
          Notifiers,  \* threads that call notify
          Payloads,   \* what notify is called with: data, or just NoPayload
                      \* for the data-free observer
          NoPayload,  \* no data: the null pointer, and a fresh storage
          NoWaiter,   \* nobody holds awaitMutex
          MaxCount    \* bound: posts a semaphore may gather in one call

ASSUME NoWaiterAssumption == NoWaiter \notin Waiters
ASSUME MaxCountAssumption == MaxCount \in Nat \ {0}

VARIABLES
  pc,             \* pc[w]: the point a waiter has reached in await
  verdict,        \* verdict[w]: !timedOut, then the value await returned
  storage,        \* storage[w]: the object the caller passed to await
  awaitMutex,     \* the owner of awaitMutex
  semaphore,      \* the pointer: "null", or "live"
  count, wakeups, \* the fields of *semaphore
  remoteStorage,  \* whose storage was registered last; never reset
  active,         \* the atomic flag
  npc, raw,       \* a notifier's point in notify, and its argument
  dpc             \* the destructor's point in interrupt

semVars == <<semaphore, count, wakeups>>
waiterVars == <<pc, verdict, awaitMutex>>
notifierVars == <<npc, raw>>
vars == <<pc, verdict, storage, awaitMutex, semaphore, count, wakeups,
          remoteStorage, active, npc, raw, dpc>>

\* The call is registered: *semaphore belongs to it.
Window == {"registered", "blocked", "leaving"}
\* The call holds awaitMutex.
Inside == {"locked", "checked"} \cup Window

Init == /\ pc = [w \in Waiters |-> "out"]
        /\ verdict = [w \in Waiters |-> FALSE]
        /\ storage = [w \in Waiters |-> NoPayload]
        /\ awaitMutex = NoWaiter
        /\ semaphore = "null" /\ count = 0 /\ wakeups = 0
        /\ remoteStorage = NoWaiter
        /\ active = TRUE
        /\ npc = [n \in Notifiers |-> "out"]
        /\ raw = [n \in Notifiers |-> NoPayload]
        /\ dpc = "alive"

-----------------------------------------------------------------------------
(* await *)

\* A caller brings a fresh storage and asks for awaitMutex.
Call(w) ==
  /\ pc[w] = "out"
  /\ pc' = [pc EXCEPT ![w] = "calling"]
  /\ storage' = [storage EXCEPT ![w] = NoPayload]
  /\ UNCHANGED <<verdict, awaitMutex, semVars, remoteStorage, active, notifierVars, dpc>>

LockAwait(w) ==
  /\ pc[w] = "calling" /\ awaitMutex = NoWaiter
  /\ awaitMutex' = w
  /\ pc' = [pc EXCEPT ![w] = "locked"]
  /\ UNCHANGED <<verdict, storage, semVars, remoteStorage, active, notifierVars, dpc>>

\* if (!active) return false
CheckInactive(w) ==
  /\ pc[w] = "locked" /\ ~active
  /\ pc' = [pc EXCEPT ![w] = "out"]
  /\ verdict' = [verdict EXCEPT ![w] = FALSE]
  /\ awaitMutex' = NoWaiter
  /\ UNCHANGED <<storage, semVars, remoteStorage, active, notifierVars, dpc>>

CheckActive(w) ==
  /\ pc[w] = "locked" /\ active
  /\ pc' = [pc EXCEPT ![w] = "checked"]
  /\ UNCHANGED <<verdict, storage, awaitMutex, semVars, remoteStorage, active, notifierVars, dpc>>

\* Mutation: the semaphore of the previous call is used again.
RegisterReuse(w) ==
  /\ pc[w] = "checked"
  /\ semaphore' = "live" /\ remoteStorage' = w
  /\ pc' = [pc EXCEPT ![w] = "registered"]
  /\ UNCHANGED <<verdict, storage, awaitMutex, count, wakeups, active, notifierVars, dpc>>

\* Under registryMutex: a new semaphore and the caller's storage.
Register(w) ==
  /\ pc[w] = "checked"
  /\ semaphore' = "live" /\ count' = 0 /\ wakeups' = 0
  /\ remoteStorage' = w
  /\ pc' = [pc EXCEPT ![w] = "registered"]
  /\ UNCHANGED <<verdict, storage, awaitMutex, active, notifierVars, dpc>>

\* BinaryTimedSemaphore::wait up to wait_for; a post that came first is
\* consumed with no wait at all.
SemWait(w) ==
  /\ pc[w] = "registered"
  /\ count' = count - 1
  /\ IF count - 1 < 0
       THEN pc' = [pc EXCEPT ![w] = "blocked"] /\ UNCHANGED verdict
       ELSE /\ pc' = [pc EXCEPT ![w] = "leaving"]
            /\ verdict' = [verdict EXCEPT ![w] = TRUE]
  /\ UNCHANGED <<storage, awaitMutex, semaphore, wakeups, remoteStorage, active, notifierVars, dpc>>

\* wait_for ends with its predicate true.
SemWake(w) ==
  /\ pc[w] = "blocked" /\ wakeups > 0
  /\ wakeups' = wakeups - 1
  /\ pc' = [pc EXCEPT ![w] = "leaving"]
  /\ verdict' = [verdict EXCEPT ![w] = TRUE]
  /\ UNCHANGED <<storage, awaitMutex, semaphore, count, remoteStorage, active, notifierVars, dpc>>

\* Mutation: a wait that is not timed.
SemUntimed(w) == FALSE

\* wait_for runs out of time with its predicate still false.
SemTimeout(w) ==
  /\ pc[w] = "blocked" /\ wakeups <= 0
  /\ count' = count + 1
  /\ pc' = [pc EXCEPT ![w] = "leaving"]
  /\ verdict' = [verdict EXCEPT ![w] = FALSE]
  /\ UNCHANGED <<storage, awaitMutex, semaphore, wakeups, remoteStorage, active, notifierVars, dpc>>

\* Mutation: the semaphore is left behind.
UnregisterLeak(w) ==
  /\ pc[w] = "leaving"
  /\ pc' = [pc EXCEPT ![w] = "out"]
  /\ awaitMutex' = NoWaiter
  /\ UNCHANGED <<verdict, storage, semVars, remoteStorage, active, notifierVars, dpc>>

\* Under registryMutex the semaphore is deleted; await returns, which frees
\* awaitMutex (nothing runs between the two that another thread can observe).
Unregister(w) ==
  /\ pc[w] = "leaving"
  /\ semaphore' = "null"
  /\ pc' = [pc EXCEPT ![w] = "out"]
  /\ awaitMutex' = NoWaiter
  /\ UNCHANGED <<verdict, storage, count, wakeups, remoteStorage, active, notifierVars, dpc>>

-----------------------------------------------------------------------------
(* notify and interrupt *)

\* Mutations: every post leaves a wakeup; a post on a blocked thread leaves none.
PostAlwaysWakes == count' = count + 1 /\ wakeups' = wakeups + 1 /\ UNCHANGED semaphore
PostOffByOne == /\ count' = count + 1
                /\ wakeups' = IF count + 1 < 0 THEN wakeups + 1 ELSE wakeups
                /\ UNCHANGED semaphore

\* BinaryTimedSemaphore::post
Post == /\ count' = count + 1
        /\ wakeups' = IF count + 1 <= 0 THEN wakeups + 1 ELSE wakeups
        /\ UNCHANGED semaphore

\* setRemoteStorage: the copy into the registered storage.
Deliver(v) == storage' = IF v = NoPayload THEN storage
                         ELSE [storage EXCEPT ![remoteStorage] = v]

NotifyCheck(n, v) ==
  /\ npc[n] = "out" /\ active
  /\ npc' = [npc EXCEPT ![n] = "checked"]
  /\ raw' = [raw EXCEPT ![n] = v]
  /\ UNCHANGED <<waiterVars, storage, semVars, remoteStorage, active, dpc>>

\* Mutation: the data are copied before anybody checks for a semaphore.
NotifyUnchecked(n) ==
  /\ npc[n] = "checked"
  /\ Deliver(raw[n])
  /\ IF semaphore = "live" THEN count < MaxCount /\ Post ELSE UNCHANGED semVars
  /\ npc' = [npc EXCEPT ![n] = "out"]
  /\ raw' = [raw EXCEPT ![n] = NoPayload]
  /\ UNCHANGED <<waiterVars, remoteStorage, active, dpc>>

\* Under registryMutex; notify returns true whether somebody waits or not.
NotifyLocked(n) ==
  /\ npc[n] = "checked"
  /\ IF semaphore = "live"
       THEN count < MaxCount /\ Deliver(raw[n]) /\ Post
       ELSE UNCHANGED <<storage, semVars>>
  /\ npc' = [npc EXCEPT ![n] = "out"]
  /\ raw' = [raw EXCEPT ![n] = NoPayload]
  /\ UNCHANGED <<waiterVars, remoteStorage, active, dpc>>

\* ~Private calls interrupt: active = false, then a post under registryMutex.
Deactivate ==
  /\ dpc = "alive"
  /\ active' = FALSE
  /\ dpc' = "interrupting"
  /\ UNCHANGED <<waiterVars, storage, semVars, remoteStorage, notifierVars>>

InterruptLocked ==
  /\ dpc = "interrupting"
  /\ IF semaphore = "live" THEN count < MaxCount /\ Post ELSE UNCHANGED semVars
  /\ dpc' = "interrupted"
  /\ UNCHANGED <<waiterVars, storage, remoteStorage, active, notifierVars>>

-----------------------------------------------------------------------------
Next == \/ \E w \in Waiters : \/ Call(w) \/ LockAwait(w)
                              \/ CheckInactive(w) \/ CheckActive(w)
                              \/ Register(w) \/ SemWait(w) \/ SemWake(w)
                              \/ SemTimeout(w) \/ Unregister(w)
        \/ \E n \in Notifiers : \/ \E v \in Payloads : NotifyCheck(n, v)
                                \/ NotifyLocked(n)
        \/ Deactivate \/ InterruptLocked

Spec == Init /\ [][Next]_vars

\* A thread that holds awaitMutex keeps running, and wait_for is timed: it
\* ends whether or not a notification comes. Nothing obliges anybody to call,
\* to notify or to destroy, and std::mutex is not fair, so LockAwait is not.
Fairness == \A w \in Waiters :
  WF_vars(\/ CheckInactive(w) \/ CheckActive(w) \/ Register(w) \/ SemWait(w)
          \/ SemWake(w) \/ SemTimeout(w) \/ Unregister(w))

FairSpec == Spec /\ Fairness
-----------------------------------------------------------------------------
TypeOK ==
  /\ pc \in [Waiters -> {"out", "calling"} \cup Inside]
  /\ verdict \in [Waiters -> BOOLEAN]
  /\ storage \in [Waiters -> Payloads \cup {NoPayload}]
  /\ awaitMutex \in Waiters \cup {NoWaiter}
  /\ semaphore \in {"null", "live"}
  /\ count \in -1..MaxCount
  /\ wakeups \in 0..1
  /\ remoteStorage \in Waiters \cup {NoWaiter}
  /\ active \in BOOLEAN
  /\ npc \in [Notifiers -> {"out", "checked"}]
  /\ raw \in [Notifiers -> Payloads \cup {NoPayload}]
  /\ dpc \in {"alive", "interrupting", "interrupted"}

\* The semaphore exists exactly while one call is registered, and that call is
\* the owner of awaitMutex and of the registered storage: a notifier never
\* posts on a deleted semaphore nor writes through a stale pointer.
OneWindow ==
  /\ \A w \in Waiters : pc[w] \in Inside <=> awaitMutex = w
  /\ semaphore = "live" <=> \E w \in Waiters : pc[w] \in Window
  /\ \A w \in Waiters : pc[w] \in Window => remoteStorage = w

\* No post is lost between wait's decrement and its sleep: a blocked call has
\* a pending wakeup exactly when somebody posted since it registered.
WakeupBalance ==
  \A w \in Waiters : /\ pc[w] = "registered" => wakeups = 0 /\ count >= 0
                     /\ pc[w] = "blocked" => (wakeups = 1 <=> count >= 0)

\* No notifier ever writes into the storage of a thread that is not inside
\* await: once await has returned the object may be gone from the stack.
WritesOnlyInWindow ==
  [][\A w \in Waiters : storage'[w] # storage[w] =>
        pc[w] \in Window \/ (pc[w] = "out" /\ storage'[w] = NoPayload)]_vars

\* A call that got its turn returns, whatever the notifiers do or do not do.
GrantedCallReturns ==
  \A w \in Waiters : awaitMutex = w ~> awaitMutex # w

-----------------------------------------------------------------------------
(* The window of ObserverSpec, read from the semaphore's counters. *)

Woken(w) == \/ pc[w] = "registered" /\ count > 0
            \/ pc[w] = "blocked" /\ wakeups > 0
            \/ pc[w] = "leaving" /\ verdict[w]

AbstractCall(w) == CASE pc[w] = "out" -> "out"
                     [] pc[w] \in {"calling", "locked", "checked"} -> "waiting"
                     [] pc[w] \in Window /\ Woken(w) -> "woken"
                     [] pc[w] = "leaving" /\ ~verdict[w] -> "expired"
                     [] OTHER -> "open"

Abstract == INSTANCE ObserverSpec WITH
              call <- [w \in Waiters |-> AbstractCall(w)],
              storage <- storage,
              result <- [w \in Waiters |-> pc[w] = "out" /\ verdict[w]],
              alive <- active

\* Every behaviour of the semaphore-based code is one of the turn-based
\* rendezvous: a wakeup is consumed by the call it was posted for, a late
\* notification never turns a timeout into a success, nor the reverse.
ImplementsObserverSpec == Abstract!Spec
=============================================================================
