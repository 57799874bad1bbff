------------------------------ MODULE WaitQAbs ------------------------------
(***************************************************************************)
(* What drv_waitq promises its callers, without ports, signals, timers or  *)
(* a waiter list: a condition variable with a timeout.  A task that holds  *)
(* the lock may wait for its condition; while it sleeps the lock is free;  *)
(* it comes back holding the lock, with OK exactly when its condition      *)
(* holds, and with TIMEOUT or NO_RESOURCES only when it does not.          *)
(***************************************************************************)
CONSTANTS Tasks, None

VARIABLES lock,     \* the task that holds the caller's SignalSemaphore, or None
          cond,     \* cond[t]: the condition that task t waits for
          waiting,  \* tasks inside drv_wait_event() that had to sleep
          result    \* result[t]: what t's last wait returned, until t goes on

vars == <<lock, cond, waiting, result>>

Init ==
    /\ lock = None
    /\ cond \in [Tasks -> BOOLEAN]
    /\ waiting = {}
    /\ result = [t \in Tasks |-> "none"]

\* The task holds the lock and is not inside a wait.
Inside(t) == lock = t /\ t \notin waiting

Acquire(t) ==
    /\ lock = None /\ t \notin waiting
    /\ lock' = t
    /\ UNCHANGED <<cond, waiting, result>>

Release(t) ==
    /\ Inside(t)
    /\ lock' = None
    /\ result' = [result EXCEPT ![t] = "none"]
    /\ UNCHANGED <<cond, waiting>>

\* The holder changes the guarded state: any conditions may become true or false.
Change(t) ==
    /\ Inside(t)
    /\ cond' \in [Tasks -> BOOLEAN]
    /\ result' = [result EXCEPT ![t] = "none"]
    /\ UNCHANGED <<lock, waiting>>

\* The next wait begins: the result of the one before is forgotten.
Forget(t) ==
    /\ Inside(t)
    /\ result' = [result EXCEPT ![t] = "none"]
    /\ UNCHANGED <<lock, cond, waiting>>

\* A wait that never sleeps: the condition holds already, or nothing to sleep on.
ReturnAtOnce(t) ==
    /\ Inside(t)
    /\ result' = [result EXCEPT ![t] = IF cond[t] THEN "OK" ELSE "NO_RESOURCES"]
    /\ UNCHANGED <<lock, cond, waiting>>

Begin(t) ==
    /\ Inside(t) /\ ~cond[t]
    /\ waiting' = waiting \cup {t}
    /\ UNCHANGED <<lock, cond, result>>

\* Only a task whose condition is false gives the lock up to sleep.
Sleep(t) ==
    /\ lock = t /\ t \in waiting /\ ~cond[t]
    /\ lock' = None
    /\ UNCHANGED <<cond, waiting, result>>

Wake(t) ==
    /\ lock = None /\ t \in waiting
    /\ lock' = t
    /\ UNCHANGED <<cond, waiting, result>>

Finish(t) ==
    /\ lock = t /\ t \in waiting
    /\ waiting' = waiting \ {t}
    /\ result' = [result EXCEPT ![t] = IF cond[t] THEN "OK" ELSE "TIMEOUT"]
    /\ UNCHANGED <<lock, cond>>

Next ==
    \E t \in Tasks :
        \/ Acquire(t) \/ Release(t) \/ Change(t) \/ Forget(t)
        \/ ReturnAtOnce(t) \/ Begin(t) \/ Sleep(t) \/ Wake(t) \/ Finish(t)

\* Every wait comes to an end, whatever the others do with the lock.
Fairness == \A t \in Tasks : SF_vars(Wake(t)) /\ SF_vars(Finish(t))

SafeSpec == Init /\ [][Next]_vars

Spec == SafeSpec /\ Fairness
=============================================================================
