------------------------------- MODULE CondVar -------------------------------
(***************************************************************************)
(* docs/concurrent/code/cv.cpp: threads wait on a condition variable until *)
(* ready is not 0 and take one from it; main sets ready once and wakes     *)
(* them all. Where the program has 10 threads and sets 4 the last ones     *)
(* wait for ever, and main with them.                                      *)
(***************************************************************************)
EXTENDS Naturals, FiniteSets

CONSTANTS Thread, Permits

VARIABLES mtx,      \* who holds mtx: a thread, "main" or "none"
          ready,
          waiter,   \* where each thread is
          waker     \* where main is

cvVars == <<mtx, ready, waiter, waker>>

TypeOK == /\ mtx \in Thread \cup {"main", "none"}
          /\ ready \in 0..Permits
          /\ waiter \in [Thread -> {"unborn", "lock", "test", "wait", "woken", "sleep", "exit"}]
          /\ waker \in {"spawn", "set", "notify", "unlock", "join", "exit"}

Init == /\ mtx = "none"
        /\ ready = 0
        /\ waiter = [t \in Thread |-> "unborn"]
        /\ waker = "spawn"

Move(t, from, to) == waiter[t] = from /\ waiter' = [waiter EXCEPT ![t] = to]

(* main starts the threads. *)
Spawn(t) == /\ waker = "spawn"
            /\ Move(t, "unborn", "lock")
            /\ UNCHANGED <<mtx, ready, waker>>

(* unique_lock at the start, and again inside wait. *)
Acquire(t) == /\ mtx = "none"
              /\ mtx' = t
              /\ waiter[t] \in {"lock", "woken"}
              /\ waiter' = [waiter EXCEPT ![t] = "test"]
              /\ UNCHANGED <<ready, waker>>

(* while (!ready) cv.wait(lck) gives the lock up as it begins to wait. *)
Wait(t) == /\ ready = 0
           /\ Move(t, "test", "wait")
           /\ mtx' = "none"
           /\ UNCHANGED <<ready, waker>>

(* wait may return without a notification. *)
WakeUp(t) == Move(t, "wait", "woken") /\ UNCHANGED <<mtx, ready, waker>>

(* Mutant: ready is not looked at again after the wait. *)
Take_Untested(t) == /\ Move(t, "test", "sleep")
                    /\ ready' = ready - 1
                    /\ UNCHANGED <<mtx, waker>>

(* ready--, and the sleep with the lock held. *)
Take(t) == /\ ready # 0
           /\ Move(t, "test", "sleep")
           /\ ready' = ready - 1
           /\ UNCHANGED <<mtx, waker>>

Leave(t) == /\ Move(t, "sleep", "exit")
            /\ mtx' = "none"
            /\ UNCHANGED <<ready, waker>>

(* go(), once the threads are started; its sleep promises nothing.         *)
GoLock == /\ waker = "spawn"
          /\ \A t \in Thread : waiter[t] # "unborn"
          /\ mtx = "none"
          /\ mtx' = "main"
          /\ waker' = "set"
          /\ UNCHANGED <<ready, waiter>>

GoSet == /\ waker = "set"
         /\ ready' = Permits
         /\ waker' = "notify"
         /\ UNCHANGED <<mtx, waiter>>

(* Mutant: notify_one. *)
NotifyAll_One ==
  /\ waker = "notify"
  /\ waker' = "unlock"
  /\ IF \E t \in Thread : waiter[t] = "wait"
       THEN \E t \in Thread : Move(t, "wait", "woken")
       ELSE UNCHANGED waiter
  /\ UNCHANGED <<mtx, ready>>

NotifyAll == /\ waker = "notify"
             /\ waker' = "unlock"
             /\ waiter' = [t \in Thread |-> IF waiter[t] = "wait" THEN "woken" ELSE waiter[t]]
             /\ UNCHANGED <<mtx, ready>>

GoUnlock == /\ waker = "unlock"
            /\ waker' = "join"
            /\ mtx' = "none"
            /\ UNCHANGED <<ready, waiter>>

Join == /\ waker = "join"
        /\ \A t \in Thread : waiter[t] = "exit"
        /\ waker' = "exit"
        /\ UNCHANGED <<mtx, ready, waiter>>

Step(t) == Spawn(t) \/ Wait(t) \/ Take(t) \/ Leave(t)
Main == GoSet \/ NotifyAll \/ GoUnlock \/ Join

Next == GoLock \/ Main \/ \E t \in Thread : Step(t) \/ Acquire(t) \/ WakeUp(t)

-----------------------------------------------------------------------------
Passed == {t \in Thread : waiter[t] \in {"sleep", "exit"}}

(* Each of the permits lets one thread pass, whatever wakes up when, and   *)
(* main does not return before the threads that will never pass.           *)
PermitsTaken ==
  /\ ready + Cardinality(Passed) = IF waker \in {"spawn", "set"} THEN 0 ELSE Permits
  /\ waker = "exit" => Passed = Thread

(* No permit is left lying while a thread waits for one. *)
PermitsUsed == <>[](ready = 0 \/ Passed = Thread)
=============================================================================
