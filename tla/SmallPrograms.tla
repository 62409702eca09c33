---------------------------- MODULE SmallPrograms ----------------------------
(***************************************************************************)
(* The small concurrent programs of the repository side by side. They      *)
(* share nothing: runs names the one that runs.                            *)
(***************************************************************************)
EXTENDS Integers, FiniteSets

CONSTANTS Thread, Permits,            \* cv.cpp
          Rounds,                     \* thread.cpp
          Counting, Cap,              \* goroutine
          Worker, Directory, File     \* edk2_compile_commands.py

ASSUME PermitsNat == Permits \in Nat
ASSUME RoundsNat == Rounds \in Nat
ASSUME CapPositive == Cap \in Nat \ {0}
ASSUME ThreadsFinite == IsFiniteSet(Thread) /\ IsFiniteSet(Counting)
ASSUME ABuildHasFiles == File # {}

VARIABLES runs,
          mtx, ready, waiter, waker,
          mem, handles, left, loaded, line,
          counter, counterMu, seenByInc, inc, printer, printed,
          prog, buf, closed, pair, i, halves, got, ended,
          cwd, locks, worker, todo, target, content, mixed, db, recorded, accident

cvVars == <<mtx, ready, waiter, waker>>
threadVars == <<mem, handles, left, loaded, line>>
counterVars == <<counter, counterMu, seenByInc, inc, printer, printed>>
goVars == <<prog, buf, closed, pair, i, halves, got, ended>>
ccVars == <<cwd, locks, worker, todo, target, content, mixed, db, recorded, accident>>
vars == <<runs, cvVars, threadVars, counterVars, goVars, ccVars>>

CV == INSTANCE CondVar
TL == INSTANCE ThreadLib
SC == INSTANCE SafeCounter
GC == INSTANCE GoChannels
CC == INSTANCE CompileCommands

ASSUME WorkersAreSomeone == CC!NoOne \notin Worker

(* The others are left at one of their initial states. *)
Init == /\ runs \in {"cv", "threadlib", "counter", "channels", "edk2"}
        /\ CV!Init /\ TL!Init /\ SC!Init /\ GC!Init /\ CC!Init
        /\ runs # "channels" => prog = "2.go"
        /\ runs # "edk2" => /\ cwd \in {[w \in Worker |-> d] : d \in Directory}
                            /\ todo = [w \in Worker |-> {}]

RunsCV == runs = "cv" /\ CV!Next
          /\ UNCHANGED <<runs, threadVars, counterVars, goVars, ccVars>>
RunsThreadLib == runs = "threadlib" /\ TL!Next
                 /\ UNCHANGED <<runs, cvVars, counterVars, goVars, ccVars>>
RunsCounter == runs = "counter" /\ SC!Next
               /\ UNCHANGED <<runs, cvVars, threadVars, goVars, ccVars>>
RunsChannels == runs = "channels" /\ GC!Next
                /\ UNCHANGED <<runs, cvVars, threadVars, counterVars, ccVars>>
RunsEdk2 == runs = "edk2" /\ CC!Next
            /\ UNCHANGED <<runs, cvVars, threadVars, counterVars, goVars>>

Next == RunsCV \/ RunsThreadLib \/ RunsCounter \/ RunsChannels \/ RunsEdk2

(* Every thread, goroutine and worker that can run does, in the end; of    *)
(* those that wait for mtx one gets it, and go() is not starved by threads *)
(* that wake up without cause. The other mutexes need no such promise:     *)
(* each of their users takes them a bounded number of times.               *)
Fairness ==
  /\ SF_cvVars(runs = "cv" /\ CV!GoLock)
  /\ WF_cvVars(runs = "cv" /\ CV!Main)
  /\ WF_cvVars(runs = "cv" /\ \E t \in Thread : CV!Acquire(t))
  /\ \A t \in Thread : WF_cvVars(runs = "cv" /\ CV!Step(t))
  /\ WF_threadVars(runs = "threadlib" /\ TL!Main)
  /\ \A f \in TL!Function : WF_threadVars(runs = "threadlib" /\ TL!Turn(f))
  /\ WF_counterVars(runs = "counter" /\ SC!Main)
  /\ \A g \in Counting : WF_counterVars(runs = "counter" /\ SC!Inc(g))
  /\ WF_goVars(runs = "channels" /\ GC!Next)
  /\ \A w \in Worker : WF_ccVars(runs = "edk2" /\ CC!Step(w))

Spec == Init /\ [][Next]_vars /\ Fairness

-----------------------------------------------------------------------------
TypeOK == CV!TypeOK /\ TL!TypeOK /\ SC!TypeOK /\ GC!TypeOK /\ CC!TypeOK

(* What each program computes is right whatever the schedule: permits are  *)
(* taken by one thread each, shared counters lose nothing, channels        *)
(* deliver everything in order, and the database has every update until a  *)
(* worker dies as it writes, which tears it, or cannot read it.            *)
Safe == /\ CV!PermitsTaken
        /\ TL!CountsAreFinal
        /\ SC!NoIncLost
        /\ GC!Delivered
        /\ CC!NoUpdateLost /\ CC!TornIsFinal

(* Each program gets where it should: permits do not lie unused, the mains *)
(* that can return do, and workers are served.                             *)
Ends == /\ runs = "cv" => CV!PermitsUsed
        /\ runs = "threadlib" => TL!Ends
        /\ runs = "counter" => SC!Prints
        /\ runs = "channels" => GC!Returns
        /\ runs = "edk2" => CC!Served
=============================================================================
