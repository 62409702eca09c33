----------------------------- MODULE SafeCounter -----------------------------
(***************************************************************************)
(* language/go/goroutine/9.go: goroutines that increment one counter in a  *)
(* map under a mutex, and main, which sleeps for a second instead of       *)
(* waiting for them and prints what it finds.                              *)
(***************************************************************************)
EXTENDS Naturals, FiniteSets

CONSTANT Counting    \* the goroutines, 1000 in the code

VARIABLES counter,    \* c.v["somekey"]
          counterMu,  \* c.mu is locked
          seenByInc,  \* what each goroutine has read of the counter
          inc,        \* where each goroutine is
          printer,    \* where main is
          printed     \* what it printed

counterVars == <<counter, counterMu, seenByInc, inc, printer, printed>>

TypeOK == /\ {counter, printed} \subseteq 0..Cardinality(Counting)
          /\ counterMu \in BOOLEAN
          /\ seenByInc \in [Counting -> 0..Cardinality(Counting)]
          /\ inc \in [Counting -> {"unborn", "lock", "load", "store", "unlock", "exit"}]
          /\ printer \in {"go", "load", "unlock", "exit"}

Init == /\ counter = 0 /\ printed = 0
        /\ counterMu = FALSE
        /\ seenByInc = [g \in Counting |-> 0]
        /\ inc = [g \in Counting |-> "unborn"]
        /\ printer = "go"

Move(g, from, to) == inc[g] = from /\ inc' = [inc EXCEPT ![g] = to]

Go(g) == /\ printer = "go"
         /\ Move(g, "unborn", "lock")
         /\ UNCHANGED <<counter, counterMu, seenByInc, printer, printed>>

(* Mutant: the mutex is not taken. *)
Lock_Unguarded(g) == /\ Move(g, "lock", "load")
                     /\ counterMu' = TRUE
                     /\ UNCHANGED <<counter, seenByInc, printer, printed>>

Lock(g) == /\ ~counterMu
           /\ Move(g, "lock", "load")
           /\ counterMu' = TRUE
           /\ UNCHANGED <<counter, seenByInc, printer, printed>>

(* c.v[key]++ reads and writes. *)
Load(g) == /\ Move(g, "load", "store")
           /\ seenByInc' = [seenByInc EXCEPT ![g] = counter]
           /\ UNCHANGED <<counter, counterMu, printer, printed>>

Store(g) == /\ Move(g, "store", "unlock")
            /\ counter' = seenByInc[g] + 1
            /\ UNCHANGED <<counterMu, seenByInc, printer, printed>>

Unlock(g) == /\ Move(g, "unlock", "exit")
             /\ counterMu' = FALSE
             /\ UNCHANGED <<counter, seenByInc, printer, printed>>

(* Value, after a sleep that waits for nobody. *)
ValueLock == /\ printer = "go"
             /\ \A g \in Counting : inc[g] # "unborn"
             /\ ~counterMu
             /\ counterMu' = TRUE
             /\ printer' = "load"
             /\ UNCHANGED <<counter, seenByInc, inc, printed>>

ValueLoad == /\ printer = "load"
             /\ printed' = counter
             /\ printer' = "unlock"
             /\ UNCHANGED <<counter, counterMu, seenByInc, inc>>

(* The deferred unlock; main prints and returns, and everything ends.      *)
ValueUnlock == /\ printer = "unlock"
               /\ counterMu' = FALSE
               /\ printer' = "exit"
               /\ UNCHANGED <<counter, seenByInc, inc, printed>>

Running == printer # "exit"
Inc(g) == Running /\ (Go(g) \/ Lock(g) \/ Load(g) \/ Store(g) \/ Unlock(g))
Main == ValueLock \/ ValueLoad \/ ValueUnlock

Next == Main \/ \E g \in Counting : Inc(g)

-----------------------------------------------------------------------------
(* No increment is lost: the counter is the number of goroutines that have *)
(* stored theirs; what main prints is a count that was true when it held   *)
(* the lock.                                                               *)
NoIncLost ==
  LET stored == Cardinality({g \in Counting : inc[g] \in {"unlock", "exit"}})
  IN counter = stored /\ (printer = "unlock" => printed = counter)

(* main prints, however the goroutines are scheduled. *)
Prints == <>(printer = "exit")
=============================================================================
