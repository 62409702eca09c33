------------------------------ MODULE ThreadLib ------------------------------
(***************************************************************************)
(* language/cpp/threadlib/thread.cpp: main starts threads that increment   *)
(* its variables by reference, or copies of them, moves one std::thread    *)
(* into another, joins what is joinable and prints.                        *)
(***************************************************************************)
EXTENDS Naturals, Sequences

CONSTANT Rounds      \* how often each loop runs: 5 in the code

Function == {"f1", "f2", "gg", "foo::bar", "baz"}

(* What main and the threads count: n, f1's parameter, f.n, b.n, and the n *)
(* of the copy of b that t6 runs.                                          *)
Variable == {"n", "f1's n", "f.n", "b.n", "copy of b.n"}
Terminate == 0     \* std::terminate has ended the program
Handle == {"t1", "t2", "t3", "t4", "t5", "t6", "g"}

VARIABLES mem,       \* the value of each variable
          handles,   \* the function that each joinable std::thread runs
          left,      \* the rounds left, for every thread that was started
          loaded,    \* the threads between the load and the store of ++n
          line       \* the next line of main, or Terminate

threadVars == <<mem, handles, left, loaded, line>>

TypeOK == /\ mem \in [Variable -> 0..(2 * Rounds + 1)]
          /\ DOMAIN handles \subseteq Handle
          /\ handles \in [DOMAIN handles -> Function]
          /\ DOMAIN left \subseteq Function
          /\ left \in [DOMAIN left -> 0..Rounds]
          /\ DOMAIN loaded \subseteq DOMAIN left
          /\ line \in (58..75) \cup {Terminate}

Init == /\ mem = [v \in Variable |-> 0]
        /\ handles = [h \in {} |-> h]
        /\ left = [f \in {} |-> f]
        /\ loaded = [f \in {} |-> f]
        /\ line = 58

(* Which variable a thread increments; gg's ++n is a comment (line 25).    *)
(* Mutant: it is not.                                                      *)
Counts_Gg(f) == CASE f = "f1" -> {"f1's n"} [] f \in {"f2", "gg"} -> {"n"}
                  [] f = "foo::bar" -> {"f.n"} [] f = "baz" -> {"copy of b.n"}
Counts(f) == CASE f = "f1" -> {"f1's n"} [] f = "f2" -> {"n"} [] f = "gg" -> {}
               [] f = "foo::bar" -> {"f.n"} [] f = "baz" -> {"copy of b.n"}

With(f, x, y) == [z \in DOMAIN f \cup {x} |-> IF z = x THEN y ELSE f[z]]
Without(f, x) == [z \in DOMAIN f \ {x} |-> f[z]]

(* std::thread h(f, ...): f1 gets n + 1 by value, baz a copy of b. *)
Start(at, h, f, next) ==
  /\ line = at
  /\ handles' = With(handles, h, f)
  /\ left' = With(left, f, Rounds)
  /\ mem' = CASE f = "f1" -> [mem EXCEPT !["f1's n"] = mem["n"] + 1]
              [] f = "baz" -> [mem EXCEPT !["copy of b.n"] = mem["b.n"]]
              [] OTHER -> mem
  /\ line' = next
  /\ UNCHANGED loaded

(* t1 is no thread. *)
Starts == \/ Start(58, "t2", "f1", 60)
          \/ Start(60, "t3", "f2", 61)
          \/ Start(61, "g", "gg", 63)
          \/ Start(65, "t5", "foo::bar", 66)
          \/ Start(66, "t6", "baz", 67)

(* t4(std::move(t3)). Mutant: t3 is still a thread. *)
MoveThread_Copies == /\ line = 63
                     /\ handles' = With(handles, "t4", handles["t3"])
                     /\ line' = 65
                     /\ UNCHANGED <<mem, left, loaded>>
MoveThread == /\ line = 63
              /\ handles' = With(Without(handles, "t3"), "t4", handles["t3"])
              /\ line' = 65
              /\ UNCHANGED <<mem, left, loaded>>

(* join throws, which terminates the program, when h is no thread.         *)
Join(at, h, next) ==
  /\ line = at
  /\ IF h \notin DOMAIN handles
       THEN line' = Terminate /\ UNCHANGED handles
       ELSE /\ left[handles[h]] = 0
            /\ handles' = Without(handles, h)
            /\ line' = next
  /\ UNCHANGED <<mem, left, loaded>>

Joins == \/ Join(67, "t2", 68) \/ Join(68, "t4", 69) \/ Join(69, "t5", 70)
         \/ Join(70, "t6", 71) \/ Join(71, "g", 72)

(* main prints and returns; a thread that is still joinable terminates the *)
(* program.                                                                *)
Return == /\ line = 72
          /\ line' = IF handles = [h \in {} |-> h] THEN 75 ELSE Terminate
          /\ UNCHANGED <<mem, handles, left, loaded>>

Running(f) == line \notin {75, Terminate} /\ f \in DOMAIN left /\ left[f] > 0

(* ++n is a load and a store. *)
Load(f) == /\ Running(f) /\ f \notin DOMAIN loaded
           /\ \E v \in Counts(f) : loaded' = With(loaded, f, mem[v])
           /\ UNCHANGED <<mem, handles, left, line>>

Store(f) == /\ Running(f) /\ f \in DOMAIN loaded
            /\ \E v \in Counts(f) : mem' = [mem EXCEPT ![v] = loaded[f] + 1]
            /\ loaded' = Without(loaded, f)
            /\ left' = [left EXCEPT ![f] = @ - 1]
            /\ UNCHANGED <<handles, line>>

(* A round of gg only prints. *)
Round(f) == /\ Running(f) /\ Counts(f) = {}
            /\ left' = [left EXCEPT ![f] = @ - 1]
            /\ UNCHANGED <<mem, handles, loaded, line>>

Turn(f) == Load(f) \/ Store(f) \/ Round(f)
Main == Starts \/ MoveThread \/ Joins \/ Return

Next == Main \/ \E f \in Function : Turn(f)

-----------------------------------------------------------------------------
(* Two threads have a reference to n, main reads it, and no mutex guards   *)
(* it: the program is right because only one of them writes, and main      *)
(* joins it first. No thread is joined twice or left to be destroyed.      *)
CountsAreFinal ==
  /\ line # Terminate
  /\ line \in {72, 75} => /\ mem["n"] = Rounds /\ mem["f.n"] = Rounds
                          /\ mem["b.n"] = 0
                          /\ mem["f1's n"] = Rounds + 1

(* main returns. *)
Ends == <>(line \in {75, Terminate})
=============================================================================
