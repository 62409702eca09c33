------------------------------- MODULE Strace -------------------------------
(***************************************************************************)
(* kernel/plka/code/strace.c: the tracer attaches to a process, resumes it *)
(* up to its next system call from the handler of SIGCHLD, and waits for   *)
(* it in main. sigact is not initialised but for its handler: sa_flags is  *)
(* any of them. The tracee, its signals and ptrace are the kernel's.       *)
(***************************************************************************)
EXTENDS Naturals

CONSTANTS CallsMade,    \* the tracee makes this many system calls, then exits
          Signals       \* and gets at most this many signals

VARIABLES sa_flags, handled,    \* SIGCHLD runs the handler (until SA_RESETHAND)
          tracer,               \* where main is
          handler, res,         \* where sigchld_handler is; main's res
          pending,              \* SIGCHLD is pending, once for any number
          tracee, untold,       \* its status, which wait has not returned yet
          at, scno, code,       \* where it is, its system call, its exit code
          sig, made, signals,   \* a signal for it is due; the bounds
          stops, printed        \* its stops in calls, and those reported

straceVars == <<sa_flags, handled, tracer, handler, res, pending, tracee, untold,
                at, scno, code, sig, made, signals, stops, printed>>
main == <<tracer, res>>
mode == <<sa_flags, handled>>
place == <<at, scno, code, sig, made, signals>>
report == <<stops, printed>>

Flags == {"RESTART", "RESETHAND", "NOCLDSTOP", "NOCLDWAIT"}

(* The tracee runs on its own, in a system call or not. *)
Init == /\ sa_flags \in SUBSET Flags /\ handled = FALSE
        /\ tracer = "start" /\ handler = "idle" /\ res = 0 /\ pending = FALSE
        /\ tracee = "free" /\ untold = FALSE
        /\ at \in {"user", "call"} /\ scno \in 0..1 /\ code = 0
        /\ sig = FALSE /\ made = 0 /\ signals = 0 /\ stops = 0 /\ printed = 0

(* The arguments, sigaction, and PTRACE_ATTACH, which sends SIGSTOP.       *)
Attach == /\ tracer = "start" /\ handled' = TRUE
          /\ tracer' = "wait" /\ res' = 0 /\ tracee' = "attached"
          /\ UNCHANGED <<sa_flags, handler, pending, untold, place, report>>
Refuse == /\ tracer = "start" /\ tracer' = "exited"
          /\ UNCHANGED <<mode, res, handler, pending, tracee, untold, place, report>>

(* The kernel tells the tracer that its tracee stopped or exited. *)
Tell(unless) == pending' = (pending \/ (handled /\ unless \notin sa_flags))

Stop == /\ tracee' = "stopped" /\ untold' = TRUE
        /\ Tell("NOCLDSTOP")
        /\ stops' = IF at' = "user" \/ scno' = 0 THEN stops ELSE stops + 1
        /\ UNCHANGED <<main, mode, handler, code, printed>>

(* A signal, first of all the SIGSTOP of the attach, stops the tracee on   *)
(* its way back to user mode and interrupts its call; once it is traced,   *)
(* the calls it enters and leaves stop it too. A call that is restarted is *)
(* one more, maybe restart_syscall, which is number 0. The last is exit.   *)
Halt == /\ \/ tracee = "attached"
           \/ tracee = "traced" /\ sig /\ at # "call"
        /\ at' = IF at = "call" THEN "return" ELSE at
        /\ sig' = FALSE /\ UNCHANGED <<scno, made, signals>>
        /\ Stop
Signal == /\ tracee = "traced" /\ signals < Signals
          /\ sig' = TRUE /\ signals' = signals + 1
          /\ UNCHANGED <<main, mode, handler, pending, tracee, untold, at, scno, code, made, report>>
Enter == /\ tracee = "traced" /\ at = "user" /\ made < CallsMade
         /\ at' = "call" /\ made' = made + 1
         /\ scno' \in IF made' = CallsMade THEN {1} ELSE 0..1
         /\ UNCHANGED <<sig, signals>>
         /\ Stop
Leave == /\ tracee = "traced" /\ at = "call" /\ made < CallsMade
         /\ at' = "return" /\ UNCHANGED <<scno, sig, made, signals>>
         /\ Stop
Return == /\ tracee = "traced" /\ at = "return" /\ ~sig /\ at' = "user"
          /\ UNCHANGED <<main, mode, handler, pending, tracee, untold, scno, code, sig, made, signals, report>>

Die(c) == /\ code' = c
          /\ tracee' = IF "NOCLDWAIT" \in sa_flags THEN "reaped" ELSE "zombie"
          /\ untold' = TRUE
          /\ Tell("none")
          /\ UNCHANGED <<main, mode, handler, at, scno, sig, made, signals, report>>
Exit == tracee = "traced" /\ at = "call" /\ made = CallsMade /\ \E c \in 0..1 : Die(c)
Kill == tracee \in {"attached", "traced", "stopped"} /\ Die(9)

(* SIGCHLD is taken between main's steps and inside wait, which fails then *)
(* unless SA_RESTART is set; it is blocked while its handler runs.         *)
TakeSignal == /\ pending /\ handler = "idle" /\ tracer \in {"wait", "test"}
              /\ pending' = FALSE /\ handler' = "peek"
              /\ handled' = ("RESETHAND" \notin sa_flags)
              /\ \/ UNCHANGED tracer
                 \/ tracer = "wait" /\ "RESTART" \notin sa_flags /\ tracer' = "test"
              /\ UNCHANGED <<sa_flags, res, tracee, untold, place, report>>

(* upeek and the report. orig_eax is -1 outside of system calls: upeek     *)
(* takes it for an error, as it takes that there is no such process. *)
Readable == tracee = "stopped" /\ at # "user"
Peek == /\ handler = "peek"
        /\ handler' = IF Readable THEN "resume" ELSE "idle"
        /\ printed' = IF Readable /\ scno # 0 THEN printed + 1 ELSE printed
        /\ UNCHANGED <<main, mode, pending, tracee, untold, place, stops>>

(* Mutant: only calls that were printed are resumed. *)
Resume_Printed == /\ handler = "resume" /\ handler' = "idle"
                  /\ tracee' = IF tracee = "stopped" /\ scno # 0 THEN "traced" ELSE tracee
                  /\ untold' = (untold /\ tracee # "stopped")
                  /\ UNCHANGED <<main, mode, pending, place, report>>

(* trace_syscall: PTRACE_SYSCALL with no signal to deliver. A stop that    *)
(* wait has not returned yet is forgotten.                                 *)
Resume == /\ handler = "resume" /\ handler' = "idle"
          /\ tracee' = IF tracee = "stopped" THEN "traced" ELSE tracee
          /\ untold' = (untold /\ tracee # "stopped")
          /\ UNCHANGED <<main, mode, pending, place, report>>

(* wait(&res): a stop is 0x7f in the low byte; without children it fails,  *)
(* and res keeps what it had.                                              *)
Waits == tracer = "wait" /\ handler = "idle"
Stopped == 127
Wait == /\ Waits /\ untold /\ tracee \in {"stopped", "zombie"}
        /\ tracer' = "test" /\ untold' = FALSE
        /\ res' = IF tracee = "stopped" THEN Stopped ELSE code
        /\ tracee' = IF tracee = "zombie" THEN "reaped" ELSE tracee
        /\ UNCHANGED <<mode, handler, pending, place, report>>
NoChild == /\ Waits /\ tracee = "reaped" /\ tracer' = "test"
           /\ UNCHANGED <<mode, res, handler, pending, tracee, untold, place, report>>

(* Mutant: the loop ends whenever wait returns the status of an exit. *)
Test_AnyExit == /\ tracer = "test" /\ handler = "idle"
                /\ tracer' = IF res # Stopped THEN "exited" ELSE "wait"
                /\ UNCHANGED <<mode, res, handler, pending, tracee, untold, place, report>>

(* if (res == 0) exit(1): the kernel lets the tracee go. *)
Test == /\ tracer = "test" /\ handler = "idle"
        /\ tracer' = IF res = 0 THEN "exited" ELSE "wait"
        /\ UNCHANGED <<mode, res, handler, pending, tracee, untold, place, report>>

Tracer == Attach \/ TakeSignal \/ Peek \/ Resume \/ Wait \/ NoChild \/ Test
Tracee == Halt \/ Enter \/ Leave \/ Return \/ Exit
Next == tracer # "exited" /\ (Tracer \/ Refuse \/ Tracee \/ Signal \/ Kill)

-----------------------------------------------------------------------------
(* Nobody resumes the tracee but the handler: it stays stopped only if its *)
(* orig_eax was -1 or the flags kept SIGCHLD away. *)
NeverForgotten ==
  tracee = "stopped" /\ tracer # "exited" /\ ~pending /\ handler = "idle"
    => at = "user" \/ sa_flags \cap {"RESETHAND", "NOCLDSTOP"} # {}

(* A stop in a system call is reported once, so a call twice, at its entry *)
(* and at its end, and once more for each signal it gets. *)
ReportedOnce ==
  LET due == IF tracee = "stopped" /\ scno # 0 /\ at # "user" /\ handler # "resume" THEN 1 ELSE 0
  IN tracee \in {"stopped", "traced"} => printed + due = stops

(* The tracer leaves its loop because the tracee exited with 0, unless the *)
(* flags make wait fail before it has written res. *)
LeavesOnExit ==
  tracer = "exited" /\ handled /\ "RESTART" \in sa_flags /\ "NOCLDWAIT" \notin sa_flags
    => tracee = "reaped" /\ code = 0

(* With SA_RESTART alone, the tracee runs on to its exit, or is stopped    *)
(* outside of system calls for ever; a tracer with nothing to trace ends   *)
(* if that exit was 0. *)
TracesToTheEnd ==
  /\ sa_flags = {"RESTART"} /\ tracer = "wait"
       ~> tracee = "reaped" \/ (tracee = "stopped" /\ at = "user")
  /\ sa_flags = {"RESTART"} /\ tracee = "reaped" /\ code = 0 ~> tracer = "exited"
=============================================================================
