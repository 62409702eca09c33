------------------------------ MODULE GlibLoops ------------------------------
(***************************************************************************)
(* docs/qemu/glib/glib.c: main loops of GLib with a timer each, and a main *)
(* loop with a source that waits for standard input with poll and reads it *)
(* with stdio. main calls the last of its four demos; any may be called.   *)
(* The loops, contexts, poll and stdio are external.                       *)
(***************************************************************************)
EXTENDS Naturals

CONSTANTS Input,        \* units of input
          Layouts,      \* which of them may be the ends of lines
          MaxLine       \* fgets takes fewer units than this at a time

VARIABLES demo,         \* the one that runs
          loop,         \* the loop that runs: 1, 2 or none
          running,      \* the loops' is_running
          freed,        \* the loops that were unref'd for the last time
          expired,      \* the timers that are due, by their loop
          count,        \* callback's i
          newlines,     \* the units that end lines
          tty,          \* standard input is a terminal, not a pipe
          written, eof, \* units in the pipe so far; its writer has closed it
          buffered,     \* units that stdio has read
          taken,        \* units that fgets has returned
          source        \* the source is polled, read or at its end

glibVars == <<demo, loop, running, freed, expired, count, newlines, tty, written, eof, buffered, taken, source>>
timerVars == <<running, freed, expired, count>>
inputVars == <<newlines, tty, written, eof, buffered, taken, source>>

None == 0
TimerDemos == {"two_main_loop", "one_loop", "defautl_context"}

Init == /\ demo \in TimerDemos \cup {"non_default_g_source"}
        /\ loop = 1 /\ running = {1} /\ freed = {} /\ expired = {} /\ count = 0
        /\ newlines \in IF demo = "non_default_g_source" THEN Layouts ELSE {{}}
        /\ tty \in IF demo = "non_default_g_source" THEN BOOLEAN ELSE {FALSE}
        /\ written = 0 /\ eof = FALSE /\ buffered = 0 /\ taken = 0 /\ source = "poll"

(* A second has passed since the timer was set, or more: a timer that      *)
(* nobody serves stays due. *)
Attached == IF demo = "two_main_loop" THEN {1, 2} ELSE {1}
Expire(l) == /\ demo \in TimerDemos /\ l \in Attached \ expired
             /\ expired' = expired \cup {l}
             /\ UNCHANGED <<demo, loop, running, freed, count, inputVars>>

(* Mutant: i is tested before it is counted up. *)
Callback_TestsFirst(data) ==
  /\ count' = (count + 1) % 65536
  /\ running' = IF count % 3 = 0 THEN running \ {data} ELSE running
(* Mutant: the second timer's data is loop1 as well. *)
Callback_FirstLoop(data) ==
  /\ count' = (count + 1) % 65536
  /\ running' = IF count' % 3 = 0 THEN running \ {1} ELSE running

(* callback: every third call, of whichever timer, stops the loop that is  *)
(* its data. *)
Callback(data) == /\ count' = (count + 1) % 65536
                  /\ running' = IF count' % 3 = 0 THEN running \ {data} ELSE running

(* An iteration of the loop that runs, on its own context. *)
Dispatch(l) == /\ demo \in TimerDemos /\ loop = l /\ l \in running \cap expired
               /\ expired' = expired \ {l}
               /\ Callback(l)
               /\ UNCHANGED <<demo, loop, freed, inputVars>>

(* Mutant: the second call of g_main_loop_run names loop1 again. *)
RunReturns_FirstAgain ==
  /\ demo \in TimerDemos /\ loop # None /\ loop \notin running
  /\ IF demo = "two_main_loop" THEN UNCHANGED loop ELSE loop' = None
  /\ UNCHANGED <<demo, running, freed, expired, count, inputVars>>

(* g_main_loop_run returns: two_main_loop frees the first loop, whose      *)
(* timer goes on with a pointer to it, and runs the second.                *)
RunReturns == /\ demo \in TimerDemos /\ loop # None /\ loop \notin running
              /\ IF demo = "two_main_loop" /\ loop = 1
                   THEN loop' = 2 /\ running' = running \cup {2} /\ freed' = {1}
                   ELSE loop' = None /\ UNCHANGED <<running, freed>>
              /\ UNCHANGED <<demo, expired, count, inputVars>>

-----------------------------------------------------------------------------
Stdin == demo = "non_default_g_source"
Ends(n, m) == {k \in newlines : n < k /\ k <= m}

(* A terminal gives whole lines. *)
Write(n) == /\ Stdin /\ ~eof /\ written < n /\ n <= Input
            /\ tty => n \in newlines
            /\ written' = n
            /\ UNCHANGED <<demo, loop, timerVars, newlines, tty, eof, buffered, taken, source>>
Close == /\ Stdin /\ ~eof /\ eof' = TRUE
         /\ UNCHANGED <<demo, loop, timerVars, newlines, tty, written, buffered, taken, source>>

(* prepare is FALSE with no timeout, so poll waits for the file            *)
(* descriptor; check says TRUE, whatever poll saw.                         *)
Poll == /\ Stdin /\ source = "poll"
        /\ eof \/ buffered < written
        /\ source' = "read"
        /\ UNCHANGED <<demo, loop, timerVars, newlines, tty, written, eof, buffered, taken>>

(* read(2) gives what is there, a line at most of a terminal. *)
Fill == /\ buffered < written
        /\ buffered' \in IF tty THEN {CHOOSE k \in Ends(buffered, written) : Ends(buffered, k) = {k}}
                                ELSE buffered + 1 .. written

(* Mutant: fgets gets the size of a pointer. *)
Piece_Short(n) == taken + 1

(* What fgets returns of n units: a line, or as much of it as fits. *)
Piece(n) == CHOOSE k \in taken + 1 .. n : /\ k \in newlines \/ k = taken + MaxLine - 1 \/ k = n
                                          /\ \A j \in taken + 1 .. k - 1 : j \notin newlines
                                          /\ k < taken + MaxLine
Complete == buffered > taken /\ (Ends(taken, buffered) # {} \/ buffered - taken >= MaxLine - 1)

Gets == /\ Complete /\ source' = "poll" /\ taken' = Piece(buffered) /\ UNCHANGED buffered
GetsMore == ~Complete /\ Fill /\ UNCHANGED <<source, taken>>
GetsLast == /\ ~Complete /\ eof /\ buffered = written
            /\ taken' = buffered
            /\ source' = IF taken = buffered THEN "end" ELSE "poll"
            /\ UNCHANGED buffered

(* aio_ctx_dispatch: fgets fills the buffer if it holds no line, and waits *)
(* in read, not in the loop, while half a line has come. At the end of the *)
(* input it fails, and line is printed as it was: again and again, since   *)
(* poll does not wait any more.                                            *)
AioDispatch == /\ Stdin /\ source \in {"read", "end"}
               /\ Gets \/ GetsMore \/ GetsLast
               /\ UNCHANGED <<demo, loop, timerVars, newlines, tty, written, eof>>

Iterate == RunReturns \/ Poll \/ AioDispatch \/ \E l \in {1, 2} : Dispatch(l)
Next == Iterate \/ Close \/ (\E l \in {1, 2} : Expire(l)) \/ \E n \in 1..Input : Write(n)

-----------------------------------------------------------------------------
(* No callback gets a loop that was freed, though its timer is still set:  *)
(* nothing that runs iterates the context of that timer. And each loop     *)
(* runs for three callbacks of its own, although the timers share a count. *)
LoopsLive ==
  /\ loop \notin freed
  /\ loop # None => count \in 3 * (loop - 1) .. 3 * loop
  /\ loop = None => count = IF demo = "two_main_loop" THEN 6 ELSE 3

(* While the loop waits for a terminal that has sent nothing, every line   *)
(* typed has been printed, unless one is too long for the array. Of a pipe *)
(* whole lines may wait with it: they came in one read.                    *)
Fits == \A k \in newlines : \E j \in newlines \cup {0} : j < k /\ k - j < MaxLine
NoLineWaits ==
  tty /\ Fits /\ source = "poll" /\ buffered = written => taken = written

(* The loops with timers return. The one on standard input does not, but   *)
(* at the end of the input it has printed all of it.                       *)
Returns == /\ demo \in TimerDemos => <>(loop = None)
           /\ Stdin /\ eof ~> taken = written
=============================================================================
