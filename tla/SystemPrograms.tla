--------------------------- MODULE SystemPrograms ---------------------------
(***************************************************************************)
(* The programs of the repository that try out an interface of the kernel  *)
(* or of a library, a game, and the scripts that make virtual machines,    *)
(* side by side. They share nothing: runs names the one that runs.         *)
(***************************************************************************)
EXTENDS Integers, Sequences

CONSTANTS CallsMade, Signals,                   \* strace.c
          Input, Layouts, MaxLine,              \* glib.c
          CallsOfPrintf, Texts, Copies, Width,  \* printf.c, io.c, string.c
          User, BufferLen, Counts,              \* mydebug_fs.c
          Blocks,                               \* malloc_thread_safe
          Address, Mapped,                      \* proc-self-maps
          W, H, Screens                         \* snake.c

(* Sizes and places are numbers; fgets gets an array of two chars or more; *)
(* a string that strcpy gets ends at a NUL.                                *)
ASSUME LayoutsOfInput == Input \in Nat /\ Layouts \subseteq SUBSET (1..Input)
ASSUME MaxLineAtLeastTwo == MaxLine \in Nat /\ MaxLine >= 2
ASSUME StringsEnd == \A c \in Copies : /\ c.mem \in Seq(STRING)
                                       /\ c.src \in 1..Len(c.mem) /\ c.dst \in 1..Len(c.mem)
                                       /\ \E n \in c.src .. Len(c.mem) : c.mem[n] = "NUL"
ASSUME CountsAreSizes == BufferLen \in Nat /\ Counts \subseteq Nat
ASSUME BlocksNat == Blocks \in Nat
ASSUME AddressesPositive == Address \subseteq Nat \ {0} /\ Mapped \subseteq Address

(* The board is 30 by 30 (line 7 of snake.c). The snake starts in the      *)
(* middle of a board of even sides, and what rand gives (line 30) ends     *)
(* before the last free cell of a board that is much taller than wide.     *)
ASSUME EvenBoard == W \in 4..30 /\ H \in 4..30 /\ W % 2 = 0 /\ H % 2 = 0
ASSUME BoardNotTall == H <= W + 4
ASSUME ScreensOfCells == Screens \subseteq SUBSET (0 .. W * H - 1)

VARIABLES runs,
          sa_flags, handled, tracer, handler, res, pending, tracee, untold,
          at, scno, code, sig, made, signals, stops, printed,
          demo, loop, running, freed, expired, count, newlines, tty, written, eof,
          buffered, taken, source,
          call, closed, traverse, arg, text, out, len, status, returned, mem, dst, src,
          module, line, entries, u64int, ker_buf, file, oops,
          program, result, pc, x, need_locks, lock, freeList, seen,
          mapper, thread, addr, maps, atOpen, mutex, readTo, lines,
          screen, Board, Snake, h, t, food, moveDirection, state,
          script, step, test, files, accident, torn

straceVars == <<sa_flags, handled, tracer, handler, res, pending, tracee, untold,
                at, scno, code, sig, made, signals, stops, printed>>
glibVars == <<demo, loop, running, freed, expired, count, newlines, tty, written, eof,
              buffered, taken, source>>
printVars == <<call, closed, traverse, arg, text, out, len, status, returned, mem, dst, src>>
debugVars == <<module, line, entries, u64int, ker_buf, file, oops>>
mallocVars == <<program, result, pc, x, need_locks, lock, freeList, seen>>
mapsVars == <<mapper, thread, addr, maps, atOpen, mutex, readTo, lines>>
snakeVars == <<screen, Board, Snake, h, t, food, moveDirection, state>>
provisionVars == <<script, step, test, files, accident, torn>>
vars == <<runs, straceVars, glibVars, printVars, debugVars, mallocVars, mapsVars, snakeVars,
          provisionVars>>

ST == INSTANCE Strace
GL == INSTANCE GlibLoops
MP == INSTANCE MiniCrtPrint WITH at <- traverse, result <- returned
DF == INSTANCE Debugfs WITH len <- BufferLen
ML == INSTANCE MallocLoops
SM == INSTANCE SelfMaps WITH pc <- mapper, at <- readTo
SN == INSTANCE Snake
PV == INSTANCE Provision WITH k <- test

(* printf gets what its format says, in words of Width bits.               *)
ASSUME ArgumentsAreTyped == Width \in Nat \ {0} /\ \A c \in CallsOfPrintf : MP!Typed(c)

(* The others are left at one of their initial states. *)
Init == /\ runs \in {"strace", "glib", "minicrt", "debugfs", "malloc", "maps", "snake", "scripts"}
        /\ ST!Init /\ (runs # "strace" => sa_flags = {} /\ at = "user" /\ scno = 0)
        /\ GL!Init /\ (runs # "glib" => demo = "one_loop")
        /\ ML!Init /\ (runs # "malloc" => program = "clone")
        /\ DF!Init /\ SM!Init
        /\ SN!Init /\ (runs # "snake" => screen = 0 .. W * H - 1)
        /\ PV!Init /\ (runs # "scripts" => script = "yocto")
        /\ IF runs = "minicrt" THEN MP!Init
           ELSE /\ call = <<>> /\ closed = FALSE /\ traverse = 1 /\ arg = 1 /\ text = <<>>
                /\ out = <<>> /\ len = 0 /\ status = "runs" /\ returned = 0
                /\ mem = <<>> /\ dst = 0 /\ src = 0

RunsStrace == runs = "strace" /\ ST!Next
              /\ UNCHANGED <<runs, glibVars, printVars, debugVars, mallocVars, mapsVars, snakeVars,
                             provisionVars>>
RunsGlib == runs = "glib" /\ GL!Next
            /\ UNCHANGED <<runs, straceVars, printVars, debugVars, mallocVars, mapsVars, snakeVars,
                           provisionVars>>
RunsMiniCrt == runs = "minicrt" /\ MP!Next
               /\ UNCHANGED <<runs, straceVars, glibVars, debugVars, mallocVars, mapsVars, snakeVars,
                              provisionVars>>
RunsDebugfs == runs = "debugfs" /\ DF!Next
               /\ UNCHANGED <<runs, straceVars, glibVars, printVars, mallocVars, mapsVars, snakeVars,
                              provisionVars>>
RunsMalloc == runs = "malloc" /\ ML!Next
              /\ UNCHANGED <<runs, straceVars, glibVars, printVars, debugVars, mapsVars, snakeVars,
                             provisionVars>>
RunsMaps == runs = "maps" /\ SM!Next
            /\ UNCHANGED <<runs, straceVars, glibVars, printVars, debugVars, mallocVars, snakeVars,
                           provisionVars>>
RunsSnake == runs = "snake" /\ SN!Next
             /\ UNCHANGED <<runs, straceVars, glibVars, printVars, debugVars, mallocVars, mapsVars,
                            provisionVars>>
RunsScripts == runs = "scripts" /\ PV!Next
               /\ UNCHANGED <<runs, straceVars, glibVars, printVars, debugVars, mallocVars,
                               mapsVars, snakeVars>>

Next == \/ RunsStrace \/ RunsGlib \/ RunsMiniCrt \/ RunsDebugfs \/ RunsMalloc
        \/ RunsMaps \/ RunsSnake \/ RunsScripts

(* Every process and thread that can run does, in the end, the traced one  *)
(* too; a loop of GLib iterates, and seconds pass. The lock of malloc is   *)
(* not kept from a thread for ever. What people type, and signals, may     *)
(* never come, and nobody need start a script.                             *)
Fairness ==
  /\ WF_straceVars(runs = "strace" /\ tracer # "exited" /\ ST!Tracer)
  /\ WF_straceVars(runs = "strace" /\ tracer # "exited" /\ ST!Tracee)
  /\ WF_glibVars(runs = "glib" /\ GL!Iterate)
  /\ \A l \in {1, 2} : WF_glibVars(runs = "glib" /\ GL!Expire(l))
  /\ WF_printVars(runs = "minicrt" /\ MP!Next)
  /\ WF_debugVars(runs = "debugfs" /\ DF!InitDebug)
  /\ \A c \in ML!Context : /\ SF_mallocVars(runs = "malloc" /\ (ML!Malloc(c) \/ ML!Free(c)))
                           /\ WF_mallocVars(runs = "malloc" /\ (ML!Take(c) \/ ML!Put(c)))
  /\ WF_mapsVars(runs = "maps" /\ SM!Main)
  /\ \A m \in SM!Threads : WF_mapsVars(runs = "maps" /\ SM!Thread(m))

Spec == Init /\ [][Next]_vars /\ Fairness

-----------------------------------------------------------------------------
(* What each program does is right where it can be, whatever the kernel,   *)
(* the library or the user does, and what goes wrong goes wrong only for   *)
(* the reason that its module names.                                       *)
Safe == /\ runs = "strace" => ST!NeverForgotten /\ ST!ReportedOnce /\ ST!LeavesOnExit
        /\ runs = "glib" => GL!LoopsLive /\ GL!NoLineWaits
        /\ runs = "minicrt" => MP!PrintsFormat /\ MP!OnlyStackFaults /\ MP!CopiesString
        /\ runs = "debugfs" => DF!LeftBehind /\ DF!StaysInBuffer
        /\ runs = "malloc" => ML!SafeForThreads
        /\ runs = "maps" => SM!PrintsMappings /\ SM!WaitsForThreads
        /\ runs = "snake" => SN!BoardShowsAll /\ SN!IsWay /\ SN!FoodWaits
        /\ runs = "scripts" => PV!StartsFromWhole /\ PV!HalfMadeStays /\ PV!PartitionFresh

(* Each program gets where it should: the tracee to its exit, the loops to *)
(* their return or to the end of the input, threads to their blocks.       *)
Ends == /\ runs = "strace" => ST!TracesToTheEnd
        /\ runs = "glib" => GL!Returns
        /\ runs = "minicrt" => MP!Finishes
        /\ runs = "debugfs" => <>(module = "freed")
        /\ runs = "malloc" => ML!KeepsAllocating
        /\ runs = "maps" => SM!Returns
-----------------------------------------------------------------------------
(* The inputs of the run. *)
SX == INSTANCE SequencesExt

(* Lines that end at a unit of the input: lines that fit the array of      *)
(* MaxLine, with half a line at the end, and one line that does not fit.   *)
TestLayouts == {{2, 3, 6}, {1, 5}}

(* Every format of up to three of these, a lone % only at the end.         *)
Piece(format, values) == [format |-> format, values |-> values]
Low(s) == [text |-> s, low |-> TRUE]
High(s) == [text |-> s, low |-> FALSE]
Number(k) == <<[num |-> k]>>
Pieces == {Piece(<<"a">>, <<>>), Piece(<<"%", "%">>, <<>>), Piece(<<"%">>, <<>>),
           Piece(<<"%", "d">>, Number(-3)), Piece(<<"%", "d">>, Number(7)),
           Piece(<<"%", "o">>, Number(-8)), Piece(<<"%", "x">>, Number(-1)),
           Piece(<<"%", "c">>, Number(7)),
           Piece(<<"%", "p">>, Number(120)), Piece(<<"%", "p">>, Number(128)),
           Piece(<<"%", "s">>, <<Low(<<"x", "y">>)>>),
           Piece(<<"%", "s">>, <<High(<<"z">>)>>), Piece(<<"%", "s">>, <<High(<<>>)>>)}
Formats == {f \in UNION {[1..k -> Pieces] : k \in 0..3} :
              \A k \in DOMAIN f : f[k].format = <<"%">> => k = Len(f)}
TestCallsOfPrintf == {[fmt |-> SX!FlattenSeq([k \in DOMAIN f |-> f[k].format]),
                       args |-> SX!FlattenSeq([k \in DOMAIN f |-> f[k].values])] : f \in Formats}
TestTexts == {Low(<<"x", "y">>), High(<<"x">>)}

(* Where mvprintw draws on a terminal of so many columns, two for a cell:  *)
(* one that shows the whole board, and one without its last two columns.   *)
Shown(columns) == {c \in 0 .. W * H - 1 : 2 * (c % W) < columns}
TestScreens == {Shown(2 * W), Shown(2 * W - 4)}

(* Copies to every place of the memory, overlapping ones included. *)
TestCopies == [mem : {<<"a", "b", "NUL", "c", "d", "e">>, <<"a", "b", "c", "NUL", "a", "b">>},
               dst : 1..6, src : 1..2]
=============================================================================
