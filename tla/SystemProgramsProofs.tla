----------------------- MODULE SystemProgramsProofs -----------------------
(***************************************************************************)
(* What the programs side by side keep, for every input, memory, board,    *)
(* number of threads and order of steps. Each program has an inductive     *)
(* invariant of its own, kept by its steps and by everybody else's, which  *)
(* leave its state alone; the last section puts them together.             *)
(***************************************************************************)
EXTENDS SystemPrograms, FiniteSetTheorems, NaturalsInduction, SequenceTheorems, TLAPS

(* A set of numbers that is not empty has a smallest one. *)
LEMMA Smallest ==
  ASSUME NEW T \in SUBSET Nat, T # {}
  PROVE  \E n \in T : \A m \in T : n <= m
<1>1. PICK y \in T : \A m \in T : <<m, y>> \notin OpToRel(<, Nat)
  BY NatLessThanWellFounded, WFMin
<1>2. \A m \in T : m < y => <<m, y>> \in OpToRel(<, Nat)
  BY DEF OpToRel
<1>3. \A m \in T : ~(m < y)
  BY <1>1, <1>2
<1> QED
  BY <1>3

-----------------------------------------------------------------------------
(* strace.c. A stop in a call that SIGCHLD tells of is pending, or its     *)
(* handler is at it, which resumes nothing but a tracee that is stopped.   *)
Due == IF tracee = "stopped" /\ scno # 0 /\ at # "user" /\ handler # "resume" THEN 1 ELSE 0

STInv ==
  /\ tracer \in {"start", "wait", "test", "exited"} /\ handler \in {"idle", "peek", "resume"}
  /\ tracee \in {"free", "attached", "stopped", "traced", "zombie", "reaped"}
  /\ stops \in Nat /\ printed \in Nat /\ handled \in BOOLEAN /\ pending \in BOOLEAN
  /\ tracer = "start" => ~handled /\ tracee = "free"
  /\ tracer \in {"wait", "test"} => tracee # "free" /\ (handled \/ "RESETHAND" \in sa_flags)
  /\ tracer # "exited" /\ tracee = "stopped" /\ at # "user" /\ sa_flags \cap {"RESETHAND", "NOCLDSTOP"} = {}
       => pending \/ handler # "idle"
  /\ handler = "resume" => tracee \in {"stopped", "zombie", "reaped"}
  /\ tracee \notin {"zombie", "reaped"} => printed + Due = stops
  /\ handled /\ "RESTART" \in sa_flags /\ "NOCLDWAIT" \notin sa_flags =>
       /\ tracee = "reaped" => res = code
       /\ tracer = "test" => res = ST!Stopped \/ tracee = "reaped"
       /\ tracer = "exited" => tracee = "reaped" /\ code = 0

LEMMA STInit == ST!Init => STInv
<1> SUFFICES ASSUME ST!Init PROVE STInv
  OBVIOUS
<1>1. /\ handled = FALSE /\ tracer = "start" /\ handler = "idle" /\ pending = FALSE /\ tracee = "free"
      /\ stops = 0 /\ printed = 0
  BY DEF ST!Init
<1>2. Due = 0
  BY <1>1 DEF Due
<1>3. handled \in BOOLEAN /\ pending \in BOOLEAN /\ ~handled
  BY DEF ST!Init
<1> QED
  BY <1>1, <1>2, <1>3 DEF STInv

LEMMA STIdle == STInv /\ UNCHANGED straceVars => STInv'
<1> SUFFICES ASSUME STInv, UNCHANGED straceVars PROVE STInv'
  OBVIOUS
<1>1. /\ tracer' = tracer /\ handler' = handler /\ tracee' = tracee /\ stops' = stops
      /\ printed' = printed /\ handled' = handled /\ pending' = pending /\ sa_flags' = sa_flags
      /\ at' = at /\ scno' = scno /\ res' = res /\ code' = code
  BY DEF straceVars
<1> QED
  BY <1>1 DEF STInv, Due

(* The tracee stops: whoever may take the signal is told. *)
LEMMA STStop ==
  ASSUME STInv, tracer # "exited", tracee \in {"attached", "traced"}, ST!Stop,
         at' \in {at, "call", "return"}
  PROVE  STInv'
<1>1. /\ tracee' = "stopped" /\ tracer' = tracer /\ res' = res /\ sa_flags' = sa_flags
      /\ handled' = handled /\ handler' = handler /\ code' = code /\ printed' = printed
      /\ stops' = IF at' = "user" \/ scno' = 0 THEN stops ELSE stops + 1
      /\ pending' = (pending \/ (handled /\ "NOCLDSTOP" \notin sa_flags))
  BY DEF ST!Stop, ST!Tell, ST!main, ST!mode
<1>2. tracer \in {"wait", "test"}
  BY DEF STInv
<1>3. Due = 0 /\ printed = stops /\ handler # "resume" /\ handler' # "resume"
  BY <1>1 DEF STInv, Due
<1>4. Due' = IF scno' # 0 /\ at' # "user" THEN 1 ELSE 0
  BY <1>1, <1>3 DEF Due
<1>5. printed' + Due' = stops' /\ stops' \in Nat
  BY <1>1, <1>3, <1>4 DEF STInv
<1> QED
  BY <1>1, <1>2, <1>3, <1>5 DEF STInv

LEMMA STDie ==
  ASSUME STInv, tracer # "exited", tracee \in {"attached", "traced", "stopped"}, NEW c, ST!Die(c)
  PROVE  STInv'
<1>1. /\ tracee' = IF "NOCLDWAIT" \in sa_flags THEN "reaped" ELSE "zombie"
      /\ tracer' = tracer /\ res' = res /\ sa_flags' = sa_flags
      /\ handled' = handled /\ handler' = handler /\ printed' = printed /\ stops' = stops
      /\ pending' = (pending \/ (handled /\ "none" \notin sa_flags))
  BY DEF ST!Die, ST!Tell, ST!main, ST!mode, ST!report
<1> QED
  BY <1>1 DEF STInv

LEMMA STStep == STInv /\ ST!Next => STInv'
<1> SUFFICES ASSUME STInv, ST!Next PROVE STInv'
  OBVIOUS
<1>1. tracer # "exited"
  BY DEF ST!Next
<1>2. CASE ST!Attach
  BY <1>1, <1>2 DEF ST!Attach, STInv, Due, ST!place, ST!report
<1>3. CASE ST!Refuse
  BY <1>3 DEF ST!Refuse, STInv, Due, ST!place, ST!report, ST!mode
<1>4. CASE ST!TakeSignal
  BY <1>4 DEF ST!TakeSignal, STInv, Due, ST!place, ST!report
<1>5. CASE ST!Peek
  BY <1>5 DEF ST!Peek, ST!Readable, STInv, Due, ST!place, ST!main, ST!mode
<1>6. CASE ST!Resume
  BY <1>6 DEF ST!Resume, STInv, Due, ST!place, ST!report, ST!main, ST!mode
<1>7. CASE ST!Wait
  BY <1>7 DEF ST!Wait, ST!Waits, ST!Stopped, STInv, Due, ST!place, ST!report, ST!mode
<1>8. CASE ST!NoChild
  BY <1>8 DEF ST!NoChild, ST!Waits, STInv, Due, ST!place, ST!report, ST!mode
<1>9. CASE ST!Test
  BY <1>9 DEF ST!Test, ST!Stopped, STInv, Due, ST!place, ST!report, ST!mode
<1>10. CASE ST!Halt
  <2>1. tracee \in {"attached", "traced"} /\ ST!Stop /\ at' \in {at, "call", "return"}
    BY <1>10 DEF ST!Halt
  <2> QED
    BY <1>1, <2>1, STStop
<1>11. CASE ST!Enter \/ ST!Leave
  <2>1. tracee \in {"attached", "traced"} /\ ST!Stop /\ at' \in {at, "call", "return"}
    BY <1>11 DEF ST!Enter, ST!Leave
  <2> QED
    BY <1>1, <2>1, STStop
<1>12. CASE ST!Return
  BY <1>12 DEF ST!Return, STInv, Due, ST!report, ST!main, ST!mode
<1>13. CASE ST!Signal
  BY <1>13 DEF ST!Signal, STInv, Due, ST!report, ST!main, ST!mode
<1>14. CASE ST!Exit \/ ST!Kill
  <2>1. tracee \in {"attached", "traced", "stopped"} /\ \E c : ST!Die(c)
    BY <1>14 DEF ST!Exit, ST!Kill
  <2> QED
    BY <1>1, <2>1, STDie
<1> QED
  BY <1>2, <1>3, <1>4, <1>5, <1>6, <1>7, <1>8, <1>9, <1>10, <1>11, <1>12, <1>13, <1>14
     DEF ST!Next, ST!Tracer, ST!Tracee

LEMMA STSafe == STInv => ST!NeverForgotten /\ ST!ReportedOnce /\ ST!LeavesOnExit
BY DEF STInv, Due, ST!NeverForgotten, ST!ReportedOnce, ST!LeavesOnExit

-----------------------------------------------------------------------------
(* glib.c. Each loop runs while the count of the callbacks has not come to *)
(* its multiple of 3; of a terminal, stdio has one line at most, and fgets *)
(* takes all of it if it fits.                                             *)
GLCounts ==
  \/ loop = 1 /\ freed = {} /\ count \in 0..2 /\ running = {1}
  \/ loop = 1 /\ freed = {} /\ count = 3 /\ running = {} /\ demo \in GL!TimerDemos
  \/ loop = 2 /\ freed = {1} /\ count \in 3..5 /\ running = {2} /\ demo = "two_main_loop"
  \/ loop = 2 /\ freed = {1} /\ count = 6 /\ running = {} /\ demo = "two_main_loop"
  \/ loop = 0 /\ freed = {1} /\ count = 6 /\ running = {} /\ demo = "two_main_loop"
  \/ loop = 0 /\ freed = {} /\ count = 3 /\ running = {} /\ demo \in GL!TimerDemos \ {"two_main_loop"}

GLLines ==
  /\ written \in newlines \cup {0} /\ buffered \in newlines \cup {0} /\ taken \in newlines \cup {0}
  /\ taken <= buffered /\ buffered <= written
  /\ \A k \in newlines : taken < k /\ k <= buffered => k = buffered
  /\ source = "poll" => taken = buffered
  /\ source = "end" => eof /\ taken = buffered /\ buffered = written

GLInv == /\ \A k \in newlines : k \in Nat /\ k > 0
         /\ tty \in BOOLEAN /\ eof \in BOOLEAN
         /\ GLCounts /\ source \in {"poll", "read", "end"}
         /\ tty /\ GL!Fits => GLLines

LEMMA GLInit == GL!Init => GLInv
<1> SUFFICES ASSUME GL!Init PROVE GLInv
  OBVIOUS
<1>1. newlines \in Layouts \cup {{}} /\ tty \in BOOLEAN
  BY DEF GL!Init
<1>2. \A k \in newlines : k \in 1..Input
  BY <1>1, LayoutsOfInput
<1>3. \A k \in newlines : k \in Nat /\ k > 0
  BY <1>2, LayoutsOfInput
<1>4. GLCounts /\ GLLines /\ source = "poll" /\ eof = FALSE
  BY <1>3 DEF GL!Init, GLCounts, GLLines
<1> QED
  BY <1>1, <1>3, <1>4 DEF GLInv

LEMMA GLIdle == GLInv /\ UNCHANGED glibVars => GLInv'
<1> SUFFICES ASSUME GLInv, UNCHANGED glibVars PROVE GLInv'
  OBVIOUS
<1>1. /\ demo' = demo /\ loop' = loop /\ running' = running /\ freed' = freed /\ count' = count
      /\ newlines' = newlines /\ tty' = tty /\ written' = written /\ buffered' = buffered
      /\ taken' = taken /\ source' = source /\ eof' = eof
  BY DEF glibVars
<1> QED
  BY <1>1 DEF GLInv, GLCounts, GLLines, GL!Fits

(* The line that read(2) gives, and the piece of it that fgets returns. *)
LEMMA GLFills ==
  ASSUME GLInv, GLLines, GL!Fill, tty, taken = buffered
  PROVE  /\ buffered' \in newlines /\ buffered < buffered' /\ buffered' <= written
         /\ \A k \in newlines : buffered < k /\ k <= buffered' => k = buffered'
<1> DEFINE E == GL!Ends(buffered, written)
<1>a. /\ \A k \in newlines : k \in Nat /\ k > 0
      /\ written \in newlines \cup {0} /\ buffered \in newlines \cup {0} /\ buffered < written
  BY DEF GLInv, GLLines, GL!Fill
<1>1. written \in Nat /\ buffered \in Nat
  BY <1>a
<1>b. written \in newlines
  BY <1>a, <1>1
<1>2. \A k : k \in E <=> k \in newlines /\ buffered < k /\ k <= written
  BY DEF GL!Ends
<1> HIDE DEF E
<1>c. E \in SUBSET Nat /\ E # {}
  <2>1. written \in E
    BY <1>a, <1>b, <1>1, <1>2
  <2> QED
    BY <1>a, <1>2, <2>1
<1>3. PICK n \in E : \A m \in E : n <= m
  BY <1>c, Smallest
<1>4. GL!Ends(buffered, n) = {n}
  <2>1. ASSUME NEW k \in newlines, buffered < k, k <= n PROVE k = n
    <3>1. k \in Nat /\ n \in Nat /\ n <= written
      BY <1>a, <1>c, <1>2
    <3>2. k \in E
      BY <1>1, <1>2, <2>1, <3>1
    <3> QED
      BY <1>3, <2>1, <3>1, <3>2
  <2>2. n \in newlines /\ buffered < n /\ n <= n
    BY <1>2, <1>c
  <2> QED
    BY <2>1, <2>2 DEF GL!Ends
<1>5. \E k \in E : GL!Ends(buffered, k) = {k}
  BY <1>4
<1>6. buffered' \in E /\ GL!Ends(buffered, buffered') = {buffered'}
  <2>1. buffered' = CHOOSE k \in E : GL!Ends(buffered, k) = {k}
    BY DEF GL!Fill, E
  <2> QED
    BY <1>5, <2>1
<1> QED
  BY <1>2, <1>6 DEF GL!Ends

LEMMA GLTakes ==
  ASSUME GLInv, GLLines, GL!Fits, GL!Complete
  PROVE  GL!Piece(buffered) = buffered
<1>a. /\ \A k \in newlines : k \in Nat /\ k > 0
      /\ buffered \in newlines \cup {0} /\ taken \in newlines \cup {0} /\ taken < buffered
      /\ \A k \in newlines : taken < k /\ k <= buffered => k = buffered
  BY DEF GLInv, GLLines, GL!Complete
<1>1. /\ buffered \in Nat /\ taken \in Nat /\ MaxLine \in Nat
  BY <1>a, MaxLineAtLeastTwo
<1>b. buffered \in newlines
  BY <1>a, <1>1
<1>2. PICK j \in newlines \cup {0} : j < buffered /\ buffered - j < MaxLine
  BY <1>b DEF GL!Fits
<1>3. j <= taken /\ j \in Nat
  BY <1>a, <1>1, <1>2
<1>4. buffered - taken < MaxLine
  BY <1>1, <1>2, <1>3
<1> DEFINE P(k) == /\ k \in newlines \/ k = taken + MaxLine - 1 \/ k = buffered
                   /\ \A i \in taken + 1 .. k - 1 : i \notin newlines
                   /\ k < taken + MaxLine
<1>5. buffered \in taken + 1 .. buffered /\ P(buffered)
  <2>1. \A i \in taken + 1 .. buffered - 1 : i \notin newlines
    BY <1>a, <1>1
  <2> QED
    BY <1>a, <1>1, <1>4, <1>b, <2>1
<1>6. ASSUME NEW k \in taken + 1 .. buffered, P(k) PROVE k = buffered
  <2>1. k \in newlines \/ k = taken + MaxLine - 1
    BY <1>b, <1>6
  <2> QED
    BY <1>a, <1>1, <1>4, <2>1
<1>7. GL!Piece(buffered) = CHOOSE k \in taken + 1 .. buffered : P(k)
  BY DEF GL!Piece
<1> HIDE DEF P
<1> QED
  BY <1>5, <1>6, <1>7

LEMMA GLStep == GLInv /\ GL!Next => GLInv'
<1> SUFFICES ASSUME GLInv, GL!Next PROVE GLInv'
  OBVIOUS
<1> USE DEF GL!TimerDemos
<1>1. (\A k \in newlines : k \in Nat /\ k > 0) /\ GLCounts /\ tty \in BOOLEAN /\ eof \in BOOLEAN
      /\ source \in {"poll", "read", "end"}
  BY DEF GLInv
<1>2. CASE GL!RunReturns
  <2>1. /\ newlines' = newlines /\ tty' = tty /\ written' = written /\ buffered' = buffered
        /\ taken' = taken /\ source' = source /\ eof' = eof
    BY <1>2 DEF GL!RunReturns, GL!inputVars
  <2>2. GLCounts'
    BY <1>1, <1>2 DEF GL!RunReturns, GLCounts, GL!None
  <2> QED
    BY <1>1, <2>1, <2>2 DEF GLInv, GLLines, GL!Fits
<1>3. ASSUME NEW l \in {1, 2}, GL!Dispatch(l) PROVE GLInv'
  <2>1. /\ newlines' = newlines /\ tty' = tty /\ written' = written /\ buffered' = buffered
        /\ taken' = taken /\ source' = source /\ eof' = eof
    BY <1>3 DEF GL!Dispatch, GL!inputVars
  <2>2. GLCounts'
    <3>1. l \in running /\ l = loop /\ demo' = demo /\ loop' = loop /\ freed' = freed
          /\ count' = (count + 1) % 65536
          /\ running' = (IF count' % 3 = 0 THEN running \ {l} ELSE running)
          /\ demo \in GL!TimerDemos
      BY <1>3 DEF GL!Dispatch, GL!Callback
    <3>2. \/ loop = 1 /\ freed = {} /\ count \in 0..2 /\ running = {1}
          \/ loop = 2 /\ freed = {1} /\ count \in 3..5 /\ running = {2} /\ demo = "two_main_loop"
      BY <1>1, <3>1 DEF GLCounts
    <3>3. /\ \A n \in 0..5 : (n + 1) % 65536 = n + 1
          /\ \A n \in 1..6 : n % 3 = 0 <=> n \in {3, 6}
      OBVIOUS
    <3>4. count \in 0..5 /\ count' = count + 1 /\ (count' % 3 = 0 <=> count' \in {3, 6})
      BY <3>1, <3>2, <3>3
    <3> QED
      BY <3>1, <3>2, <3>4 DEF GLCounts
  <2> QED
    BY <1>1, <2>1, <2>2 DEF GLInv, GLLines, GL!Fits
<1>4. ASSUME NEW l \in {1, 2}, GL!Expire(l) PROVE GLInv'
  BY <1>4 DEF GL!Expire, GL!inputVars, GLInv, GLLines, GLCounts, GL!Fits
<1>5. ASSUME demo' = demo, loop' = loop, UNCHANGED GL!timerVars PROVE GLCounts'
  BY <1>1, <1>5 DEF GLCounts, GL!timerVars
<1>6. ASSUME NEW n \in 1..Input, GL!Write(n) PROVE GLInv'
  <2>1. /\ demo' = demo /\ loop' = loop /\ UNCHANGED GL!timerVars
        /\ newlines' = newlines /\ tty' = tty /\ buffered' = buffered /\ taken' = taken /\ source' = source
        /\ eof = FALSE /\ eof' = eof /\ n \in Nat
        /\ written' = n /\ written < n /\ (tty => n \in newlines)
    BY <1>1, <1>6, LayoutsOfInput DEF GL!Write
  <2>2. ASSUME tty, GL!Fits PROVE GLLines'
    <3>1. GLLines
      BY <2>2 DEF GLInv
    <3> QED
      BY <1>1, <2>1, <2>2, <3>1, LayoutsOfInput DEF GLLines
  <2> QED
    BY <1>1, <1>5, <2>1, <2>2 DEF GLInv, GL!Fits
<1>7. CASE GL!Close
  BY <1>7, <1>5 DEF GL!Close, GLInv, GLLines, GL!Fits
<1>8. CASE GL!Poll
  BY <1>8, <1>5 DEF GL!Poll, GLInv, GLLines, GL!Fits
<1>9. CASE GL!AioDispatch
  <2>1. /\ demo' = demo /\ loop' = loop /\ UNCHANGED GL!timerVars
        /\ newlines' = newlines /\ tty' = tty /\ written' = written /\ eof' = eof
        /\ GL!Gets \/ GL!GetsMore \/ GL!GetsLast
    BY <1>9 DEF GL!AioDispatch
  <2>2. ASSUME tty, GL!Fits PROVE GLLines'
    <3>0. GLLines /\ written \in Nat /\ buffered \in Nat /\ taken \in Nat
      BY <1>1, <2>2 DEF GLInv, GLLines
    <3>a. /\ written \in newlines \cup {0} /\ buffered \in newlines \cup {0} /\ taken \in newlines \cup {0}
          /\ taken <= buffered /\ buffered <= written
      BY <3>0 DEF GLLines
    <3>b. /\ \A k \in newlines : taken < k /\ k <= buffered => k = buffered
          /\ source = "end" => eof /\ taken = buffered /\ buffered = written
      BY <3>0 DEF GLLines
    <3>1. CASE GL!Gets
      <4>1. taken' = buffered /\ buffered' = buffered /\ source' = "poll"
        BY <2>2, <3>0, <3>1, GLTakes DEF GL!Gets
      <4> QED
        BY <1>1, <2>1, <3>0, <3>a, <4>1 DEF GLLines
    <3>2. ~GL!Complete => taken = buffered
      BY <1>1, <3>0, <3>a DEF GL!Complete, GL!Ends
    <3>3. CASE GL!GetsMore
      <4>1. taken' = taken /\ source' = source /\ GL!Fill /\ taken = buffered
        BY <3>2, <3>3 DEF GL!GetsMore
      <4>2. source = "read"
        BY <1>9, <3>0, <3>b, <4>1 DEF GL!AioDispatch, GL!Fill
      <4>3. /\ buffered' \in newlines /\ buffered < buffered' /\ buffered' <= written
            /\ \A k \in newlines : buffered < k /\ k <= buffered' => k = buffered'
        BY <2>2, <3>0, <4>1, GLFills
      <4> QED
        BY <1>1, <2>1, <3>0, <3>a, <4>1, <4>2, <4>3 DEF GLLines
    <3>4. CASE GL!GetsLast
      <4>1. /\ taken = buffered /\ taken' = buffered /\ buffered' = buffered /\ source' = "end"
            /\ eof /\ buffered = written
        BY <3>2, <3>4 DEF GL!GetsLast
      <4> QED
        BY <1>1, <2>1, <3>0, <3>a, <4>1 DEF GLLines
    <3> QED
      BY <2>1, <3>1, <3>3, <3>4
  <2>3. source' \in {"poll", "read", "end"}
    BY <1>1, <2>1 DEF GL!Gets, GL!GetsMore, GL!GetsLast
  <2>4. (\A k \in newlines' : k \in Nat /\ k > 0) /\ tty' \in BOOLEAN /\ eof' \in BOOLEAN /\ GLCounts'
    BY <1>1, <1>5, <2>1
  <2>5. (tty' /\ (GL!Fits)') => tty /\ GL!Fits
    BY <1>1, <2>1 DEF GL!Fits
  <2> QED
    BY <2>2, <2>3, <2>4, <2>5 DEF GLInv
<1> QED
  BY <1>2, <1>3, <1>4, <1>6, <1>7, <1>8, <1>9 DEF GL!Next, GL!Iterate

LEMMA GLSafe == GLInv => GL!LoopsLive /\ GL!NoLineWaits
<1> SUFFICES ASSUME GLInv PROVE GL!LoopsLive /\ GL!NoLineWaits
  OBVIOUS
<1>1. GL!LoopsLive
  BY DEF GLInv, GLCounts, GL!LoopsLive, GL!None, GL!TimerDemos
<1>2. GL!NoLineWaits
  BY DEF GLInv, GLLines, GL!NoLineWaits
<1> QED
  BY <1>1, <1>2

-----------------------------------------------------------------------------
(* strcpy. What it has copied is as it was unless the destination lies in  *)
(* the source: then no NUL is left between the two.                        *)
MPLength(c) == MP!Strlen(c.mem, c.src)
MPOverlaps(c) == c.src < c.dst /\ c.dst <= c.src + MPLength(c)

MPCopied(c) ==
  LET i == IF status = "returned" THEN dst - c.dst + 1 ELSE dst - c.dst IN
  /\ dst - c.dst <= MPLength(c)
  /\ status = "returned" => dst - c.dst = MPLength(c)
  /\ status = "astray" => c.dst + MPLength(c) > Len(c.mem)
  /\ \A k \in 1..Len(c.mem) : mem[k] = IF k \in c.dst .. c.dst + i - 1 THEN c.mem[c.src + k - c.dst]
                                       ELSE c.mem[k]

MPEndless(c) ==
  /\ status \in {"runs", "astray"}
  /\ \A k \in 1..Len(c.mem) : k \in c.src .. dst - 1 => mem[k] # "NUL"

MPInv ==
  "strcpy" \in DOMAIN call =>
    LET c == call.strcpy IN
    /\ call \in [strcpy : Copies] /\ status \in {"runs", "returned", "astray"}
    /\ DOMAIN mem = 1..Len(c.mem)
    /\ dst \in Nat /\ dst >= c.dst /\ src = c.src + (dst - c.dst)
    /\ IF MPOverlaps(c) THEN MPEndless(c) ELSE MPCopied(c)

LEMMA MPStrlen ==
  ASSUME NEW c \in Copies
  PROVE  /\ MPLength(c) \in Nat /\ c.src + MPLength(c) <= Len(c.mem)
         /\ c.mem[c.src + MPLength(c)] = "NUL"
         /\ \A k \in 0..MPLength(c) - 1 : c.mem[c.src + k] # "NUL"
         /\ Len(c.mem) \in Nat /\ DOMAIN c.mem = 1..Len(c.mem)
         /\ c.src \in 1..Len(c.mem) /\ c.dst \in 1..Len(c.mem)
<1>1. /\ Len(c.mem) \in Nat /\ DOMAIN c.mem = 1..Len(c.mem)
      /\ c.src \in 1..Len(c.mem) /\ c.dst \in 1..Len(c.mem)
      /\ \E n \in c.src .. Len(c.mem) : c.mem[n] = "NUL"
  BY StringsEnd
<1> DEFINE L == Len(c.mem)
           P(n) == c.mem[c.src + n] = "NUL" /\ \A k \in 0..n - 1 : c.mem[c.src + k] # "NUL"
           T == {n \in Nat : c.src + n <= L /\ c.mem[c.src + n] = "NUL"}
<1>2. T # {}
  <2>1. PICK n \in c.src .. L : c.mem[n] = "NUL"
    BY <1>1
  <2>2. n - c.src \in Nat /\ c.src + (n - c.src) = n
    BY <1>1, <2>1
  <2> QED
    BY <1>1, <2>1, <2>2
<1>3. PICK n \in T : \A m \in T : n <= m
  BY <1>2, Smallest
<1>4. n \in 0..L /\ P(n)
  <2>1. ASSUME NEW k \in 0..n - 1 PROVE c.mem[c.src + k] # "NUL"
    <3>1. k \in Nat /\ k < n /\ c.src + k <= L
      BY <1>1, <1>3, <2>1
    <3> QED
      BY <1>3, <3>1
  <2> QED
    BY <1>1, <1>3, <2>1
<1>5. MPLength(c) = CHOOSE m \in 0..L : P(m)
  BY DEF MPLength, MP!Strlen, MP!NUL
<1>6. MPLength(c) \in 0..L /\ P(MPLength(c))
  <2> HIDE DEF P
  <2> QED
    BY <1>4, <1>5
<1>7. ~(n < MPLength(c))
  BY <1>1, <1>3, <1>6
<1> QED
  BY <1>1, <1>3, <1>6, <1>7

LEMMA MPInit == MP!Init => MPInv
<1> SUFFICES ASSUME MP!Init, "strcpy" \in DOMAIN call
    PROVE  LET c == call.strcpy IN
           /\ call \in [strcpy : Copies] /\ status \in {"runs", "returned", "astray"}
           /\ DOMAIN mem = 1..Len(c.mem)
           /\ dst \in Nat /\ dst >= c.dst /\ src = c.src + (dst - c.dst)
           /\ IF MPOverlaps(c) THEN MPEndless(c) ELSE MPCopied(c)
  BY DEF MPInv
<1> DEFINE c == call.strcpy
<1>1. call \in [strcpy : Copies] /\ c \in Copies /\ mem = c.mem /\ dst = c.dst /\ src = c.src /\ status = "runs"
  <2>1. call \in [strcpy : Copies]
    BY DEF MP!Init
  <2> QED
    BY <2>1 DEF MP!Init
<1> HIDE DEF c
<1>2. /\ MPLength(c) \in Nat /\ \A k \in 0..MPLength(c) - 1 : c.mem[c.src + k] # "NUL"
      /\ Len(c.mem) \in Nat /\ DOMAIN c.mem = 1..Len(c.mem)
      /\ c.src \in 1..Len(c.mem) /\ c.dst \in 1..Len(c.mem)
  BY <1>1, MPStrlen
<1>3. MPOverlaps(c) => MPEndless(c)
  <2>1. ASSUME MPOverlaps(c), NEW k \in c.src .. dst - 1 PROVE mem[k] # "NUL"
    <3>1. k - c.src \in 0..MPLength(c) - 1 /\ k = c.src + (k - c.src)
      BY <1>1, <1>2, <2>1 DEF MPOverlaps
    <3> QED
      BY <1>1, <1>2, <3>1
  <2> QED
    BY <1>1, <2>1 DEF MPEndless
<1>4. MPCopied(c)
  BY <1>1, <1>2 DEF MPCopied
<1>5. /\ call \in [strcpy : Copies] /\ status \in {"runs", "returned", "astray"}
      /\ DOMAIN mem = 1..Len(c.mem)
      /\ dst \in Nat /\ dst >= c.dst /\ src = c.src + (dst - c.dst)
  BY <1>1, <1>2
<1> QED
  BY <1>3, <1>4, <1>5 DEF c

LEMMA MPIdle == MPInv /\ UNCHANGED printVars => MPInv'
<1> SUFFICES ASSUME MPInv, UNCHANGED printVars PROVE MPInv'
  OBVIOUS
<1>1. call' = call /\ status' = status /\ mem' = mem /\ dst' = dst /\ src' = src
  BY DEF printVars
<1> QED
  BY <1>1 DEF MPInv, MPEndless, MPCopied, MPOverlaps, MPLength, MP!Strlen

LEMMA MPStep == MPInv /\ MP!Next => MPInv'
<1> SUFFICES ASSUME MPInv, MP!Next PROVE MPInv'
  OBVIOUS
<1>1. call' = call
  BY DEF MP!Next, MP!Literal, MP!Conversion, MP!BeforeDigits, MP!Overrun, MP!Puts, MP!Return, MP!PutString, MP!Copy
<1>2. CASE "strcpy" \notin DOMAIN call
  BY <1>1, <1>2 DEF MPInv
<1>3. CASE "strcpy" \in DOMAIN call
  <2>0. PICK c \in Copies : call = [strcpy |-> c]
    BY <1>3 DEF MPInv
  <2>1. /\ status \in {"runs", "returned", "astray"}
        /\ DOMAIN mem = 1..Len(c.mem)
        /\ dst \in Nat /\ dst >= c.dst /\ src = c.src + (dst - c.dst)
        /\ IF MPOverlaps(c) THEN MPEndless(c) ELSE MPCopied(c)
    BY <1>3, <2>0 DEF MPInv
  <2>2. DOMAIN call = {"strcpy"}
    BY <2>0
  <2>3. /\ status = "runs"
        /\ IF ~({src, dst} \subseteq DOMAIN mem) THEN status' = "astray" /\ UNCHANGED <<mem, dst, src>>
           ELSE /\ mem' = [mem EXCEPT ![dst] = mem[src]]
                /\ IF mem[src] = "NUL" THEN status' = "returned" /\ UNCHANGED <<dst, src>>
                   ELSE dst' = dst + 1 /\ src' = src + 1 /\ UNCHANGED status
    BY <2>2 DEF MP!Next, MP!Literal, MP!Conversion, MP!BeforeDigits, MP!Converts, MP!Overrun, MP!Puts, MP!Return,
                MP!PutString, MP!Copy, MP!InPrintf, MP!copyVars, MP!NUL
  <2> DEFINE L == Len(c.mem)
             l == MPLength(c)
  <2>4. /\ l \in Nat /\ c.src + l <= L /\ c.mem[c.src + l] = "NUL"
        /\ \A k \in 0..l - 1 : c.mem[c.src + k] # "NUL"
        /\ L \in Nat /\ c.src \in 1..L /\ c.dst \in 1..L
    BY MPStrlen
  <2> HIDE DEF l
  <2>5. SUFFICES /\ status' \in {"runs", "returned", "astray"}
                 /\ DOMAIN mem' = 1..L
                 /\ dst' \in Nat /\ dst' >= c.dst /\ src' = c.src + (dst' - c.dst)
                 /\ IF MPOverlaps(c) THEN MPEndless(c)' ELSE MPCopied(c)'
    BY <1>1, <2>0 DEF MPInv
  <2>6. /\ status' \in {"runs", "returned", "astray"}
        /\ DOMAIN mem' = 1..L
        /\ dst' \in Nat /\ dst' >= c.dst /\ src' = c.src + (dst' - c.dst)
    <3>1. status' \in {"runs", "returned", "astray"} /\ DOMAIN mem' = DOMAIN mem
      BY <2>3
    <3>2. \/ dst' = dst /\ src' = src
          \/ dst' = dst + 1 /\ src' = src + 1
      BY <2>3
    <3>3. c.dst \in Nat /\ c.src \in Nat /\ dst \in Nat /\ dst >= c.dst /\ src = c.src + (dst - c.dst)
      BY <2>1, <2>4
    <3>4. dst' \in Nat /\ dst' >= c.dst /\ src' = c.src + (dst' - c.dst)
      BY ONLY <3>2, <3>3
    <3>5. DOMAIN mem' = 1..L
      BY <2>1, <3>1
    <3> QED
      BY <3>1, <3>4, <3>5
  <2>7. ASSUME MPOverlaps(c) PROVE MPEndless(c)'
    <3>1. /\ c.src < c.dst /\ c.dst <= c.src + l
          /\ \A k \in 1..L : k \in c.src .. dst - 1 => mem[k] # "NUL"
      BY <2>1, <2>7 DEF MPOverlaps, MPEndless, l
    <3>2. src \in c.src .. dst - 1
      BY <2>1, <2>4, <3>1
    <3>3. CASE ~({src, dst} \subseteq 1..L)
      BY <2>1, <2>3, <3>1, <3>3 DEF MPEndless
    <3>4. CASE {src, dst} \subseteq 1..L
      <4>1. mem[src] # "NUL"
        BY <3>1, <3>2, <3>4
      <4>2. mem' = [mem EXCEPT ![dst] = mem[src]] /\ dst' = dst + 1 /\ status' = "runs"
        BY <2>1, <2>3, <3>4, <4>1
      <4>3. ASSUME NEW k \in 1..L, k \in c.src .. dst' - 1 PROVE mem'[k] # "NUL"
        <5>1. k = dst \/ k \in c.src .. dst - 1
          BY <2>1, <2>4, <4>2, <4>3
        <5> QED
          BY <2>1, <3>1, <3>4, <4>1, <4>2, <5>1
      <4> QED
        BY <4>2, <4>3 DEF MPEndless
    <3> QED
      BY <3>3, <3>4
  <2>8. ASSUME ~MPOverlaps(c) PROVE MPCopied(c)'
    <3> DEFINE i == dst - c.dst
    <3>1. /\ i \in Nat /\ i <= l /\ src = c.src + i /\ dst = c.dst + i
          /\ \A k \in 1..L : mem[k] = IF k \in c.dst .. c.dst + i - 1 THEN c.mem[c.src + k - c.dst] ELSE c.mem[k]
      BY <2>1, <2>3, <2>4, <2>8 DEF MPCopied, l
    <3> HIDE DEF i
    <3>2. src \in 1..L
      BY <2>4, <3>1
    <3>3. mem[src] = c.mem[c.src + i]
      <4>1. src \notin c.dst .. c.dst + i - 1
        BY <2>4, <2>8, <3>1 DEF MPOverlaps, l
      <4> QED
        BY <3>1, <3>2, <4>1
    <3>4. CASE dst \notin 1..L
      <4>1. status' = "astray" /\ UNCHANGED <<mem, dst, src>>
        BY <2>1, <2>3, <3>4
      <4>2. c.dst + l > L
        BY <2>4, <3>1, <3>4
      <4> QED
        BY <2>1, <2>3, <2>8, <4>1, <4>2 DEF MPCopied, l
    <3>5. CASE dst \in 1..L
      <4>1. mem' = [mem EXCEPT ![dst] = c.mem[c.src + i]]
        BY <2>1, <2>3, <3>2, <3>3, <3>5
      <4>2. \A k \in 1..L : mem'[k] = IF k \in c.dst .. c.dst + i THEN c.mem[c.src + k - c.dst] ELSE c.mem[k]
        <5>1. ASSUME NEW k \in 1..L, k = dst PROVE mem'[k] = c.mem[c.src + k - c.dst] /\ k \in c.dst .. c.dst + i
          <6>1. c.src + k - c.dst = c.src + i
            BY <2>4, <3>1, <5>1
          <6>2. mem'[k] = c.mem[c.src + i]
            BY <2>1, <4>1, <5>1
          <6>3. k \in c.dst .. c.dst + i
            BY <2>4, <3>1, <5>1
          <6> QED
            BY ONLY <6>1, <6>2, <6>3, Zenon
        <5>2. ASSUME NEW k \in 1..L, k # dst
              PROVE  mem'[k] = mem[k] /\ (k \in c.dst .. c.dst + i <=> k \in c.dst .. c.dst + i - 1)
          BY <2>1, <2>4, <3>1, <4>1, <5>2
        <5> QED
          BY <3>1, <5>1, <5>2
      <4>3. CASE mem[src] = "NUL"
        <5>1. status' = "returned" /\ dst' = dst
          BY <2>1, <2>3, <3>2, <3>5, <4>3
        <5>2. i = l
          <6>1. c.mem[c.src + i] = "NUL"
            BY <3>3, <4>3
          <6>2. i \notin 0..l - 1
            BY ONLY <2>4, <6>1, Zenon
          <6> QED
            BY <2>4, <3>1, <6>2
        <5>3. dst' - c.dst = l /\ c.dst + i = c.dst + (dst' - c.dst + 1) - 1
          BY <2>4, <3>1, <5>1, <5>2
        <5> QED
          BY <2>4, <4>2, <5>1, <5>3 DEF MPCopied, l
      <4>4. CASE mem[src] # "NUL"
        <5>1. status' = "runs" /\ dst' = dst + 1
          BY <2>1, <2>3, <3>2, <3>5, <4>4
        <5>2. i # l
          BY <2>4, <3>3, <4>4
        <5>3. dst' - c.dst <= l /\ c.dst + i = c.dst + (dst' - c.dst) - 1
          BY <2>4, <3>1, <5>1, <5>2
        <5> QED
          BY <2>4, <4>2, <5>1, <5>3 DEF MPCopied, l
      <4> QED
        BY <4>3, <4>4
    <3> QED
      BY <3>4, <3>5
  <2> QED
    BY <2>6, <2>7, <2>8
<1> QED
  BY <1>2, <1>3

LEMMA MPSafe == MPInv => MP!CopiesString
<1> SUFFICES ASSUME MPInv, "strcpy" \in DOMAIN call PROVE MP!CopiesString
  BY DEF MP!CopiesString
<1>0. PICK c \in Copies : call = [strcpy |-> c]
  BY DEF MPInv
<1>1. /\ DOMAIN mem = 1..Len(c.mem)
      /\ IF MPOverlaps(c) THEN MPEndless(c) ELSE MPCopied(c)
  BY <1>0 DEF MPInv
<1>2. MPLength(c) \in Nat /\ Len(c.mem) \in Nat /\ c.dst \in 1..Len(c.mem)
  BY MPStrlen
<1>3. MPOverlaps(c) => status \in {"runs", "astray"}
  BY <1>1 DEF MPEndless
<1>4. ASSUME ~MPOverlaps(c)
      PROVE  /\ status = "astray" => c.dst + MPLength(c) > Len(c.mem)
             /\ status = "returned" => \A k \in DOMAIN mem :
                  mem[k] = IF k \in c.dst .. c.dst + MPLength(c) THEN c.mem[c.src + k - c.dst] ELSE c.mem[k]
  <2>1. ASSUME status = "returned", NEW k \in DOMAIN mem
        PROVE  mem[k] = IF k \in c.dst .. c.dst + MPLength(c) THEN c.mem[c.src + k - c.dst] ELSE c.mem[k]
    <3>1. dst - c.dst = MPLength(c) /\ c.dst + (dst - c.dst + 1) - 1 = c.dst + MPLength(c)
      BY <1>1, <1>2, <1>4, <2>1 DEF MPCopied
    <3> QED
      BY <1>1, <1>4, <2>1, <3>1 DEF MPCopied
  <2> QED
    BY <1>1, <1>4, <2>1 DEF MPCopied
<1> QED
  BY <1>0, <1>3, <1>4 DEF MP!CopiesString, MPOverlaps, MPLength

-----------------------------------------------------------------------------
(* printf. What convert finds, digit by digit from the last, is the        *)
(* numeral; what is written and what text has left is what C means by the  *)
(* format up to where printf has come.                                     *)
(* A function given by its first value and the way from one to the next.   *)
Recurs(f, n, S, b, g) ==
  f \in [0..n -> S] /\ f[0] = b /\ \A k \in 1..n : f[k] = g[<<k, f[k - 1]>>]

LEMMA Recursion ==
  ASSUME NEW n \in Nat, NEW S, NEW b \in S, NEW g \in [(1..n) \X S -> S]
  PROVE  \E f : Recurs(f, n, S, b, g)
<1> DEFINE Ok(m) == \E f \in [0..m -> S] : f[0] = b /\ \A k \in 1..m : f[k] = g[<<k, f[k - 1]>>]
           B == {m \in Nat : m <= n /\ ~Ok(m)}
<1>a. Ok(n) => \E f : Recurs(f, n, S, b, g)
  BY DEF Recurs
<1>b. B = {} => Ok(n)
  <2> HIDE DEF Ok
  <2> QED
    OBVIOUS
<1> SUFFICES ASSUME B # {} PROVE FALSE
  BY <1>a, <1>b
<1>1. PICK m \in B : \A j \in B : m <= j
  BY Smallest
<1>2. m # 0
  <2>1. Ok(0)
    <3> DEFINE f == [k \in 0..0 |-> b]
    <3>1. f \in [0..0 -> S] /\ f[0] = b /\ 1..0 = {}
      OBVIOUS
    <3> QED
      BY <3>1
  <2> QED
    BY <1>1, <2>1
<1>3. m - 1 \in Nat /\ m - 1 <= n /\ m \in 1..n /\ Ok(m - 1)
  BY <1>1, <1>2
<1>4. PICK f \in [0..m - 1 -> S] : f[0] = b /\ \A k \in 1..m - 1 : f[k] = g[<<k, f[k - 1]>>]
  BY <1>3
<1> DEFINE e == [k \in 0..m |-> IF k = m THEN g[<<m, f[m - 1]>>] ELSE f[k]]
<1>5. <<m, f[m - 1]>> \in (1..n) \X S
  BY <1>3, <1>4
<1>6. e \in [0..m -> S]
  <2>1. ASSUME NEW k \in 0..m, k # m PROVE f[k] \in S
    BY <2>1, <1>3, <1>4
  <2>2. g[<<m, f[m - 1]>>] \in S
    BY <1>5
  <2> QED
    BY <2>1, <2>2
<1>7. e[0] = b
  BY <1>2, <1>3, <1>4
<1>8. ASSUME NEW k \in 1..m PROVE e[k] = g[<<k, e[k - 1]>>]
  <2>1. e[k - 1] = f[k - 1]
    <3>1. k - 1 \in 0..m /\ k - 1 # m
      BY <1>3
    <3> QED
      BY <3>1
  <2>2. CASE k = m
    <3>1. e[m] = g[<<m, f[m - 1]>>]
      BY <1>3
    <3> HIDE DEF e
    <3> QED
      BY <2>1, <2>2, <3>1
  <2>3. CASE k # m
    <3>1. k \in 1..m - 1 /\ e[k] = f[k]
      BY <2>3, <1>3
    <3> QED
      BY <3>1, <2>1, <1>4
  <2> QED
    BY <2>2, <2>3
<1>9. Ok(m)
  <2> HIDE DEF e
  <2> QED
    BY <1>6, <1>7, <1>8
<1> QED
  BY <1>1, <1>9

-----------------------------------------------------------------------------
(* Numerals. *)
LEMMA PowersAre ==
  ASSUME NEW b \in Nat \ {0}
  PROVE  /\ MP!Power(b) \in [0..Width -> Nat \ {0}]
         /\ MP!Power(b)[0] = 1
         /\ \A k \in 1..Width : MP!Power(b)[k] = b * MP!Power(b)[k - 1]
<1> DEFINE S == Nat \ {0}
           g == [p \in (1..Width) \X S |-> b * p[2]]
           Is(f) == f = [k \in 0..Width |-> IF k = 0 THEN 1 ELSE b * f[k - 1]]
<1>0. Width \in Nat /\ 1 \in S
  BY ArgumentsAreTyped
<1>1. g \in [(1..Width) \X S -> S]
  <2>1. ASSUME NEW p \in (1..Width) \X S PROVE b * p[2] \in S
    <3>1. p[2] \in Nat /\ p[2] >= 1
      OBVIOUS
    <3>2. \A j \in Nat : j >= 1 => b * j \in Nat /\ b * j >= 1
      OBVIOUS
    <3> QED
      BY <3>1, <3>2
  <2> QED
    BY <2>1
<1> HIDE DEF g
<1>2. PICK f \in [0..Width -> S] : f[0] = 1 /\ \A k \in 1..Width : f[k] = g[<<k, f[k - 1]>>]
  <2>1. PICK f : Recurs(f, Width, S, 1, g)
    <3> HIDE DEF S
    <3> QED
      BY <1>0, <1>1, Recursion
  <2> QED
    BY <2>1 DEF Recurs
<1>3. \A k \in 1..Width : f[k] = b * f[k - 1]
  <2> TAKE k \in 1..Width
  <2>1. <<k, f[k - 1]>> \in (1..Width) \X S
    BY <1>0, <1>2
  <2> QED
    BY <2>1, <1>2 DEF g
<1>4. Is(f)
  <2>1. \A k \in 0..Width : f[k] = IF k = 0 THEN 1 ELSE b * f[k - 1]
    BY <1>0, <1>2, <1>3
  <2> QED
    BY <2>1
<1>5. MP!Power(b) = CHOOSE e : Is(e)
  BY DEF MP!Power
<1> DEFINE e == MP!Power(b)
<1>6. Is(e)
  <2> HIDE DEF Is
  <2> QED
    BY <1>4, <1>5
<1> HIDE DEF e
<1>7. DOMAIN e = 0..Width /\ \A k \in 0..Width : e[k] = IF k = 0 THEN 1 ELSE b * e[k - 1]
  BY <1>6
<1> DEFINE B == {k \in Nat : k <= Width /\ e[k] # f[k]}
<1>8. B = {}
  <2> SUFFICES ASSUME B # {} PROVE FALSE
    OBVIOUS
  <2>1. PICK m \in B : \A j \in B : m <= j
    BY Smallest
  <2>2. m # 0
    BY <2>1, <1>0, <1>2, <1>7
  <2>3. m \in 1..Width /\ m - 1 \in Nat /\ m - 1 \notin B
    BY <2>1, <2>2, <1>0
  <2>4. e[m - 1] = f[m - 1]
    BY <2>3, <1>0
  <2>5. e[m] = b * e[m - 1]
    BY <2>3, <1>7, <1>0
  <2>6. f[m] = b * f[m - 1]
    BY <2>3, <1>3
  <2> QED
    BY <2>1, <2>4, <2>5, <2>6
<1>9. e = f
  <2>1. \A k \in 0..Width : e[k] = f[k]
    BY <1>0, <1>8
  <2>2. e = [k \in 0..Width |-> e[k]] /\ f = [k \in 0..Width |-> f[k]]
    BY <1>2, <1>6
  <2> QED
    BY <2>1, <2>2
<1> QED
  BY <1>2, <1>3, <1>9 DEF e

Bases == {8, 10, 16}

LEMMA DivMod ==
  ASSUME NEW n \in Nat, NEW q \in Nat \ {0}
  PROVE  /\ n \div q \in Nat /\ n % q \in 0..q - 1
         /\ q * (n \div q) <= n /\ n < q * (n \div q) + q
         /\ n < q => n % q = n /\ n \div q = 0
OBVIOUS

LEMMA ModOfInt ==
  ASSUME NEW n \in Int, NEW q \in Nat \ {0}
  PROVE  n % q \in 0..q - 1 /\ (n \in 0..q - 1 => n % q = n)
OBVIOUS

LEMMA QuotientIs ==
  ASSUME NEW n \in Nat, NEW q \in Nat \ {0}, NEW u \in Int, q * u <= n, n < q * u + q
  PROVE  n \div q = u
OBVIOUS

LEMMA QuotientOfQuotient ==
  ASSUME NEW b \in Bases, NEW n \in Nat, NEW q \in Nat \ {0}
  PROVE  (n \div b) \div q = n \div (b * q)
<1>1. PICK m \in Nat : m = n \div b /\ b * m <= n /\ n < b * m + b
  BY DivMod DEF Bases
<1>2. PICK u \in Nat : u = m \div q /\ q * u <= m /\ m < q * u + q
  BY DivMod
<1>3. PICK y \in Nat : y = q * u
  BY <1>2
<1>4. b * y <= n /\ n < b * y + b * q
  <2>1. b * y <= b * m /\ b * m + b <= b * y + b * q
    BY <1>2, <1>3 DEF Bases
  <2> QED
    BY <2>1, <1>1 DEF Bases
<1>5. b * y = (b * q) * u
  BY <1>3 DEF Bases
<1>6. b * q \in Nat \ {0}
  BY DEF Bases
<1>7. n \div (b * q) = u
  <2>1. PICK z \in Nat \ {0} : z = b * q
    BY <1>6
  <2>2. z * u <= n /\ n < z * u + z
    BY <2>1, <1>4, <1>5
  <2> QED
    BY <2>1, <2>2, QuotientIs
<1> QED
  BY <1>1, <1>2, <1>7

LEMMA PowersGrow ==
  ASSUME NEW b \in Nat, b >= 2
  PROVE  /\ \A k, l \in 0..Width : k < l => MP!Power(b)[k] < MP!Power(b)[l]
         /\ \A a \in 1..b, k \in 0..Width : MP!Power(a)[k] <= MP!Power(b)[k]
<1>0. Width \in Nat \ {0}
  BY ArgumentsAreTyped
<1> DEFINE P == MP!Power(b)
<1>1. P \in [0..Width -> Nat \ {0}] /\ P[0] = 1 /\ \A k \in 1..Width : P[k] = b * P[k - 1]
  BY PowersAre
<1> HIDE DEF P
<1>3. \A y \in Nat \ {0} : b * y > y
  OBVIOUS
<1>4. ASSUME NEW k \in 0..Width, NEW l \in 0..Width, k < l
      PROVE  P[k] < P[l]
  <2> DEFINE B == {m \in Nat : m <= Width /\ k < m /\ ~(P[k] < P[m])}
  <2> SUFFICES ASSUME B # {} PROVE FALSE
    BY <1>0, <1>4
  <2>1. PICK m \in B : \A j \in B : m <= j
    BY Smallest
  <2>2. m \in 1..Width /\ m - 1 \in 0..Width /\ m \in 0..Width
    BY <2>1, <1>0
  <2>3. P[m] = b * P[m - 1] /\ P[m] > P[m - 1]
    BY <2>2, <1>1, <1>3
  <2>4. m - 1 # k => P[k] < P[m - 1]
    <3> SUFFICES ASSUME m - 1 # k PROVE P[k] < P[m - 1]
      OBVIOUS
    <3>1. m - 1 \in Nat /\ m - 1 <= Width /\ k < m - 1 /\ m - 1 \notin B
      BY <2>1, <2>2
    <3> QED
      BY <3>1
  <2>5. P[k] \in Nat /\ P[m] \in Nat /\ P[m - 1] \in Nat
    BY <1>1, <2>2
  <2> QED
    BY <2>1, <2>3, <2>4, <2>5
<1>5. ASSUME NEW a \in 1..b, NEW k \in 0..Width
      PROVE  MP!Power(a)[k] <= P[k]
  <2> DEFINE D == MP!Power(a)
  <2>a. D \in [0..Width -> Nat \ {0}] /\ D[0] = 1 /\ \A l \in 1..Width : D[l] = a * D[l - 1]
    BY PowersAre
  <2> HIDE DEF D
  <2> DEFINE B == {m \in Nat : m <= Width /\ ~(D[m] <= P[m])}
  <2> SUFFICES ASSUME B # {} PROVE FALSE
    BY <1>0, <1>5 DEF D
  <2>1. PICK m \in B : \A j \in B : m <= j
    BY Smallest
  <2>2. m # 0
    BY <2>1, <1>1, <2>a
  <2>3. m \in 1..Width /\ m - 1 \in 0..Width /\ m - 1 \notin B /\ m - 1 \in Nat /\ m - 1 <= Width
    BY <2>1, <2>2, <1>0
  <2>4. D[m - 1] <= P[m - 1] /\ D[m - 1] \in Nat /\ P[m - 1] \in Nat \ {0}
    BY <2>3, <1>1, <2>a
  <2>5. D[m] = a * D[m - 1] /\ P[m] = b * P[m - 1]
    BY <2>3, <1>1, <2>a
  <2>7. a * D[m - 1] <= b * P[m - 1]
    <3>1. \A y, z \in Nat : y <= z => a * y <= b * z
      <4> TAKE y, z \in Nat
      <4> SUFFICES ASSUME y <= z PROVE a * y <= b * z
        OBVIOUS
      <4>1. a * y <= b * y /\ b * y <= b * z
        OBVIOUS
      <4>2. a * y \in Nat /\ b * y \in Nat /\ b * z \in Nat
        OBVIOUS
      <4> QED
        BY <4>1, <4>2
    <3> QED
      BY <2>4, <3>1
  <2>6. P[m] \in Nat
    BY <1>1, <2>3
  <2> QED
    BY <2>1, <2>4, <2>5, <2>6, <2>7
<1> QED
  BY <1>4, <1>5 DEF P

(* l digits are enough for n, and one less is not. *)
Digits(n, b, l) == l \in 1..Width /\ n < MP!Power(b)[l] /\ (l = 1 \/ MP!Power(b)[l - 1] <= n)

LEMMA DigitsAre ==
  ASSUME NEW b \in Nat, b >= 2, NEW n \in Nat, n < MP!Power(b)[Width]
  PROVE  \E l \in 1..Width :
           /\ \A k : Digits(n, b, k) <=> k = l
           /\ MP!Numeral(n, b) = [k \in 1..l |-> (n \div MP!Power(b)[l - k]) % b]
<1>0. Width \in Nat \ {0}
  BY ArgumentsAreTyped
<1> DEFINE P == MP!Power(b)
           T == {k \in Nat : k \in 1..Width /\ n < P[k]}
<1>1. P \in [0..Width -> Nat \ {0}]
  BY PowersAre
<1>2. \A k, l \in 0..Width : k < l => P[k] < P[l]
  BY PowersGrow
<1>3. PICK l \in T : \A k \in T : l <= k
  <2>1. Width \in T
    BY <1>0
  <2> QED
    BY <2>1, Smallest
<1>4. Digits(n, b, l)
  <2>1. CASE l = 1
    BY <2>1, <1>3 DEF Digits
  <2>2. CASE l # 1
    <3>1. l - 1 \in 1..Width /\ l - 1 \notin T /\ l - 1 \in Nat /\ l - 1 \in 0..Width
      BY <1>3, <2>2, <1>0
    <3>2. P[l - 1] <= n
      BY <3>1, <1>1
    <3> QED
      BY <3>2, <1>3 DEF Digits
  <2> QED
    BY <2>1, <2>2
<1>5. ASSUME NEW k, Digits(n, b, k)
      PROVE  k = l
  <2>1. k \in 1..Width /\ n < P[k] /\ (k = 1 \/ P[k - 1] <= n)
    BY <1>5 DEF Digits
  <2>2. l \in 1..Width /\ n < P[l] /\ l <= k
    BY <1>3, <2>1, <1>0
  <2>3. ASSUME l < k PROVE FALSE
    <3>1. k - 1 \in 0..Width /\ l \in 0..Width /\ P[k - 1] <= n
      BY <2>1, <2>2, <2>3, <1>0
    <3>2. P[l] <= P[k - 1]
      BY <3>1, <2>3, <2>1, <2>2, <1>1, <1>2
    <3> QED
      BY <3>1, <3>2, <2>2, <1>1
  <2> QED
    BY <2>1, <2>2, <2>3
<1>6. \A k : Digits(n, b, k) <=> k = l
  BY <1>4, <1>5
<1>7. l = CHOOSE k \in 1..Width : n < P[k] /\ (k = 1 \/ P[k - 1] <= n)
  <2>1. l \in 1..Width /\ n < P[l] /\ (l = 1 \/ P[l - 1] <= n)
    BY <1>4 DEF Digits
  <2>2. \A k \in 1..Width : n < P[k] /\ (k = 1 \/ P[k - 1] <= n) => k = l
    BY <1>6 DEF Digits
  <2> HIDE DEF P
  <2> QED
    BY <2>1, <2>2
<1>8. MP!Numeral(n, b) = [k \in 1..l |-> (n \div P[l - k]) % b]
  BY <1>7 DEF MP!Numeral
<1> QED
  BY <1>3, <1>6, <1>8

LEMMA NumeralOfDigit ==
  ASSUME NEW b \in Bases, NEW n \in Nat, n < b, n < MP!Power(b)[Width]
  PROVE  MP!Numeral(n, b) = <<n>>
<1> DEFINE P == MP!Power(b)
<1>0. Width \in Nat \ {0} /\ b \in Nat \ {0} /\ b >= 2
  BY ArgumentsAreTyped DEF Bases
<1>1. P \in [0..Width -> Nat \ {0}] /\ P[0] = 1 /\ P[1] = b
  <2>1. P[1] = b * P[0] /\ P[0] = 1 /\ P \in [0..Width -> Nat \ {0}]
    BY <1>0, PowersAre
  <2> QED
    BY <2>1, <1>0
<1>2. PICK l \in 1..Width :
           /\ \A k : Digits(n, b, k) <=> k = l
           /\ MP!Numeral(n, b) = [k \in 1..l |-> (n \div P[l - k]) % b]
  BY <1>0, DigitsAre
<1>3. l = 1
  <2>1. Digits(n, b, 1)
    BY <1>0, <1>1 DEF Digits
  <2> QED
    BY <2>1, <1>2
<1>4. (n \div P[1 - 1]) % b = n
  <2>1. n \div 1 = n
    OBVIOUS
  <2>2. P[1 - 1] = 1
    BY <1>1
  <2>3. n % b = n
    BY <1>0, DivMod
  <2> QED
    BY <2>1, <2>2, <2>3
<1>5. MP!Numeral(n, b) = [k \in 1..1 |-> n]
  <2>1. \A k \in 1..1 : (n \div P[1 - k]) % b = n
    <3> TAKE k \in 1..1
    <3>1. k = 1
      OBVIOUS
    <3> QED
      BY <3>1, <1>4
  <2> QED
    BY <2>1, <1>2, <1>3
<1> QED
  BY <1>5

LEMMA NumeralOfMore ==
  ASSUME NEW b \in Bases, NEW n \in Nat, n >= b, n < MP!Power(b)[Width]
  PROVE  /\ n \div b \in Nat /\ n \div b < n /\ n \div b < MP!Power(b)[Width]
         /\ MP!Numeral(n \div b, b) \in Seq(Int)
         /\ MP!Numeral(n, b) = Append(MP!Numeral(n \div b, b), n % b)
<1> DEFINE P == MP!Power(b)
<1>0. Width \in Nat \ {0} /\ b \in Nat \ {0} /\ b >= 2
  BY ArgumentsAreTyped DEF Bases
<1>1. P \in [0..Width -> Nat \ {0}] /\ P[0] = 1 /\ \A k \in 1..Width : P[k] = b * P[k - 1]
  BY <1>0, PowersAre
<1>p. P[Width] \in Nat
  BY <1>0, <1>1
<1>2. PICK m \in Nat : m = n \div b /\ b * m <= n /\ n < b * m + b
  BY <1>0, DivMod
<1>3. m < n /\ m < P[Width]
  <2>1. m < n
    BY <1>2 DEF Bases
  <2> QED
    BY <2>1, <1>p
<1>4. PICK l \in 1..Width :
           /\ \A k : Digits(m, b, k) <=> k = l
           /\ MP!Numeral(m, b) = [k \in 1..l |-> (m \div P[l - k]) % b]
  BY <1>0, <1>3, DigitsAre
<1>5. PICK i \in 1..Width :
           /\ \A k : Digits(n, b, k) <=> k = i
           /\ MP!Numeral(n, b) = [k \in 1..i |-> (n \div P[i - k]) % b]
  BY <1>0, DigitsAre
<1> HIDE DEF P
<1>6. m < P[l] /\ (l = 1 \/ P[l - 1] <= m) /\ P[l] \in Nat /\ P[l - 1] \in Nat /\ P[l] = b * P[l - 1]
  <2>1. m < P[l] /\ (l = 1 \/ P[l - 1] <= m)
    BY <1>4 DEF Digits, P
  <2> QED
    BY <2>1, <1>1, <1>0
<1>7. P[l] <= n
  <2>1. CASE l = 1
    <3>1. P[l] = b * P[0]
      BY <1>6, <2>1
    <3>2. P[l] = b
      BY <3>1, <1>1, <1>0
    <3> QED
      BY <3>2
  <2>2. CASE l # 1
    <3>1. P[l - 1] <= m
      BY <1>6, <2>2
    <3>2. b * P[l - 1] <= b * m
      BY <3>1, <1>6 DEF Bases
    <3> QED
      BY <3>2, <1>6, <1>2 DEF Bases
  <2> QED
    BY <2>1, <2>2
<1>8. l < Width
  <2> SUFFICES ASSUME l >= Width PROVE FALSE
    BY <1>0
  <2>1. l = Width
    BY <1>0
  <2> QED
    BY <2>1, <1>7, <1>p DEF P
<1>9. l + 1 \in 1..Width /\ P[l + 1] = b * P[l]
  <2>1. l + 1 \in 1..Width /\ (l + 1) - 1 = l
    BY <1>8, <1>0
  <2> QED
    BY <2>1, <1>1
<1>10. n < P[l + 1]
  <2>1. m + 1 <= P[l]
    BY <1>6
  <2>2. b * m + b <= b * P[l]
    BY <2>1, <1>6 DEF Bases
  <2>3. b * m \in Nat /\ b * P[l] \in Nat
    BY <1>6 DEF Bases
  <2> QED
    BY <2>2, <2>3, <1>2, <1>9, <1>0
<1>11. i = l + 1
  <2>1. (l + 1) - 1 = l
    OBVIOUS
  <2>2. Digits(n, b, l + 1)
    BY <2>1, <1>7, <1>9, <1>10 DEF Digits, P
  <2> QED
    BY <2>2, <1>5
<1>12. ASSUME NEW k \in 1..l
       PROVE  n \div P[i - k] = m \div P[l - k]
  <2>1. i - k \in 1..Width /\ (i - k) - 1 = l - k /\ l - k \in 0..Width
    BY <1>11, <1>9, <1>0
  <2>2. P[i - k] = b * P[l - k] /\ P[l - k] \in Nat \ {0}
    BY <2>1, <1>1
  <2> QED
    BY <2>2, <1>2, QuotientOfQuotient
<1>13. n \div P[i - i] = n
  <2>1. P[i - i] = 1
    BY <1>1
  <2> QED
    BY <2>1
<1> DEFINE d == MP!Numeral(m, b)
<1>14. d \in Seq(Int) /\ Len(d) = l /\ \A k \in 1..l : d[k] = (m \div P[l - k]) % b
  <2>1. \A k \in 1..l : (m \div P[l - k]) % b \in Int
    <3> TAKE k \in 1..l
    <3>1. P[l - k] \in Nat \ {0}
      BY <1>1, <1>0
    <3>2. m \div P[l - k] \in Nat
      BY <3>1, DivMod
    <3> QED
      BY <3>2, <1>0
  <2>2. d \in [1..l -> Int]
    BY <2>1, <1>4
  <2>3. d \in Seq(Int)
    BY <2>2
  <2> QED
    BY <2>2, <2>3, <1>4
<1>15. n % b \in Int
  BY <1>0
<1> HIDE DEF d
<1>16. Append(d, n % b) \in Seq(Int) /\ Len(Append(d, n % b)) = l + 1
       /\ (\A k \in 1..l : Append(d, n % b)[k] = d[k]) /\ Append(d, n % b)[l + 1] = n % b
  BY <1>14, <1>15
<1>17. MP!Numeral(n, b) \in [1..l + 1 -> Int] /\ \A k \in 1..l + 1 : MP!Numeral(n, b)[k] = Append(d, n % b)[k]
  <2>1. ASSUME NEW k \in 1..l + 1
        PROVE  (n \div P[i - k]) % b = Append(d, n % b)[k] /\ (n \div P[i - k]) % b \in Int
    <3>1. CASE k = l + 1
      <4>1. (n \div P[i - k]) % b = n % b
        BY <3>1, <1>11, <1>13
      <4> QED
        BY <4>1, <3>1, <1>15, <1>16
    <3>2. CASE k # l + 1
      <4>1. k \in 1..l
        BY <3>2
      <4>2. (n \div P[i - k]) % b = d[k]
        BY <4>1, <1>12, <1>14
      <4>3. d[k] \in Int
        BY <4>1, <1>14
      <4> QED
        BY <4>1, <4>2, <4>3, <1>16
    <3> QED
      BY <3>1, <3>2
  <2>2. MP!Numeral(n, b) = [k \in 1..l + 1 |-> (n \div P[i - k]) % b]
    BY <1>5, <1>11
  <2> QED
    BY <2>1, <2>2
<1>18. MP!Numeral(n, b) = Append(d, n % b)
  <2> DEFINE q == MP!Numeral(n, b)
             r == Append(d, n % b)
  <2>1. q \in Seq(Int) /\ Len(q) = l + 1
    BY <1>17
  <2>2. r \in Seq(Int) /\ Len(r) = l + 1
    BY <1>16
  <2>3. \A k \in 1..l + 1 : q[k] = r[k]
    BY <1>17
  <2> HIDE DEF q, r
  <2>4. q = r
    BY <2>1, <2>2, <2>3, SeqEqual
  <2> QED
    BY <2>4 DEF q, r
<1> QED
  BY <1>2, <1>3, <1>14, <1>18 DEF d, P

(* What convert finds, last digit first, is the numeral. *)
LEMMA ConvertIs ==
  ASSUME NEW b \in Bases, NEW num \in Nat, num < MP!Power(b)[Width]
  PROVE  MP!Convert(num, b) = [text |-> MP!Numeral(num, b), low |-> TRUE]
<1> DEFINE Is(f) == f = [n \in 0..num |-> IF n < b THEN <<n>> ELSE Append(f[n \div b], n % b)]
           nu == [n \in 0..num |-> MP!Numeral(n, b)]
<1>0. b \in Nat \ {0} /\ b >= 2 /\ Width \in Nat \ {0}
  BY ArgumentsAreTyped DEF Bases
<1>p. MP!Power(b)[Width] \in Nat
  BY <1>0, PowersAre
<1>1. ASSUME NEW n \in 0..num
      PROVE  /\ n < b => MP!Numeral(n, b) = <<n>>
             /\ n >= b => n \div b \in 0..num /\ n \div b < n
                          /\ MP!Numeral(n, b) = Append(MP!Numeral(n \div b, b), n % b)
  <2>1. n \in Nat /\ n < MP!Power(b)[Width]
    BY <1>p
  <2>2. n < b => MP!Numeral(n, b) = <<n>>
    BY <2>1, NumeralOfDigit
  <2>3. n >= b => /\ n \div b \in Nat /\ n \div b < n
                  /\ MP!Numeral(n, b) = Append(MP!Numeral(n \div b, b), n % b)
    BY <2>1, NumeralOfMore
  <2> QED
    BY <2>1, <2>2, <2>3
<1>2. Is(nu)
  <2>1. ASSUME NEW n \in 0..num
        PROVE  nu[n] = IF n < b THEN <<n>> ELSE Append(nu[n \div b], n % b)
    <3>1. CASE n < b
      BY <3>1, <1>1
    <3>2. CASE ~(n < b)
      <4>1. n \div b \in 0..num /\ MP!Numeral(n, b) = Append(MP!Numeral(n \div b, b), n % b)
        <5>1. n >= b
          BY <3>2, <1>0
        <5> QED
          BY <5>1, <1>1
      <4>2. \A k \in 0..num : nu[k] = MP!Numeral(k, b)
        OBVIOUS
      <4> HIDE DEF nu
      <4>3. nu[n \div b] = MP!Numeral(n \div b, b) /\ nu[n] = MP!Numeral(n, b)
        BY <4>1, <4>2
      <4> QED
        BY <4>1, <4>3, <3>2
    <3> QED
      BY <3>1, <3>2
  <2> QED
    BY <2>1
<1>3. PICK d : d = CHOOSE f : Is(f)
  OBVIOUS
<1>4. Is(d)
  <2> HIDE DEF Is, nu
  <2> QED
    BY <1>2, <1>3
<1>5. MP!Convert(num, b) = [text |-> d[num], low |-> TRUE]
  BY <1>3 DEF MP!Convert, MP!Low
<1>6. \A n \in 0..num : d[n] = IF n < b THEN <<n>> ELSE Append(d[n \div b], n % b)
  BY <1>4
<1> DEFINE B == {n \in Nat : n <= num /\ d[n] # MP!Numeral(n, b)}
<1>7. B = {}
  <2> SUFFICES ASSUME B # {} PROVE FALSE
    OBVIOUS
  <2>1. PICK n \in B : \A k \in B : n <= k
    BY Smallest
  <2>2. n \in 0..num
    BY <2>1
  <2>3. n >= b
    <3>1. n < b => d[n] = MP!Numeral(n, b)
      BY <2>2, <1>1, <1>6
    <3> QED
      BY <3>1, <2>1, <1>0
  <2>4. n \div b \in 0..num /\ n \div b < n /\ MP!Numeral(n, b) = Append(MP!Numeral(n \div b, b), n % b)
    BY <2>2, <2>3, <1>1
  <2>5. d[n \div b] = MP!Numeral(n \div b, b)
    <3>1. PICK k \in 0..num : k = n \div b
      BY <2>4
    <3>2. k < n
      BY <3>1, <2>4
    <3>3. k \notin B
      BY <3>2, <2>1
    <3>4. d[k] = MP!Numeral(k, b)
      BY <3>3
    <3> QED
      BY <3>1, <3>4
  <2>6. d[n] = Append(d[n \div b], n % b)
    <3>1. ~(n < b)
      BY <2>3, <2>2, <1>0
    <3> QED
      BY <3>1, <2>2, <1>6
  <2> QED
    BY <2>1, <2>4, <2>5, <2>6
<1>8. d[num] = MP!Numeral(num, b)
  BY <1>7
<1> QED
  BY <1>5, <1>8

LEMMA NumeralTyped ==
  ASSUME NEW b \in Bases, NEW n \in Nat, n < MP!Power(b)[Width]
  PROVE  MP!Numeral(n, b) \in Seq(Int)
<1>1. PICK l \in 1..Width : MP!Numeral(n, b) = [k \in 1..l |-> (n \div MP!Power(b)[l - k]) % b]
  BY DigitsAre DEF Bases
<1>0. Width \in Nat \ {0} /\ b \in Nat \ {0}
  BY ArgumentsAreTyped DEF Bases
<1>2. \A k \in 1..l : (n \div MP!Power(b)[l - k]) % b \in Int
  <2> TAKE k \in 1..l
  <2>1. MP!Power(b)[l - k] \in Nat \ {0}
    BY <1>0, PowersAre
  <2>2. n \div MP!Power(b)[l - k] \in Nat
    BY <2>1, DivMod
  <2> QED
    BY <2>2, <1>0
<1>3. MP!Numeral(n, b) \in [1..l -> Int]
  BY <1>1, <1>2
<1> QED
  BY <1>3

(* What is put for a number or a pointer is what C means.                 *)
LEMMA ShownIsMeant ==
  ASSUME NEW conv \in {"d", "o", "p", "x"}, NEW v, v.num \in Int,
         conv # "p" => v.num < MP!Power(2)[Width],
         conv = "p" => v.num \in Nat /\ v.num < MP!Power(4)[Width],
         MP!HasDigits(conv, v)
  PROVE  /\ MP!Meant(conv, v) \in Seq(Int)
         /\ MP!Shown(conv, v) = [text |-> MP!Meant(conv, v), low |-> TRUE]
<1>0. Width \in Nat \ {0} /\ MP!Power(2)[Width] \in Nat \ {0} /\ MP!Power(4)[Width] \in Nat \ {0}
  BY ArgumentsAreTyped, PowersAre
<1> DEFINE u == MP!Unsigned(v.num)
<1>1. ASSUME conv # "p"
      PROVE  u \in 0..MP!Power(2)[Width] - 1 /\ (conv = "d" => u = v.num)
  <2>1. PICK z \in Int : z = v.num
    OBVIOUS
  <2>2. PICK q \in Nat \ {0} : q = MP!Power(2)[Width]
    BY <1>0
  <2>3. u = z % q
    BY <2>1, <2>2 DEF MP!Unsigned
  <2>4. conv = "d" => z \in 0..q - 1
    BY <1>1, <2>1, <2>2 DEF MP!HasDigits
  <2>5. z % q \in 0..q - 1 /\ (z \in 0..q - 1 => z % q = z)
    BY ModOfInt
  <2> HIDE DEF u
  <2> QED
    BY <2>1, <2>2, <2>3, <2>4, <2>5
<1>3. ASSUME conv # "p", NEW b \in Bases
      PROVE  MP!Convert(u, b) = [text |-> MP!Numeral(u, b), low |-> TRUE] /\ MP!Numeral(u, b) \in Seq(Int)
  <2>1. MP!Power(2)[Width] <= MP!Power(b)[Width] /\ MP!Power(b)[Width] \in Nat
    <3>1. b \in Nat /\ b >= 2 /\ 2 \in 1..b /\ Width \in 0..Width
      BY <1>0 DEF Bases
    <3> QED
      BY <3>1, PowersGrow, PowersAre
  <2>2. u \in Nat /\ u < MP!Power(b)[Width]
    BY <2>1, <1>1, <1>3, <1>0
  <2> QED
    BY <2>2, ConvertIs, NumeralTyped
<1> HIDE DEF u
<1>4. CASE conv = "d"
  <2>1. MP!Shown(conv, v) = MP!Convert(u, 10) /\ MP!Meant(conv, v) = MP!Numeral(u, 10)
    BY <1>1, <1>4 DEF MP!Shown, MP!Meant, u
  <2> QED
    BY <2>1, <1>3, <1>4 DEF Bases
<1>5. CASE conv = "o"
  <2>1. MP!Shown(conv, v) = MP!Convert(u, 8) /\ MP!Meant(conv, v) = MP!Numeral(u, 8)
    BY <1>5 DEF MP!Shown, MP!Meant, u
  <2> QED
    BY <2>1, <1>3, <1>5 DEF Bases
<1>6. CASE conv = "x"
  <2>1. MP!Shown(conv, v) = MP!Convert(u, 16) /\ MP!Meant(conv, v) = MP!Numeral(u, 16)
    BY <1>6 DEF MP!Shown, MP!Meant, u
  <2> QED
    BY <2>1, <1>3, <1>6 DEF Bases
<1>7. CASE conv = "p"
  <2>1. PICK n \in Nat : n = v.num /\ n < MP!Power(4)[Width] /\ MP!LongLong(n) >= 0
    BY <1>7 DEF MP!HasDigits
  <2>2. MP!LongLong(n) = n
    BY <1>0, <2>1 DEF MP!LongLong
  <2>3. MP!Shown(conv, v) = MP!Convert(n, 16) /\ MP!Meant(conv, v) = MP!Numeral(n, 16)
    BY <1>7, <2>1, <2>2 DEF MP!Shown, MP!Meant
  <2>4. n < MP!Power(16)[Width]
    <3>1. 4 \in 1..16 /\ Width \in 0..Width /\ MP!Power(16)[Width] \in Nat
      BY <1>0, PowersAre
    <3>2. MP!Power(4)[Width] <= MP!Power(16)[Width]
      BY <3>1, PowersGrow
    <3> QED
      BY <1>0, <2>1, <3>1, <3>2
  <2>5. 16 \in Bases
    BY DEF Bases
  <2> QED
    BY <2>3, <2>4, <2>5, ConvertIs, NumeralTyped
<1> QED
  BY <1>4, <1>5, <1>6, <1>7

(* The signs that are written: characters, and digits by their value.      *)
Signs == STRING \cup Int

LEMMA SignsAre == Seq(STRING) \subseteq Seq(Signs) /\ Seq(Int) \subseteq Seq(Signs)
<1>1. STRING \subseteq Signs /\ Int \subseteq Signs
  BY DEF Signs
<1> QED
  BY <1>1, SeqMonotonic

LEMMA ConversionsAre ==
  ASSUME NEW c \in CallsOfPrintf
  PROVE  /\ Len(c.fmt) \in Nat /\ DOMAIN c.fmt = 1..Len(c.fmt)
         /\ \A k \in 1..Len(c.fmt) : c.fmt[k] \in STRING
         /\ MP!Conversions(c) \in SUBSET (1..Len(c.fmt))
         /\ IsFiniteSet(MP!Conversions(c))
         /\ \A k \in 1..Len(c.fmt) : k \in MP!Conversions(c) <=> c.fmt[k] = "%"
<1>1. c.fmt \in Seq(STRING)
  BY ArgumentsAreTyped DEF MP!Typed
<1>2. /\ Len(c.fmt) \in Nat /\ DOMAIN c.fmt = 1..Len(c.fmt)
      /\ \A k \in 1..Len(c.fmt) : c.fmt[k] \in STRING
  BY <1>1
<1>3. MP!Conversions(c) \in SUBSET (1..Len(c.fmt))
      /\ \A k \in 1..Len(c.fmt) : k \in MP!Conversions(c) <=> c.fmt[k] = "%"
  BY <1>2 DEF MP!Conversions
<1>4. IsFiniteSet(MP!Conversions(c))
  <2>1. IsFiniteSet(1..Len(c.fmt))
    BY <1>2, FS_Interval
  <2> QED
    BY <1>3, <2>1, FS_Subset
<1> QED
  BY <1>2, <1>3, <1>4

(* No conversion begins where another one ends.                            *)
LEMMA ConversionsApart ==
  ASSUME NEW c \in CallsOfPrintf, MP!TakesAll(c), NEW k \in MP!Conversions(c)
  PROVE  /\ k + 1 \in 1..Len(c.fmt) /\ k + 1 \notin MP!Conversions(c)
         /\ c.fmt[k + 1] \in {"c", "d", "o", "s", "p", "x"}
<1>1. k \in 1..Len(c.fmt) /\ Len(c.fmt) \in Nat
  BY ConversionsAre
<1>2. k < Len(c.fmt) /\ c.fmt[k + 1] \in {"c", "d", "o", "s", "p", "x"}
  BY DEF MP!TakesAll, MP!Takes
<1>3. c.fmt[k + 1] # "%"
  BY <1>2
<1> QED
  BY <1>1, <1>2, <1>3, ConversionsAre

(* The calls that printf is right for. *)
Good == {c \in CallsOfPrintf :
           /\ MP!TakesAll(c)
           /\ \A k \in MP!Conversions(c) : MP!HasDigits(c.fmt[k + 1], MP!Argument(c, k))}

LEMMA MeantTyped ==
  ASSUME NEW c \in Good
  PROVE  /\ \A k \in 1..Len(c.fmt) : MP!MeantAt(c, k) \in Seq(Signs)
         /\ \A k \in MP!Conversions(c) :
              LET v == MP!Argument(c, k) IN
              /\ MP!MeantAt(c, k) = MP!Meant(c.fmt[k + 1], v)
              /\ MP!MeantAt(c, k + 1) = <<>>
              /\ c.fmt[k + 1] = "c" => MP!MeantAt(c, k) = <<v.num>> /\ v.num \in Signs
              /\ c.fmt[k + 1] = "s" => /\ v \in [text : Seq(Signs), low : BOOLEAN]
                                       /\ MP!MeantAt(c, k) = v.text
              /\ c.fmt[k + 1] \in {"d", "o", "p", "x"} =>
                   MP!Shown(c.fmt[k + 1], v) = [text |-> MP!MeantAt(c, k), low |-> TRUE]
         /\ \A k \in 1..Len(c.fmt) :
              k \notin MP!Conversions(c) /\ k - 1 \notin MP!Conversions(c) => MP!MeantAt(c, k) = <<c.fmt[k]>>
<1>0. MP!Typed(c) /\ c \in CallsOfPrintf /\ MP!TakesAll(c)
  BY ArgumentsAreTyped DEF Good
<1>1. ASSUME NEW k \in MP!Conversions(c)
      PROVE  LET v == MP!Argument(c, k) IN
              /\ MP!MeantAt(c, k) \in Seq(Signs)
              /\ MP!MeantAt(c, k) = MP!Meant(c.fmt[k + 1], v)
              /\ MP!MeantAt(c, k + 1) = <<>>
              /\ c.fmt[k + 1] = "c" => MP!MeantAt(c, k) = <<v.num>> /\ v.num \in Signs
              /\ c.fmt[k + 1] = "s" => /\ v \in [text : Seq(Signs), low : BOOLEAN]
                                       /\ MP!MeantAt(c, k) = v.text
              /\ c.fmt[k + 1] \in {"d", "o", "p", "x"} =>
                   MP!Shown(c.fmt[k + 1], v) = [text |-> MP!MeantAt(c, k), low |-> TRUE]
  <2> DEFINE v == MP!Argument(c, k)
             f == c.fmt[k + 1]
  <2>1. k \in Int /\ k + 1 \notin MP!Conversions(c) /\ (k + 1) - 1 = k /\ f \in {"c", "d", "o", "s", "p", "x"}
    BY <1>0, ConversionsAre, ConversionsApart
  <2>2. MP!MeantAt(c, k) = MP!Meant(f, v) /\ MP!MeantAt(c, k + 1) = <<>>
    <3>0. k - 1 \notin MP!Conversions(c)
      <4> SUFFICES ASSUME NEW l \in MP!Conversions(c), l = k - 1 PROVE FALSE
        OBVIOUS
      <4>1. l + 1 = k /\ l + 1 \notin MP!Conversions(c)
        BY <1>0, <2>1, ConversionsApart
      <4> QED
        BY <4>1
    <3>1. MP!MeantAt(c, k) = MP!Meant(f, v)
      BY <3>0 DEF MP!MeantAt
    <3>2. PICK l : l = k + 1
      OBVIOUS
    <3>3. l \notin MP!Conversions(c) /\ l - 1 \in MP!Conversions(c)
      BY <2>1, <3>2
    <3>4. MP!MeantAt(c, l) = <<>>
      BY <3>3 DEF MP!MeantAt
    <3> QED
      BY <3>1, <3>2, <3>4
  <2>3. IF f = "s" THEN v \in [text : Seq(STRING), low : BOOLEAN]
        ELSE IF f = "p" THEN v.num \in Nat /\ v.num < MP!Power(4)[Width]
        ELSE v.num \in Int /\ v.num < MP!Power(2)[Width]
    BY <1>0 DEF MP!Typed
  <2>4. MP!HasDigits(f, v)
    BY DEF Good
  <2> HIDE DEF f, v
  <2>5. CASE f = "c"
    <3>1. MP!Meant(f, v) = <<v.num>> /\ v.num \in Signs /\ <<v.num>> \in Seq(Signs)
      BY <2>3, <2>5 DEF MP!Meant, Signs
    <3> QED
      BY <2>2, <2>5, <3>1 DEF f, v
  <2>6. CASE f = "s"
    <3>1. MP!Meant(f, v) = v.text
      BY <2>6 DEF MP!Meant
    <3>2. v \in [text : Seq(Signs), low : BOOLEAN] /\ v.text \in Seq(Signs)
      BY <2>3, <2>6, SignsAre
    <3> QED
      BY <2>2, <2>6, <3>1, <3>2 DEF f, v
  <2>7. CASE f \in {"d", "o", "p", "x"}
    <3>0. /\ f # "p" => v.num \in Int /\ v.num < MP!Power(2)[Width]
          /\ f = "p" => v.num \in Nat /\ v.num < MP!Power(4)[Width]
          /\ v.num \in Int
      <4>1. f # "s"
        BY <2>7
      <4> QED
        BY <2>3, <4>1
    <3>1. MP!Meant(f, v) \in Seq(Int) /\ MP!Shown(f, v) = [text |-> MP!Meant(f, v), low |-> TRUE]
      BY <2>4, <2>7, <3>0, ShownIsMeant
    <3>2. MP!Meant(f, v) \in Seq(Signs)
      BY <3>1, SignsAre
    <3> QED
      BY <2>2, <2>7, <3>1, <3>2 DEF f, v
  <2> QED
    BY <2>1, <2>5, <2>6, <2>7
<1>2. ASSUME NEW k \in 1..Len(c.fmt), k \notin MP!Conversions(c), k - 1 \notin MP!Conversions(c)
      PROVE  MP!MeantAt(c, k) = <<c.fmt[k]>> /\ MP!MeantAt(c, k) \in Seq(Signs)
  <2>1. MP!MeantAt(c, k) = <<c.fmt[k]>>
    BY <1>2 DEF MP!MeantAt
  <2>2. c.fmt[k] \in Signs
    BY <1>0, ConversionsAre DEF Signs
  <2> QED
    BY <2>1, <2>2
<1>3. ASSUME NEW k \in 1..Len(c.fmt), k - 1 \in MP!Conversions(c)
      PROVE  MP!MeantAt(c, k) \in Seq(Signs)
  <2>1. Len(c.fmt) \in Nat
    BY <1>0, ConversionsAre
  <2>2. PICK l \in MP!Conversions(c) : l = k - 1
    BY <1>3
  <2>3. l + 1 = k /\ k \notin MP!Conversions(c)
    BY <1>0, <2>1, <2>2, ConversionsApart
  <2>5. MP!MeantAt(c, k) = <<>>
    BY <1>3, <2>3 DEF MP!MeantAt
  <2>4. <<>> \in Seq(Signs)
    OBVIOUS
  <2> QED
    BY <2>4, <2>5
<1>4. \A k \in 1..Len(c.fmt) : MP!MeantAt(c, k) \in Seq(Signs)
  BY <1>1, <1>2, <1>3
<1> QED
  BY <1>1, <1>2, <1>4

LEMMA MeantUpToIs ==
  ASSUME NEW c \in Good
  PROVE  /\ MP!MeantUpTo(c) \in [0..Len(c.fmt) -> Seq(Signs)]
         /\ MP!MeantUpTo(c)[0] = <<>>
         /\ \A k \in 1..Len(c.fmt) : MP!MeantUpTo(c)[k] = MP!MeantUpTo(c)[k - 1] \o MP!MeantAt(c, k)
<1> DEFINE N == Len(c.fmt)
           S == Seq(Signs)
           g == [p \in (1..N) \X S |-> p[2] \o MP!MeantAt(c, p[1])]
           Is(f) == f = [k \in 0..N |-> IF k = 0 THEN <<>> ELSE f[k - 1] \o MP!MeantAt(c, k)]
<1>0. N \in Nat /\ <<>> \in S
  BY ConversionsAre DEF Good
<1>1. \A k \in 1..N : MP!MeantAt(c, k) \in S
  BY MeantTyped
<1>2. g \in [(1..N) \X S -> S]
  <2>1. ASSUME NEW p \in (1..N) \X S PROVE p[2] \o MP!MeantAt(c, p[1]) \in S
    <3>1. p[2] \in Seq(Signs) /\ MP!MeantAt(c, p[1]) \in Seq(Signs)
      BY <1>1
    <3> QED
      BY <3>1, ConcatProperties
  <2> QED
    BY <2>1
<1> HIDE DEF g
<1>3. PICK f : Recurs(f, N, S, <<>>, g)
  <2> HIDE DEF S, N
  <2> QED
    BY <1>0, <1>2, Recursion
<1>4. f \in [0..N -> S] /\ f[0] = <<>> /\ \A k \in 1..N : f[k] = g[<<k, f[k - 1]>>]
  BY <1>3 DEF Recurs
<1>5. \A k \in 1..N : f[k] = f[k - 1] \o MP!MeantAt(c, k)
  <2> HIDE DEF S, N
  <2> TAKE k \in 1..N
  <2>1. <<k, f[k - 1]>> \in (1..N) \X S
    BY <1>0, <1>4
  <2> QED
    BY <2>1, <1>4 DEF g
<1>6. Is(f)
  <2> HIDE DEF S, N
  <2>1. ASSUME NEW k \in 0..N
        PROVE  f[k] = IF k = 0 THEN <<>> ELSE f[k - 1] \o MP!MeantAt(c, k)
    <3>1. CASE k = 0
      BY <3>1, <1>4
    <3>2. CASE k # 0
      <4>1. k \in 1..N
        BY <3>2, <1>0
      <4>2. f[k] = f[k - 1] \o MP!MeantAt(c, k)
        BY <4>1, <1>5
      <4> QED
        BY <3>2, <4>2
    <3> QED
      BY <3>1, <3>2
  <2> QED
    BY <2>1, <1>4
<1> DEFINE e == MP!MeantUpTo(c)
<1>7. e = CHOOSE u : Is(u)
  BY DEF MP!MeantUpTo
<1>8. Is(e)
  <2> HIDE DEF Is, e
  <2> QED
    BY <1>6, <1>7
<1> HIDE DEF e
<1>9. DOMAIN e = 0..N /\ \A k \in 0..N : e[k] = IF k = 0 THEN <<>> ELSE e[k - 1] \o MP!MeantAt(c, k)
  BY <1>8
<1> DEFINE B == {k \in Nat : k <= N /\ e[k] # f[k]}
<1>10. B = {}
  <2> SUFFICES ASSUME B # {} PROVE FALSE
    OBVIOUS
  <2>1. PICK m \in B : \A j \in B : m <= j
    BY Smallest
  <2>2. m # 0
    BY <2>1, <1>0, <1>4, <1>9
  <2>3. m \in 1..N /\ m \in 0..N /\ m - 1 \in Nat /\ m - 1 <= N /\ m - 1 \notin B
    BY <2>1, <2>2, <1>0
  <2>4. e[m - 1] = f[m - 1]
    BY <2>3
  <2>5. e[m] = e[m - 1] \o MP!MeantAt(c, m)
    BY <2>2, <2>3, <1>9
  <2>6. f[m] = f[m - 1] \o MP!MeantAt(c, m)
    BY <2>3, <1>5
  <2> QED
    BY <2>1, <2>4, <2>5, <2>6
<1>11. e = f
  <2>1. \A k \in 0..N : e[k] = f[k]
    BY <1>0, <1>10
  <2> HIDE DEF S, B
  <2>2. e = [k \in 0..N |-> e[k]] /\ f = [k \in 0..N |-> f[k]]
    BY <1>4, <1>8
  <2> QED
    BY <2>1, <2>2
<1> QED
  BY <1>4, <1>5, <1>11 DEF e

LEMMA MeantGrows ==
  ASSUME NEW c \in Good, NEW k \in 0..Len(c.fmt), NEW l \in 0..Len(c.fmt), k <= l
  PROVE  \E r \in Seq(Signs) : MP!MeantUpTo(c)[l] = MP!MeantUpTo(c)[k] \o r
<1> DEFINE U == MP!MeantUpTo(c)
           N == Len(c.fmt)
           Goes(m) == \E r \in Seq(Signs) : U[m] = U[k] \o r
           B == {m \in Nat : m <= N /\ k <= m /\ ~Goes(m)}
<1>0. N \in Nat
  BY ConversionsAre DEF Good
<1>1. U \in [0..N -> Seq(Signs)] /\ \A j \in 1..N : U[j] = U[j - 1] \o MP!MeantAt(c, j)
  BY MeantUpToIs
<1>2. \A j \in 1..N : MP!MeantAt(c, j) \in Seq(Signs)
  BY MeantTyped
<1> HIDE DEF U
<1> SUFFICES ASSUME B # {} PROVE FALSE
  <2>1. B = {} => Goes(l)
    <3> HIDE DEF Goes
    <3> QED
      BY <1>0
  <2> QED
    BY <2>1 DEF U
<1>3. PICK m \in B : \A j \in B : m <= j
  BY Smallest
<1>4. m # k
  <2>1. U[k] \in Seq(Signs) /\ <<>> \in Seq(Signs)
    BY <1>1
  <2>2. U[k] = U[k] \o <<>>
    BY <2>1, ConcatEmptySeq
  <2> QED
    BY <1>3, <2>1, <2>2
<1>5. m \in 1..N /\ Goes(m - 1)
  <2> HIDE DEF Goes, N
  <2> QED
    BY <1>0, <1>3, <1>4
<1>6. PICK r \in Seq(Signs) : U[m - 1] = U[k] \o r
  BY <1>5
<1>7. U[m] = (U[k] \o r) \o MP!MeantAt(c, m)
  BY <1>1, <1>5, <1>6
<1>8. U[k] \in Seq(Signs) /\ MP!MeantAt(c, m) \in Seq(Signs)
  BY <1>1, <1>2, <1>5
<1>9. ASSUME NEW q \in Seq(Signs), NEW z \in Seq(Signs)
      PROVE  (q \o r) \o z = q \o (r \o z) /\ r \o z \in Seq(Signs)
  BY ConcatAssociative, ConcatProperties
<1>10. Goes(m)
  BY <1>7, <1>8, <1>9
<1> QED
  BY <1>3, <1>10

(* printf. Up to where it has come, what is written and what text has left *)
(* is what C means, and len counts it. A string on the stack that is not   *)
(* empty is still to be written when printf has come to it.                *)
PFText == [text : Seq(Signs), low : BOOLEAN]
PFFaults(c) == \E k \in MP!Conversions(c) : MP!OnStack(c, k)
PFBefore(c, k) == Cardinality({j \in MP!Conversions(c) : j < k})

PFTypes(c) ==
  /\ call = [printf |-> c] /\ closed \in BOOLEAN /\ status \in {"runs", "returned", "exit 14"}
  /\ traverse \in 1..Len(c.fmt) + 1 /\ traverse - 1 \notin MP!Conversions(c)
  /\ arg = PFBefore(c, traverse) + 1
  /\ out \in Seq(Signs) /\ text \in PFText /\ len \in Nat

PFWritten(U) == /\ len + Len(text.text) = Len(U)
                /\ closed => out = <<>>
                /\ ~closed => out \o text.text = U

PFWaits(c) == \A k \in MP!Conversions(c) : k < traverse /\ MP!OnStack(c, k) => text.text # <<>> /\ ~text.low

PFCut(c, U) == ~closed /\ PFFaults(c) /\ \E r \in Seq(Signs) : r # <<>> /\ out \o r = U

PFHas(c) ==
  /\ PFTypes(c)
  /\ text.text # <<>> /\ ~text.low => PFFaults(c)
  /\ status # "exit 14" => PFWritten(MP!MeantUpTo(c)[traverse - 1]) /\ (~closed => PFWaits(c))
  /\ status = "returned" => traverse = Len(c.fmt) + 1 /\ text.text = <<>> /\ returned = len
  /\ status = "exit 14" => PFCut(c, MP!MeantUpTo(c)[traverse - 1])

PFInv == MP!Supported => \E c \in Good : PFHas(c)

LEMMA GoodIs ==
  ASSUME NEW c \in CallsOfPrintf, call = [printf |-> c]
  PROVE  MP!Supported <=> c \in Good
<1>1. call.printf = c /\ "printf" \in DOMAIN call
  OBVIOUS
<1>2. MP!fmt = c.fmt
  BY <1>1 DEF MP!fmt
<1> QED
  BY <1>1, <1>2 DEF MP!Supported, Good

LEMMA PFInit == MP!Init => PFInv
<1> SUFFICES ASSUME MP!Init, MP!Supported PROVE \E c \in Good : PFHas(c)
  BY DEF PFInv
<1>1. PICK c \in CallsOfPrintf : call = [printf |-> c]
  <2>1. "printf" \in DOMAIN call
    BY DEF MP!Supported
  <2>2. call \in [printf : CallsOfPrintf] \cup [puts : Texts] \cup [strcpy : Copies]
    BY DEF MP!Init
  <2> QED
    BY <2>1, <2>2
<1>2. c \in Good
  BY <1>1, GoodIs
<1>3. /\ closed \in BOOLEAN /\ traverse = 1 /\ arg = 1 /\ text = [text |-> <<>>, low |-> TRUE]
      /\ out = <<>> /\ len = 0 /\ status = "runs" /\ returned = 0
  BY DEF MP!Init, MP!Nothing, MP!Low
<1>4. /\ Len(c.fmt) \in Nat /\ MP!Conversions(c) \in SUBSET (1..Len(c.fmt))
  BY ConversionsAre
<1>5. PFTypes(c)
  <2>1. {j \in MP!Conversions(c) : j < 1} = {}
    BY <1>4
  <2>2. PFBefore(c, 1) = 0
    BY <2>1, FS_EmptySet DEF PFBefore
  <2>3. 0 \notin MP!Conversions(c)
    BY <1>4
  <2>4. text \in PFText /\ out \in Seq(Signs)
    BY <1>3 DEF PFText
  <2> QED
    BY <1>1, <1>3, <1>4, <2>2, <2>3, <2>4 DEF PFTypes
<1>6. PFWritten(MP!MeantUpTo(c)[traverse - 1])
  <2>1. MP!MeantUpTo(c)[0] = <<>>
    BY <1>2, MeantUpToIs
  <2>2. MP!MeantUpTo(c)[traverse - 1] = <<>>
    BY <2>1, <1>3
  <2>3. text.text = <<>> /\ Len(<<>>) = 0 /\ <<>> \o <<>> = <<>>
    BY <1>3
  <2> QED
    BY <2>2, <2>3, <1>3 DEF PFWritten
<1>7. PFWaits(c)
  BY <1>3, <1>4 DEF PFWaits
<1>8. text.text = <<>>
  BY <1>3
<1> QED
  BY <1>2, <1>3, <1>5, <1>6, <1>7, <1>8 DEF PFHas

LEMMA PFIdle == PFInv /\ UNCHANGED printVars => PFInv'
<1> SUFFICES ASSUME PFInv, UNCHANGED printVars PROVE PFInv'
  OBVIOUS
<1>1. /\ call' = call /\ closed' = closed /\ traverse' = traverse /\ arg' = arg /\ text' = text
      /\ out' = out /\ len' = len /\ status' = status /\ returned' = returned
  BY DEF printVars
<1>2. MP!Supported' <=> MP!Supported
  BY <1>1 DEF MP!Supported, MP!fmt
<1>3. ASSUME NEW c \in Good, PFHas(c) PROVE PFHas(c)'
  BY <1>1, <1>3 DEF PFHas, PFTypes, PFWritten, PFWaits, PFCut
<1> QED
  BY <1>2, <1>3 DEF PFInv

LEMMA MPCardinality == \A S : MP!Cardinality(S) = Cardinality(S)
BY Zenon DEF MP!Cardinality, Cardinality

(* How many conversions begin before a place. *)
LEMMA BeforeGrows ==
  ASSUME NEW c \in Good, NEW k \in 1..Len(c.fmt)
  PROVE  /\ k \notin MP!Conversions(c) => PFBefore(c, k + 1) = PFBefore(c, k)
         /\ k \in MP!Conversions(c) =>
              /\ MP!Argument(c, k) = c.args[PFBefore(c, k) + 1]
              /\ PFBefore(c, k + 2) = PFBefore(c, k) + 1
<1> DEFINE C == MP!Conversions(c)
           S == {j \in C : j < k}
<1>1. c \in CallsOfPrintf /\ MP!TakesAll(c)
  BY DEF Good
<1>2. C \in SUBSET Nat /\ IsFiniteSet(C)
  BY <1>1, ConversionsAre
<1>3. k \notin C => {j \in C : j < k + 1} = S
  BY <1>2
<1>4. ASSUME k \in C
      PROVE  /\ {j \in C : j <= k} = S \cup {k}
             /\ {j \in C : j < k + 2} = S \cup {k}
  <2>1. k + 1 \notin C
    BY <1>1, <1>4, ConversionsApart
  <2> QED
    BY <1>2, <1>4, <2>1
<1>5. Cardinality(S \cup {k}) = Cardinality(S) + 1
  <2>1. IsFiniteSet(S) /\ k \notin S
    BY <1>2, FS_Subset
  <2> QED
    BY <2>1, FS_AddElement
<1>6. /\ PFBefore(c, k) = Cardinality(S)
      /\ PFBefore(c, k + 1) = Cardinality({j \in C : j < k + 1})
      /\ PFBefore(c, k + 2) = Cardinality({j \in C : j < k + 2})
      /\ MP!Argument(c, k) = c.args[Cardinality({j \in C : j <= k})]
  <2>1. PFBefore(c, k) = Cardinality(S)
    BY Zenon DEF PFBefore
  <2>2. PFBefore(c, k + 1) = Cardinality({j \in C : j < k + 1})
    BY Zenon DEF PFBefore
  <2>3. PFBefore(c, k + 2) = Cardinality({j \in C : j < k + 2})
    BY Zenon DEF PFBefore
  <2>4. MP!Argument(c, k) = c.args[Cardinality({j \in C : j <= k})]
    BY MPCardinality DEF MP!Argument
  <2> QED
    BY <2>1, <2>2, <2>3, <2>4
<1> DEFINE n == Cardinality(S)
           m == Cardinality(S \cup {k})
<1>7. ASSUME k \notin C PROVE PFBefore(c, k + 1) = n /\ PFBefore(c, k) = n
  BY <1>3, <1>6, <1>7
<1>8. ASSUME k \in C PROVE MP!Argument(c, k) = c.args[m] /\ PFBefore(c, k + 2) = m /\ PFBefore(c, k) = n
  BY <1>4, <1>6, <1>8
<1>9. m = n + 1
  BY <1>5
<1> HIDE DEF n, m, S, C
<1>10. k \in C <=> k \in MP!Conversions(c)
  BY DEF C
<1> QED
  BY <1>7, <1>8, <1>9, <1>10

LEMMA SignsOf ==
  ASSUME NEW q \in Seq(Signs), NEW r \in Seq(Signs)
  PROVE  /\ q \o <<>> = q /\ <<>> \in Seq(Signs)
         /\ q \o r \in Seq(Signs) /\ Len(q \o r) = Len(q) + Len(r)
         /\ r # <<>> => /\ <<Head(r)>> \in Seq(Signs) /\ Tail(r) \in Seq(Signs)
                        /\ Len(Tail(r)) = Len(r) - 1
                        /\ (q \o <<Head(r)>>) \o Tail(r) = q \o r
<1>1. q \o <<>> = q /\ <<>> \in Seq(Signs)
  BY ConcatEmptySeq
<1>2. q \o r \in Seq(Signs) /\ Len(q \o r) = Len(q) + Len(r)
  BY ConcatProperties
<1>3. ASSUME r # <<>>
      PROVE  /\ <<Head(r)>> \in Seq(Signs) /\ Tail(r) \in Seq(Signs)
             /\ Len(Tail(r)) = Len(r) - 1
             /\ (q \o <<Head(r)>>) \o Tail(r) = q \o r
  <2>1. Head(r) \in Signs /\ Tail(r) \in Seq(Signs) /\ Len(Tail(r)) = Len(r) - 1
    BY <1>3, HeadTailProperties
  <2>2. <<Head(r)>> \in Seq(Signs)
    BY <2>1
  <2>3. r = <<Head(r)>> \o Tail(r)
    BY <1>3
  <2>4. (q \o <<Head(r)>>) \o Tail(r) = q \o (<<Head(r)>> \o Tail(r))
    BY <2>1, <2>2, ConcatAssociative
  <2> QED
    BY <2>1, <2>2, <2>3, <2>4
<1> QED
  BY <1>1, <1>2, <1>3

(* What a character, or a conversion, adds.                                *)
LEMMA PlacesAre ==
  ASSUME NEW c \in Good, NEW k \in 1..Len(c.fmt), k - 1 \notin MP!Conversions(c)
  PROVE  /\ MP!MeantUpTo(c)[k - 1] \in Seq(Signs)
         /\ k \notin MP!Conversions(c) =>
              /\ <<c.fmt[k]>> \in Seq(Signs)
              /\ MP!MeantUpTo(c)[k] = MP!MeantUpTo(c)[k - 1] \o <<c.fmt[k]>>
         /\ k \in MP!Conversions(c) =>
              /\ k + 1 \in 1..Len(c.fmt) /\ k + 1 \notin MP!Conversions(c)
              /\ MP!MeantAt(c, k) \in Seq(Signs)
              /\ MP!MeantUpTo(c)[k + 1] = MP!MeantUpTo(c)[k - 1] \o MP!MeantAt(c, k)
<1> DEFINE U == MP!MeantUpTo(c)
           N == Len(c.fmt)
<1>0. c \in CallsOfPrintf /\ MP!TakesAll(c) /\ N \in Nat
  BY ConversionsAre DEF Good
<1>1. U \in [0..N -> Seq(Signs)] /\ \A j \in 1..N : U[j] = U[j - 1] \o MP!MeantAt(c, j)
  BY MeantUpToIs
<1>2. \A j \in 1..N : MP!MeantAt(c, j) \in Seq(Signs)
  BY MeantTyped
<1>3. ASSUME k \notin MP!Conversions(c)
      PROVE  MP!MeantAt(c, k) = <<c.fmt[k]>>
  BY <1>3, MeantTyped
<1>4. ASSUME k \in MP!Conversions(c)
      PROVE  k + 1 \in 1..N /\ k + 1 \notin MP!Conversions(c) /\ MP!MeantAt(c, k + 1) = <<>>
  BY <1>0, <1>4, ConversionsApart, MeantTyped
<1> HIDE DEF U, N
<1>5. U[k - 1] \in Seq(Signs) /\ U[k] = U[k - 1] \o MP!MeantAt(c, k) /\ U[k] \in Seq(Signs)
  <2>1. k - 1 \in 0..N /\ k \in 1..N /\ k \in 0..N
    BY <1>0 DEF N
  <2> QED
    BY <1>1, <2>1
<1>6. ASSUME k \in MP!Conversions(c)
      PROVE  U[k + 1] = U[k]
  <2>1. PICK l : l = k + 1
    OBVIOUS
  <2>2. l \in 1..N /\ l - 1 = k /\ MP!MeantAt(c, l) = <<>>
    BY <1>4, <1>6, <2>1 DEF N
  <2>3. U[l] = U[k] \o <<>>
    BY <1>1, <2>2
  <2> QED
    BY <1>5, <2>1, <2>3, ConcatEmptySeq
<1> QED
  BY <1>2, <1>3, <1>4, <1>5, <1>6 DEF U, N

LEMMA PFLiteral ==
  ASSUME NEW c \in Good, PFHas(c), MP!Literal
  PROVE  PFHas(c)'
<1> DEFINE U == MP!MeantUpTo(c)
<1>0. PICK k : k = traverse
  OBVIOUS
<1>1. /\ PFTypes(c) /\ status = "runs" /\ PFWritten(U[k - 1]) /\ (~closed => PFWaits(c))
      /\ text.text = <<>>
  BY <1>0 DEF PFHas, MP!Literal, MP!InPrintf
<1>2. /\ call' = call /\ closed' = closed /\ traverse' = k + 1 /\ arg' = arg /\ text' = text
      /\ len' = len + 1 /\ returned' = returned /\ status' = status
      /\ out' = IF closed THEN out ELSE out \o <<c.fmt[k]>>
      /\ k <= Len(c.fmt) /\ c.fmt[k] # "%"
  BY <1>0, <1>1 DEF MP!Literal, MP!Write, MP!Low, MP!fmt, PFTypes
<1>3. k \in 1..Len(c.fmt) /\ k \notin MP!Conversions(c) /\ k - 1 \notin MP!Conversions(c)
      /\ MP!Conversions(c) \in SUBSET Int
  BY <1>0, <1>1, <1>2, ConversionsAre DEF PFTypes, Good
<1>4. /\ U[k - 1] \in Seq(Signs) /\ <<c.fmt[k]>> \in Seq(Signs)
      /\ U[k] = U[k - 1] \o <<c.fmt[k]>> /\ PFBefore(c, k + 1) = PFBefore(c, k)
  BY <1>3, PlacesAre, BeforeGrows
<1> HIDE DEF U
<1>5. out \in Seq(Signs) /\ len \in Nat /\ Len(c.fmt) \in Nat
  BY <1>1, ConversionsAre DEF PFTypes, Good
<1>6. out \o <<c.fmt[k]>> \in Seq(Signs) /\ Len(U[k]) = Len(U[k - 1]) + 1
  BY <1>4, <1>5, SignsOf
<1>7. PFTypes(c)'
  BY <1>0, <1>1, <1>2, <1>3, <1>4, <1>5, <1>6 DEF PFTypes
<1>8. PFWritten(U[k])'
  <2>1. len' + Len(text'.text) = Len(U[k])
    BY <1>1, <1>2, <1>5, <1>6 DEF PFWritten
  <2>2. ASSUME ~closed PROVE out' \o text'.text = U[k]
    <3>1. out \o <<>> = U[k - 1] /\ out \o <<>> = out
      BY <1>1, <1>5, <2>2, SignsOf DEF PFWritten
    <3>2. out' = U[k] /\ out' \in Seq(Signs)
      BY <1>2, <1>4, <1>6, <2>2, <3>1
    <3> QED
      BY <1>1, <1>2, <3>2, SignsOf
  <2> QED
    BY <1>1, <1>2, <2>1, <2>2 DEF PFWritten
<1>9. ~closed' => PFWaits(c)'
  BY <1>0, <1>1, <1>2, <1>3 DEF PFWaits
<1>10. traverse' - 1 = k
  BY <1>2, <1>3
<1>11. MP!MeantUpTo(c)[traverse - 1]' = U[k]
  BY <1>10 DEF U
<1> QED
  <2>1. PFWritten(MP!MeantUpTo(c)[traverse - 1])'
    BY <1>8, <1>11 DEF PFWritten
  <2> QED
    BY <1>1, <1>2, <1>7, <1>9, <2>1 DEF PFHas

LEMMA PFConversion ==
  ASSUME NEW c \in Good, PFHas(c), MP!Conversion
  PROVE  PFHas(c)'
<1> DEFINE U == MP!MeantUpTo(c)
           v(k) == MP!Argument(c, k)
<1>0. PICK k : k = traverse
  OBVIOUS
<1>1. /\ PFTypes(c) /\ status = "runs" /\ PFWritten(U[k - 1]) /\ (~closed => PFWaits(c))
      /\ text.text = <<>>
  BY <1>0 DEF PFHas, MP!Conversion, MP!Converts, MP!InPrintf
<1>2. /\ call = [printf |-> c] /\ call' = call /\ closed' = closed /\ traverse' = k + 2 /\ returned' = returned
      /\ k < Len(c.fmt) /\ c.fmt[k] = "%" /\ MP!Fetch(c.fmt[k + 1])
  BY <1>0, <1>1 DEF MP!Conversion, MP!Converts, MP!fmt, PFTypes
<1>3. /\ k \in 1..Len(c.fmt) /\ k \in MP!Conversions(c) /\ k - 1 \notin MP!Conversions(c)
      /\ MP!Conversions(c) \in SUBSET Int /\ Len(c.fmt) \in Nat
  BY <1>0, <1>1, <1>2, ConversionsAre DEF PFTypes, Good
<1> DEFINE f == c.fmt[k + 1]
           m == MP!MeantAt(c, k)
<1>4. /\ U[k - 1] \in Seq(Signs) /\ m \in Seq(Signs) /\ U[k + 1] = U[k - 1] \o m
      /\ k + 1 \in 1..Len(c.fmt) /\ k + 1 \notin MP!Conversions(c)
      /\ v(k) = c.args[PFBefore(c, k) + 1] /\ PFBefore(c, k + 2) = PFBefore(c, k) + 1
  BY <1>3, PlacesAre, BeforeGrows
<1>5. f \in {"c", "d", "o", "s", "p", "x"}
  <2>1. c \in CallsOfPrintf /\ MP!TakesAll(c)
    BY DEF Good
  <2> QED
    BY <1>3, <2>1, ConversionsApart
<1>6. /\ f = "c" => m = <<v(k).num>> /\ v(k).num \in Signs
      /\ f = "s" => v(k) \in PFText /\ m = v(k).text
      /\ f \in {"d", "o", "p", "x"} => MP!Shown(f, v(k)) = [text |-> m, low |-> TRUE]
  BY <1>3, MeantTyped DEF PFText
<1> HIDE DEF U, f, m, v
<1>7. arg' = PFBefore(c, k + 2) + 1 /\ call.printf.args[arg] = v(k)
  <2>1. arg = PFBefore(c, k) + 1
    BY <1>0, <1>1 DEF PFTypes
  <2>2. arg' = arg + 1
    BY <1>2, <1>5 DEF f, MP!Fetch, MP!Takes
  <2>3. call.printf.args[arg] = v(k)
    BY <1>2, <1>4, <2>1
  <2> QED
    BY <1>4, <2>1, <2>2, <2>3
<1>8. out \in Seq(Signs) /\ len \in Nat /\ text \in PFText /\ closed \in BOOLEAN
  BY <1>1 DEF PFTypes
<1>9. Len(U[k + 1]) = Len(U[k - 1]) + Len(m) /\ Len(m) \in Nat /\ Len(U[k - 1]) \in Nat
  BY <1>4, SignsOf
<1>10. len = Len(U[k - 1]) /\ (closed => out = <<>>) /\ (~closed => out = U[k - 1])
  <2>1. out \o <<>> = out
    BY <1>8, SignsOf
  <2> QED
    BY <1>1, <1>8, <1>9, <2>1 DEF PFWritten
<1>11. ~closed => \A j \in MP!Conversions(c) : j < k => ~MP!OnStack(c, j)
  BY <1>0, <1>1 DEF PFWaits
<1>12. traverse' - 1 = k + 1
  BY <1>2, <1>3
<1>13. MP!OnStack(c, k) <=> (f = "c" \/ (f = "s" /\ ~v(k).low /\ v(k).text # <<>>))
  BY Zenon DEF MP!OnStack, f, v
<1>14. out' \in Seq(Signs) /\ len' \in Nat /\ text' \in PFText /\ status' \in {"runs", "exit 14"} => PFTypes(c)'
  <2>1. traverse' \in 1..Len(c.fmt) + 1 /\ traverse' - 1 \notin MP!Conversions(c)
    BY <1>2, <1>3, <1>4, <1>12
  <2>2. arg' = PFBefore(c, traverse') + 1 /\ call' = [printf |-> c] /\ closed' \in BOOLEAN
    BY <1>2, <1>7, <1>8
  <2> QED
    BY <2>1, <2>2 DEF PFTypes
<1>15. MP!MeantUpTo(c)[traverse - 1]' = U[k + 1]
  BY <1>12 DEF U
<1>16. CASE f = "c"
  <2>1. /\ text' = text /\ len' = len + 1
        /\ closed => out' = out /\ status' = status
        /\ ~closed => out' = out /\ status' = "exit 14"
    BY <1>2, <1>16 DEF f, MP!Fetch, MP!Write, MP!High
  <2>2. PFTypes(c)'
    <3>0. len' \in Nat
      <4>1. len' = len + 1 /\ len \in Nat
        BY <1>8, <2>1, Zenon
      <4> QED
        BY <4>1
    <3>1. out' = out /\ status' \in {"runs", "exit 14"} /\ len' \in Nat /\ text' = text
      BY <1>1, <1>8, <2>1, <3>0, Zenon
    <3> QED
      BY <1>8, <1>14, <3>1
  <2>3. text'.text = <<>> /\ status' # "returned"
    BY <1>1, <2>1
  <2>4. CASE closed
    <3>1. PFWritten(U[k + 1])'
      <4>1. Len(m) = 1 /\ Len(<<>>) = 0
        BY <1>6, <1>16
      <4> QED
        BY <1>2, <1>8, <1>9, <1>10, <2>1, <2>3, <2>4, <4>1 DEF PFWritten
    <3>2. PFWritten(MP!MeantUpTo(c)[traverse - 1])'
      BY <1>15, <3>1 DEF PFWritten
    <3> QED
      BY <1>1, <1>2, <2>1, <2>2, <2>3, <2>4, <3>2 DEF PFHas
  <2>5. CASE ~closed
    <3>1. PFCut(c, U[k + 1])'
      <4>1. PFFaults(c)
        <5>1. MP!OnStack(c, k)
          BY <1>13, <1>16
        <5> QED
          BY <1>3, <5>1 DEF PFFaults
      <4>2. m # <<>> /\ out' \o m = U[k + 1]
        <5>1. out' = U[k - 1] /\ m = <<v(k).num>>
          BY <1>6, <1>10, <1>16, <2>1, <2>5
        <5> QED
          BY <1>4, <5>1
      <4> QED
        BY <1>2, <1>4, <2>5, <4>1, <4>2 DEF PFCut
    <3>2. PFCut(c, MP!MeantUpTo(c)[traverse - 1])'
      BY <1>15, <3>1 DEF PFCut
    <3> QED
      BY <1>2, <2>1, <2>2, <2>3, <2>5, <3>2 DEF PFHas
  <2> QED
    BY <2>4, <2>5
<1>17. CASE f # "c"
  <2>1. /\ text' = MP!Shown(f, v(k)) /\ out' = out /\ status' = status /\ len' = len
    BY <1>2, <1>5, <1>7, <1>17 DEF f, MP!Fetch, MP!Takes
  <2>2. /\ text' \in PFText /\ text'.text = m
        /\ text'.text # <<>> /\ ~text'.low => MP!OnStack(c, k)
        /\ MP!OnStack(c, k) => text'.text # <<>> /\ ~text'.low
    <3>1. CASE f = "s"
      <4>1. text' = v(k)
        BY <2>1, <3>1 DEF MP!Shown
      <4> QED
        BY <1>6, <1>13, <3>1, <4>1
    <3>2. CASE f \in {"d", "o", "p", "x"}
      <4>1. text' = [text |-> m, low |-> TRUE]
        BY <1>6, <2>1, <3>2
      <4>2. text' \in PFText /\ text'.text = m /\ text'.low = TRUE
        BY <1>4, <4>1 DEF PFText
      <4> QED
        BY <1>13, <3>2, <4>2
    <3> QED
      BY <1>5, <1>17, <3>1, <3>2
  <2>3. PFTypes(c)'
    BY <1>1, <1>8, <1>14, <2>1, <2>2
  <2>4. PFWritten(U[k + 1])'
    BY <1>2, <1>4, <1>9, <1>10, <2>1, <2>2 DEF PFWritten
  <2>5. PFWritten(MP!MeantUpTo(c)[traverse - 1])'
    BY <1>15, <2>4 DEF PFWritten
  <2>6. ~closed' => PFWaits(c)'
    <3> SUFFICES ASSUME ~closed, NEW j \in MP!Conversions(c), j < k + 2, MP!OnStack(c, j)
                 PROVE  text'.text # <<>> /\ ~text'.low
      BY <1>2 DEF PFWaits
    <3>1. j = k
      BY <1>3, <1>4, <1>11
    <3> QED
      BY <2>2, <3>1
  <2>7. text'.text # <<>> /\ ~text'.low => PFFaults(c)
    BY <1>3, <2>2 DEF PFFaults
  <2> QED
    BY <1>1, <2>1, <2>3, <2>5, <2>6, <2>7 DEF PFHas
<1> QED
  BY <1>16, <1>17

LEMMA SignsJoin ==
  ASSUME NEW q \in Seq(Signs), NEW r \in Seq(Signs), NEW s \in Seq(Signs)
  PROVE  (q \o r) \o s = q \o (r \o s)
BY ConcatAssociative

LEMMA SignsPrefix ==
  ASSUME NEW q \in Seq(Signs), NEW r \in Seq(Signs)
  PROVE  MP!IsPrefix(q, q \o r) /\ (r # <<>> => q # q \o r)
<1>1. /\ Len(q \o r) = Len(q) + Len(r) /\ Len(q) \in Nat /\ Len(r) \in Nat /\ q \o r \in Seq(Signs)
      /\ \A j \in 1..Len(q) : (q \o r)[j] = q[j]
  BY ConcatProperties
<1>2. SubSeq(q \o r, 1, Len(q)) = q /\ SubSeq(q, 1, Len(q)) = q
  BY <1>1
<1>3. r # <<>> => Len(r) # 0
  BY EmptySeq
<1>4. MP!IsPrefix(q, q \o r)
  <2>1. Len(q) <= Len(q \o r)
    BY <1>1
  <2> QED
    BY <1>2, <2>1, Zenon DEF MP!IsPrefix
<1>5. r # <<>> => Len(q) # Len(q \o r)
  BY <1>1, <1>3
<1> QED
  BY <1>4, <1>5

LEMMA PFPlace ==
  ASSUME NEW c \in Good, PFTypes(c)
  PROVE  /\ Len(c.fmt) \in Nat /\ traverse \in 1..Len(c.fmt) + 1
         /\ traverse - 1 \in 0..Len(c.fmt) /\ Len(c.fmt) \in 0..Len(c.fmt)
         /\ traverse - 1 <= Len(c.fmt)
<1>1. Len(c.fmt) \in Nat
  BY ConversionsAre DEF Good
<1>2. traverse \in 1..Len(c.fmt) + 1
  BY Zenon DEF PFTypes
<1> QED
  BY <1>1, <1>2

LEMMA PFPuts ==
  ASSUME NEW c \in Good, PFHas(c), MP!Puts
  PROVE  PFHas(c)'
<1>0. PICK said : said = MP!MeantUpTo(c)[traverse - 1]
  OBVIOUS
<1>1. /\ PFTypes(c) /\ status = "runs" /\ PFWritten(said) /\ (~closed => PFWaits(c))
      /\ text.text # <<>>
      /\ ~text.low => PFFaults(c)
  BY <1>0 DEF PFHas, MP!Puts, MP!InPrintf
<1>2. out \in Seq(Signs) /\ len \in Nat /\ text \in PFText /\ closed \in BOOLEAN /\ text.text \in Seq(Signs)
  BY <1>1 DEF PFTypes, PFText
<1> DEFINE s == text.text
<1>3. /\ <<Head(s)>> \in Seq(Signs) /\ Tail(s) \in Seq(Signs) /\ Len(s) \in Nat
      /\ Len(Tail(s)) = Len(s) - 1 /\ (out \o <<Head(s)>>) \o Tail(s) = out \o s
      /\ out \o <<Head(s)>> \in Seq(Signs)
  <2>1. s \in Seq(Signs) /\ s # <<>>
    BY <1>1, <1>2
  <2> HIDE DEF s
  <2>2. <<Head(s)>> \in Seq(Signs)
    BY <1>2, <2>1, SignsOf
  <2> QED
    BY <1>2, <2>1, <2>2, SignsOf
<1>4. /\ text' \in PFText /\ text'.text = Tail(s) /\ (text'.text # <<>> => text'.low = text.low)
      /\ (text.low => text'.low)
  <2>1. CASE Len(s) = 1
    <3>1. Tail(s) = <<>>
      <4> HIDE DEF s
      <4>1. Tail(s) \in Seq(Signs) /\ Len(Tail(s)) = 0
        BY <1>3, <2>1
      <4> QED
        BY <4>1, EmptySeq
    <3>2. text' = [text |-> <<>>, low |-> TRUE]
      BY <2>1 DEF MP!Puts, MP!Nothing, MP!Low
    <3> QED
      BY <3>1, <3>2 DEF PFText
  <2>2. CASE Len(s) # 1
    <3>1. text' = [text EXCEPT !.text = Tail(text.text)]
      BY <2>2 DEF MP!Puts
    <3> QED
      BY <1>2, <1>3, <3>1 DEF PFText
  <2> QED
    BY <2>1, <2>2
<1>5. /\ call' = call /\ closed' = closed /\ traverse' = traverse /\ arg' = arg /\ returned' = returned
      /\ len' = len + 1
      /\ closed => out' = out /\ status' = status
      /\ ~closed /\ text.low => out' = out \o <<Head(s)>> /\ status' = status
      /\ ~closed /\ ~text.low => out' = out /\ status' = "exit 14"
  <2>1. [text EXCEPT !.text = <<Head(text.text)>>].text = <<Head(s)>>
        /\ [text EXCEPT !.text = <<Head(text.text)>>].low = text.low
    BY <1>2 DEF PFText
  <2> QED
    BY <2>1 DEF MP!Puts, MP!Write
<1>6. PFTypes(c)'
  <2>1. out' \in Seq(Signs) /\ status' \in {"runs", "returned", "exit 14"}
    BY <1>1, <1>2, <1>3, <1>5, Zenon
  <2>2. len' \in Nat
    <3>1. len' = len + 1 /\ len \in Nat
      BY <1>2, <1>5, Zenon
    <3> QED
      BY <3>1
  <2> QED
    BY <1>1, <1>4, <1>5, <2>1, <2>2, Zenon DEF PFTypes
<1>7. text'.text # <<>> /\ ~text'.low => PFFaults(c)
  BY <1>1, <1>4
<1>8. len' + Len(text'.text) = Len(said)
  <2>1. len + Len(s) = Len(said)
    BY <1>1 DEF PFWritten
  <2>2. len' + Len(text'.text) = (len + 1) + (Len(s) - 1)
    BY <1>3, <1>4, <1>5
  <2> HIDE DEF s
  <2> QED
    BY <1>2, <1>3, <2>1, <2>2
<1>9. MP!MeantUpTo(c)[traverse - 1]' = said
  BY <1>0, <1>5
<1>10. CASE closed \/ text.low
  <2>1. PFWritten(said)'
    BY <1>1, <1>3, <1>4, <1>5, <1>8, <1>10 DEF PFWritten
  <2>2. PFWritten(MP!MeantUpTo(c)[traverse - 1])'
    BY <1>9, <2>1 DEF PFWritten
  <2>3. ~closed' => PFWaits(c)'
    BY <1>1, <1>5, <1>10 DEF PFWaits
  <2> QED
    BY <1>1, <1>5, <1>6, <1>7, <1>10, <2>2, <2>3 DEF PFHas
<1>11. CASE ~closed /\ ~text.low
  <2>1. PFCut(c, said)'
    BY <1>1, <1>2, <1>5, <1>11 DEF PFCut, PFWritten, PFFaults
  <2>2. PFCut(c, MP!MeantUpTo(c)[traverse - 1])'
    BY <1>9, <2>1 DEF PFCut
  <2> QED
    BY <1>5, <1>6, <1>7, <1>11, <2>2 DEF PFHas
<1> QED
  BY <1>10, <1>11

LEMMA PFReturn ==
  ASSUME NEW c \in Good, PFHas(c), MP!Return
  PROVE  PFHas(c)'
<1>1. /\ PFTypes(c) /\ status = "runs" /\ PFWritten(MP!MeantUpTo(c)[traverse - 1]) /\ (~closed => PFWaits(c))
      /\ text.text = <<>>
  BY DEF PFHas, MP!Return, MP!InPrintf
<1>2. /\ call' = call /\ closed' = closed /\ traverse' = traverse /\ arg' = arg /\ text' = text /\ len' = len
      /\ out' = out /\ status' = "returned" /\ returned' = len /\ traverse > Len(c.fmt)
  BY <1>1 DEF MP!Return, MP!fmt, PFTypes
<1>3. Len(c.fmt) \in Nat
  BY ConversionsAre DEF Good
<1>4. PFTypes(c)' /\ traverse' = Len(c.fmt) + 1
  BY <1>1, <1>2, <1>3 DEF PFTypes
<1>5. PFWritten(MP!MeantUpTo(c)[traverse - 1])' /\ (~closed' => PFWaits(c)')
  BY <1>1, <1>2 DEF PFWritten, PFWaits
<1> QED
  BY <1>1, <1>2, <1>4, <1>5 DEF PFHas

LEMMA PFStep == PFInv /\ MP!Next => PFInv'
<1> SUFFICES ASSUME PFInv, MP!Next, MP!Supported' PROVE \E c \in Good : PFHas(c)'
  BY DEF PFInv
<1>1. call' = call
  BY DEF MP!Next, MP!Literal, MP!Conversion, MP!BeforeDigits, MP!Overrun, MP!Puts, MP!Return, MP!PutString, MP!Copy
<1>2. PICK c \in Good : PFHas(c)
  BY <1>1 DEF PFInv, MP!Supported, MP!fmt
<1>3. PFTypes(c) /\ call = [printf |-> c] /\ DOMAIN call = {"printf"} /\ call.printf = c
  BY <1>2 DEF PFHas, PFTypes
<1>4. ~MP!PutString /\ ~MP!Copy
  BY <1>3 DEF MP!PutString, MP!Copy
<1>5. ~MP!Overrun
  <2> SUFFICES ASSUME traverse = Len(c.fmt), c.fmt[traverse] = "%" PROVE FALSE
    BY <1>3 DEF MP!Overrun, MP!fmt
  <2>0. c \in CallsOfPrintf /\ MP!TakesAll(c) /\ Len(c.fmt) \in Nat
    BY ConversionsAre DEF Good
  <2>1. traverse \in 1..Len(c.fmt)
    <3>1. traverse \in 1..Len(c.fmt) + 1
      BY <1>3, PFPlace
    <3> QED
      BY <2>0, <3>1
  <2>2. traverse \in MP!Conversions(c)
    BY <2>0, <2>1, ConversionsAre
  <2>3. traverse + 1 \in 1..Len(c.fmt)
    BY <2>0, <2>2, ConversionsApart
  <2> QED
    BY <2>0, <2>3
<1>7. ~MP!BeforeDigits
  <2> SUFFICES ASSUME traverse < Len(c.fmt), c.fmt[traverse] = "%", c.fmt[traverse + 1] = "p",
                      MP!LongLong(c.args[arg].num) < 0
               PROVE  FALSE
    BY <1>3 DEF MP!BeforeDigits, MP!Converts, MP!NoDigit, MP!fmt
  <2>1. PICK k : k = traverse
    OBVIOUS
  <2>2. k \in 1..Len(c.fmt)
    <3>1. Len(c.fmt) \in Nat /\ k \in 1..Len(c.fmt) + 1 /\ k < Len(c.fmt)
      BY <1>3, <2>1, PFPlace
    <3> QED
      BY <3>1
  <2>3. k \in MP!Conversions(c)
    BY <2>1, <2>2, ConversionsAre DEF Good
  <2>4. MP!HasDigits("p", MP!Argument(c, k))
    BY <2>1, <2>3 DEF Good
  <2>5. MP!LongLong(MP!Argument(c, k).num) >= 0
    BY <2>4 DEF MP!HasDigits
  <2>6. MP!Argument(c, k) = c.args[arg]
    <3>1. arg = PFBefore(c, k) + 1
      BY <1>3, <2>1 DEF PFTypes
    <3> QED
      BY <2>2, <2>3, <3>1, BeforeGrows
  <2>7. MP!LongLong(c.args[arg].num) \in Int
    <3>1. MP!Typed(c) /\ MP!TakesAll(c) /\ c.fmt[k + 1] = "p"
      BY <2>1, ArgumentsAreTyped DEF Good
    <3>2. MP!Argument(c, k).num \in Nat
      BY <2>3, <3>1 DEF MP!Typed
    <3>3. MP!Power(4)[Width] \in Nat \ {0}
      BY ArgumentsAreTyped, PowersAre
    <3> QED
      BY <2>6, <3>2, <3>3 DEF MP!LongLong
  <2> QED
    BY <2>5, <2>6, <2>7
<1>6. PFHas(c)'
  BY <1>2, <1>4, <1>5, <1>7, PFLiteral, PFConversion, PFPuts, PFReturn DEF MP!Next
<1> QED
  BY <1>6

LEMMA PFSafe == PFInv => MP!PrintsFormat /\ MP!OnlyStackFaults
<1> SUFFICES ASSUME PFInv, MP!Supported PROVE MP!PrintsFormat /\ MP!OnlyStackFaults
  BY DEF MP!PrintsFormat, MP!OnlyStackFaults
<1>1. PICK c \in Good : PFHas(c)
  BY DEF PFInv
<1> DEFINE U == MP!MeantUpTo(c)
           N == Len(c.fmt)
           E == U[N]
           said == U[traverse - 1]
<1>2. PFTypes(c) /\ call.printf = c /\ MP!fmt = c.fmt /\ MP!Expected = E
  BY <1>1 DEF PFHas, PFTypes, MP!fmt, MP!Expected
<1>3. N \in Nat /\ traverse \in 1..N + 1 /\ traverse - 1 \in 0..N /\ N \in 0..N /\ traverse - 1 <= N
  BY <1>2, PFPlace
<1>4. U \in [0..N -> Seq(Signs)]
  BY MeantUpToIs
<1>5. PICK r \in Seq(Signs) : E = said \o r
  BY <1>3, MeantGrows
<1>6. /\ out \in Seq(Signs) /\ text.text \in Seq(Signs) /\ len \in Nat
      /\ status \in {"runs", "returned", "exit 14"}
  BY <1>2 DEF PFTypes, PFText
<1>7. status # "exit 14" => PFWritten(said) /\ (~closed => PFWaits(c))
  BY <1>1 DEF PFHas
<1>8. status = "returned" => traverse = N + 1 /\ text.text = <<>> /\ returned = len
  BY <1>1 DEF PFHas
<1>9. status = "exit 14" => PFCut(c, said)
  BY <1>1 DEF PFHas
<1>20. (traverse = N + 1) => said = E
  BY <1>3
<1> HIDE DEF U
<1>10. said \in Seq(Signs) /\ E \in Seq(Signs)
  BY <1>3, <1>4
<1> HIDE DEF E, said
<1>11. \E q \in Seq(Signs) : E = out \o q /\ (status = "exit 14" => q # <<>>)
  <2>1. ASSUME NEW q \in Seq(Signs), said = out \o q
        PROVE  E = out \o (q \o r) /\ q \o r \in Seq(Signs) /\ (q # <<>> => q \o r # <<>>)
    <3>1. Len(q \o r) = Len(q) + Len(r) /\ q \o r \in Seq(Signs)
      BY SignsOf
    <3>2. E = out \o (q \o r)
      <4>1. (out \o q) \o r = out \o (q \o r)
        <5>1. out \in Seq(Signs)
          BY <1>6, Zenon
        <5> QED
          BY <5>1, SignsJoin, Zenon
      <4> QED
        BY <1>5, <2>1, <4>1
    <3> QED
      BY <3>1, <3>2
  <2>2. CASE status = "exit 14"
    <3>1. PICK q \in Seq(Signs) : q # <<>> /\ out \o q = said
      BY <1>9, <2>2 DEF PFCut
    <3> QED
      BY <2>1, <3>1
  <2>3. CASE status # "exit 14" /\ closed
    <3>1. out = <<>>
      BY <1>7, <2>3 DEF PFWritten
    <3>2. E = out \o E
      BY <1>10, <3>1, ConcatEmptySeq
    <3> QED
      BY <1>10, <2>3, <3>2
  <2>4. CASE status # "exit 14" /\ ~closed
    <3>1. said = out \o text.text
      BY <1>7, <2>4 DEF PFWritten
    <3> QED
      BY <1>6, <2>1, <2>4, <3>1
  <2> QED
    BY <2>2, <2>3, <2>4
<1>12. PICK q \in Seq(Signs) : E = out \o q /\ (status = "exit 14" => q # <<>>)
  BY <1>11
<1> HIDE DEF N
<1>13. MP!IsPrefix(out, E) /\ (status = "exit 14" => out # E)
  <2>1. out \in Seq(Signs)
    BY <1>6, Zenon
  <2>2. MP!IsPrefix(out, out \o q) /\ (q # <<>> => out # out \o q)
    BY <2>1, SignsPrefix, Zenon
  <2> QED
    BY <1>12, <2>2, Zenon
<1>14. status = "returned" => /\ returned = Len(E)
                             /\ out = IF closed THEN <<>> ELSE E
  <2> SUFFICES ASSUME status = "returned"
               PROVE  returned = Len(E) /\ out = IF closed THEN <<>> ELSE E
    OBVIOUS
  <2>1. said = E /\ text.text = <<>> /\ returned = len
    BY <1>8, <1>20
  <2>2. out \o <<>> = out /\ Len(<<>>) = 0
    BY <1>6, SignsOf
  <2> QED
    BY <1>6, <1>7, <2>1, <2>2 DEF PFWritten
<1>15. MP!PrintsFormat
  BY <1>2, <1>6, <1>13, <1>14 DEF MP!PrintsFormat
<1>16. MP!OnlyStackFaults
  <2>1. PFFaults(c) <=> \E k \in MP!Conversions(call.printf) : MP!OnStack(call.printf, k)
    BY <1>2 DEF PFFaults
  <2>2. status = "exit 14" => PFFaults(c)
    BY <1>9 DEF PFCut
  <2>3. ASSUME status = "returned", ~closed, PFFaults(c) PROVE FALSE
    <3>1. PICK k \in MP!Conversions(c) : MP!OnStack(c, k)
      BY <2>3 DEF PFFaults
    <3>2. k \in 1..N
      BY ConversionsAre DEF Good, N
    <3>3. k < traverse
      BY <1>3, <1>8, <2>3, <3>2 DEF N
    <3> QED
      BY <1>7, <1>8, <2>3, <3>1, <3>3 DEF PFWaits
  <2> QED
    BY <2>1, <2>2, <2>3 DEF MP!OnlyStackFaults
<1> QED
  BY <1>15, <1>16

-----------------------------------------------------------------------------
(* mydebug_fs.c. init fails, so that the module never lives; a file that   *)
(* is open was created.                                                    *)
DFFiles == [op : {"none", "open", "read", "write"}, position : Nat, end : Nat]

DFInv ==
  /\ ~u64int /\ module \in {"coming", "freed"}
  /\ file \in [User -> DFFiles]
  /\ \A u \in User : /\ file[u].position <= file[u].end /\ file[u].end <= BufferLen
                     /\ file[u].op # "none" => "text" \in entries
  /\ oops # {} => module = "freed" /\ "text" \in entries

LEMMA DFInit == DF!Init => DFInv
<1> SUFFICES ASSUME DF!Init PROVE DFInv
  OBVIOUS
<1>1. DF!Closed \in DFFiles
  BY DEF DF!Closed, DFFiles
<1> QED
  BY <1>1, CountsAreSizes DEF DF!Init, DFInv, DF!Closed

LEMMA DFIdle == DFInv /\ UNCHANGED debugVars => DFInv'
BY DEF DFInv, debugVars

(* A position in the buffer, moved on, stays in it. *)
LEMMA DFWithin ==
  ASSUME NEW p \in Nat, p <= BufferLen, NEW n \in Nat
  PROVE  LET q == DF!Within(p, n) IN q \in Nat /\ p <= q /\ q <= BufferLen
<1> DEFINE m == DF!Min({p + n, BufferLen})
<1>1. m \in Nat /\ p <= m /\ m <= BufferLen
  <2>1. \E y \in {p + n, BufferLen} : \A z \in {p + n, BufferLen} : y <= z
    BY CountsAreSizes
  <2>2. m \in {p + n, BufferLen} /\ \A z \in {p + n, BufferLen} : m <= z
    BY <2>1, Zenon DEF DF!Min
  <2> HIDE DEF m
  <2> QED
    BY <2>2, CountsAreSizes
<1> HIDE DEF m
<1>2. DF!Max({p, m}) = m
  <2>1. \E y \in {p, m} : \A z \in {p, m} : y >= z
    BY <1>1
  <2>2. \A y \in {p, m} : (\A z \in {p, m} : y >= z) => y = m
    BY <1>1
  <2> QED
    BY <2>1, <2>2 DEF DF!Max
<1> QED
  BY <1>1, <1>2 DEF DF!Within, m

LEMMA DFStep == DFInv /\ DF!Next => DFInv'
<1> SUFFICES ASSUME DFInv, DF!Next PROVE DFInv'
  OBVIOUS
<1>1. /\ ~u64int /\ module \in {"coming", "freed"} /\ file \in [User -> DFFiles]
      /\ \A u \in User : /\ file[u].position <= file[u].end /\ file[u].end <= BufferLen
                         /\ file[u].op # "none" => "text" \in entries
      /\ oops # {} => module = "freed" /\ "text" \in entries
  BY DEF DFInv
<1>2. CASE DF!CreateDir \/ DF!CreateFile \/ DF!CreateU64
  <2>1. entries \subseteq entries' /\ module' = module /\ u64int' = u64int /\ file' = file /\ oops' = oops
    BY <1>2 DEF DF!CreateDir, DF!CreateFile, DF!CreateU64, DF!Create
  <2> QED
    BY <1>1, <2>1 DEF DFInv
<1>3. CASE DF!Test
  BY <1>1, <1>3 DEF DF!Test, DF!Result, DFInv
<1>4. ASSUME NEW u \in User, DF!Open(u) \/ DF!Call(u) \/ DF!CopyByte(u) \/ DF!CallEnds(u)
      PROVE  DFInv'
  <2>1. module' = module /\ entries' = entries /\ u64int' = u64int
    BY <1>4 DEF DF!Open, DF!Call, DF!CopyByte, DF!CallEnds, DF!moduleVars
  <2>2. oops' # {} => module = "freed" /\ "text" \in entries
    BY <1>1, <1>4 DEF DF!Open, DF!Call, DF!CopyByte, DF!CallEnds, DF!moduleVars
  <2>3. file[u] \in DFFiles /\ file[u].position \in Nat /\ file[u].end \in Nat
    BY <1>1 DEF DFFiles
  <2>4. PICK f : /\ file' = file \/ file' = [file EXCEPT ![u] = f]
                 /\ f \in DFFiles /\ f.position <= f.end /\ f.end <= BufferLen
                 /\ f.op # "none" => "text" \in entries
    <3>1. CASE DF!Open(u)
      <4>1. DF!Idle(0) \in DFFiles /\ DF!Idle(0).position = 0 /\ DF!Idle(0).end = 0
        BY DEF DF!Idle, DFFiles
      <4>2. (file' = file \/ file' = [file EXCEPT ![u] = DF!Idle(0)]) /\ "text" \in entries
        BY <3>1 DEF DF!Open
      <4> QED
        BY <4>1, <4>2, CountsAreSizes
    <3>2. CASE DF!Call(u) /\ file' = file
      BY <1>1, <2>3, <3>2
    <3>3. CASE DF!Call(u) /\ file' # file
      <4>1. PICK op \in {"read", "write"}, n \in Counts :
              file' = [file EXCEPT ![u] = [op |-> op, position |-> @.position,
                                           end |-> DF!Within(@.position, n)]]
        BY <3>3 DEF DF!Call
      <4> DEFINE f == [op |-> op, position |-> file[u].position, end |-> DF!Within(file[u].position, n)]
      <4>2. file[u].position \in Nat /\ file[u].position <= BufferLen /\ n \in Nat
        BY <1>1, <2>3, CountsAreSizes
      <4>3. f.end \in Nat /\ f.position <= f.end /\ f.end <= BufferLen
        BY <4>2, DFWithin
      <4>4. "text" \in entries
        BY <1>1, <3>3 DEF DF!Call
      <4>5. f \in DFFiles
        BY <4>2, <4>3 DEF DFFiles
      <4>6. file' = [file EXCEPT ![u] = f]
        BY <4>1
      <4> QED
        BY <4>3, <4>4, <4>5, <4>6
    <3>4. CASE DF!CopyByte(u)
      <4> DEFINE f == [file[u] EXCEPT !.position = @ + 1]
      <4>1. file[u].position < file[u].end /\ file' = [file EXCEPT ![u].position = @ + 1]
            /\ file[u].op # "none"
        BY <3>4 DEF DF!CopyByte
      <4>2. f \in DFFiles /\ f.position = file[u].position + 1 /\ f.end = file[u].end /\ f.op = file[u].op
        BY <2>3 DEF DFFiles
      <4>3. file' = [file EXCEPT ![u] = f]
        BY <4>1
      <4>4. "text" \in entries /\ f.position <= f.end /\ f.end <= BufferLen
        BY <1>1, <2>3, <4>1, <4>2
      <4> HIDE DEF f
      <4> QED
        BY <4>2, <4>3, <4>4
    <3>5. CASE DF!CallEnds(u)
      <4> DEFINE f == DF!Idle(file[u].position)
      <4>1. f \in DFFiles /\ f.position = f.end /\ f.end = file[u].position
        BY <2>3 DEF DF!Idle, DFFiles
      <4>2. file' = [file EXCEPT ![u] = f] /\ file[u].op # "none"
        BY <3>5 DEF DF!CallEnds
      <4>3. file[u].position <= BufferLen
        BY <1>1, <2>3, CountsAreSizes
      <4>4. "text" \in entries /\ f.position <= f.end /\ f.end <= BufferLen
        BY <1>1, <2>3, <4>1, <4>2, <4>3
      <4> HIDE DEF f
      <4> QED
        BY <4>1, <4>2, <4>4
    <3> QED
      BY <1>4, <3>1, <3>2, <3>3, <3>4, <3>5
  <2>5. file' \in [User -> DFFiles]
    BY <1>1, <2>4
  <2>6. \A v \in User : file'[v] = file[v] \/ file'[v] = f
    BY <1>1, <2>4
  <2> QED
    BY <1>1, <2>1, <2>2, <2>4, <2>5, <2>6 DEF DFInv
<1> QED
  BY <1>2, <1>3, <1>4 DEF DF!Next, DF!InitDebug

LEMMA DFSafe == DFInv => DF!LeftBehind /\ DF!StaysInBuffer
BY DEF DFInv, DF!LeftBehind, DF!StaysInBuffer

-----------------------------------------------------------------------------
(* malloc_thread_safe, with threads: the lock is held from the read of the *)
(* list to its write, so the list that was read is the list.               *)
OnList(l, b) == \E k \in 1..Len(l) : l[k] = b
Whole(l, D) == /\ l \in Seq(1..Blocks) /\ D \subseteq 1..Blocks
               /\ \A i, j \in 1..Len(l) : l[i] = l[j] => i = j
               /\ \A b \in 1..Blocks : OnList(l, b) <=> b \notin D
Held == {x[c] : c \in ML!Context} \ {ML!NoBlock}
Looping == {"malloc", "take", "free", "put"}
Locked(c) == pc[c] \in {"take", "put"}

MLInv ==
  program = "pthread" =>
    /\ x \in [ML!Context -> 0..Blocks]
    /\ seen \in [ML!Context -> Seq(1..Blocks)]
    /\ result \in {"runs", "exit 1"}
    /\ \/ /\ pc = [c \in ML!Context |-> IF c = "parent" THEN "start" ELSE "unborn"]
          /\ lock = "free" /\ ~need_locks
       \/ /\ pc \in [ML!Context -> Looping]
          /\ need_locks
    /\ \A c \in ML!Context : /\ lock = c <=> Locked(c)
                             /\ Locked(c) => seen[c] = freeList
                             /\ pc[c] \notin {"free", "put"} => x[c] = ML!NoBlock
    /\ Whole(freeList, Held)
    /\ x["parent"] = x["child"] => x["parent"] = ML!NoBlock

LEMMA MLInit == ML!Init => MLInv
<1> SUFFICES ASSUME ML!Init, program = "pthread" PROVE MLInv
  BY DEF MLInv
<1>1. Held = {}
  BY DEF ML!Init, Held, ML!Context, ML!NoBlock
<1>2. freeList \in Seq(1..Blocks) /\ DOMAIN freeList = 1..Blocks /\ \A k \in 1..Blocks : freeList[k] = k
  <2>1. freeList = [k \in 1..Blocks |-> k]
    BY DEF ML!Init
  <2>2. freeList \in [1..Blocks -> 1..Blocks]
    BY <2>1
  <2> QED
    BY <2>1, <2>2, BlocksNat, SeqDef
<1>3. Whole(freeList, Held)
  <2>1. Len(freeList) = Blocks
    <3>1. 1..Len(freeList) = 1..Blocks /\ Len(freeList) \in Nat
      BY <1>2, LenProperties
    <3>2. Len(freeList) > 0 => Len(freeList) \in 1..Len(freeList)
      BY <3>1
    <3>3. Blocks > 0 => Blocks \in 1..Blocks
      BY BlocksNat
    <3> QED
      BY <3>1, <3>2, <3>3, BlocksNat
  <2> QED
    BY <1>1, <1>2, <2>1 DEF Whole, OnList
<1>4. seen \in [ML!Context -> Seq(1..Blocks)]
  <2>1. <<>> \in Seq(1..Blocks)
    OBVIOUS
  <2> QED
    BY <2>1 DEF ML!Init
<1> QED
  BY <1>3, <1>4, BlocksNat DEF MLInv, ML!Init, ML!Context, ML!NoBlock, Locked

(* Taking the first block off a list of blocks, and putting one back. *)
LEMMA WholeTail ==
  ASSUME NEW l, NEW D, Whole(l, D), l # <<>>
  PROVE  Whole(Tail(l), D \cup {Head(l)}) /\ Head(l) \in 1..Blocks /\ Head(l) \notin D
<1> DEFINE m == Tail(l)
<1>1. /\ l \in Seq(1..Blocks) /\ Len(l) \in Nat \ {0} /\ Head(l) = l[1]
      /\ \A k \in 1..Len(l) : l[k] \in 1..Blocks
  <2>1. l \in Seq(1..Blocks)
    BY DEF Whole
  <2>2. Len(l) \in Nat /\ Len(l) # 0
    BY <2>1, EmptySeq, LenProperties
  <2> QED
    <3>1. \A k \in 1..Len(l) : l[k] \in 1..Blocks
      BY <2>1, ElementOfSeq
    <3>2. Head(l) = l[1]
      BY <2>1, <2>2
    <3> QED
      BY <2>1, <2>2, <3>1, <3>2
<1>2. /\ m \in Seq(1..Blocks) /\ Len(m) = Len(l) - 1
      /\ \A k \in 1..(Len(l) - 1) : m[k] = l[k + 1]
  BY <1>1
<1> HIDE DEF m
<1>3. \A i, k \in 1..Len(l) : l[i] = l[k] => i = k
  BY DEF Whole
<1>4. \A k \in 1..(Len(l) - 1) : k + 1 \in 1..Len(l) /\ k + 1 # 1
  BY <1>1
<1>5. 1 \in 1..Len(l)
  BY <1>1
<1>6. l[1] \in 1..Blocks /\ OnList(l, l[1])
  BY <1>1, <1>5 DEF OnList
<1>7. l[1] \notin D
  BY <1>6 DEF Whole
<1>8. ASSUME NEW b \in 1..Blocks PROVE OnList(m, b) <=> OnList(l, b) /\ b # l[1]
  <2>1. ASSUME NEW k \in 1..Len(m), m[k] = b PROVE OnList(l, b) /\ b # l[1]
    <3>1. k \in 1..(Len(l) - 1)
      BY <1>2
    <3> QED
      BY <1>2, <1>3, <1>4, <1>5, <2>1, <3>1 DEF OnList
  <2>2. ASSUME NEW k \in 1..Len(l), l[k] = b, b # l[1] PROVE OnList(m, b)
    <3>1. k - 1 \in 1..Len(m) /\ k - 1 + 1 = k
      BY <1>1, <1>2, <2>2
    <3>2. m[k - 1] = l[k]
      BY <1>2, <3>1
    <3> QED
      BY <2>2, <3>1, <3>2 DEF OnList
  <2> QED
    BY <2>1, <2>2 DEF OnList
<1>9. \A i, k \in 1..Len(m) : m[i] = m[k] => i = k
  BY <1>1, <1>2, <1>3, <1>4
<1>10. Whole(m, D \cup {l[1]})
  BY <1>2, <1>6, <1>8, <1>9 DEF Whole
<1> QED
  BY <1>1, <1>6, <1>7, <1>10 DEF m

LEMMA WholePut ==
  ASSUME NEW l, NEW D, Whole(l, D), NEW b \in D
  PROVE  Whole(<<b>> \o l, D \ {b}) /\ \A k \in DOMAIN l : l[k] # b
<1> DEFINE m == <<b>> \o l
<1>1. /\ l \in Seq(1..Blocks) /\ Len(l) \in Nat /\ DOMAIN l = 1..Len(l)
      /\ b \in 1..Blocks /\ ~OnList(l, b)
  BY DEF Whole
<1>2. /\ m \in Seq(1..Blocks) /\ Len(m) = Len(l) + 1 /\ m[1] = b
      /\ \A k \in 1..Len(l) : m[k + 1] = l[k]
  BY <1>1
<1> HIDE DEF m
<1>3. \A i, k \in 1..Len(l) : l[i] = l[k] => i = k
  BY DEF Whole
<1>4. ASSUME NEW k \in 1..Len(m) PROVE k = 1 \/ (k - 1 \in 1..Len(l) /\ m[k] = l[k - 1])
  <2>1. k = 1 \/ (k - 1 \in 1..Len(l) /\ k - 1 + 1 = k)
    BY <1>1, <1>2
  <2> QED
    BY <1>2, <2>1
<1>5. \A k \in 1..Len(l) : k + 1 \in 1..Len(m)
  BY <1>1, <1>2
<1>6. 1 \in 1..Len(m)
  BY <1>1, <1>2
<1>7. ASSUME NEW a \in 1..Blocks PROVE OnList(m, a) <=> OnList(l, a) \/ a = b
  <2>1. ASSUME NEW k \in 1..Len(m), m[k] = a PROVE OnList(l, a) \/ a = b
    BY <1>2, <1>4, <2>1 DEF OnList
  <2>2. ASSUME NEW k \in 1..Len(l), l[k] = a PROVE OnList(m, a)
    <3>1. k + 1 \in 1..Len(m) /\ m[k + 1] = a
      BY <1>2, <1>5, <2>2
    <3> QED
      BY <3>1 DEF OnList
  <2>3. a = b => OnList(m, a)
    BY <1>2, <1>6 DEF OnList
  <2> QED
    BY <2>1, <2>2, <2>3 DEF OnList
<1>8. ASSUME NEW i \in 1..Len(m), NEW k \in 1..Len(m), m[i] = m[k] PROVE i = k
  <2>1. CASE i = 1 \/ k = 1
    BY <1>1, <1>2, <1>4, <1>8, <2>1 DEF OnList
  <2>2. CASE i # 1 /\ k # 1
    <3>1. i - 1 = k - 1
      BY <1>3, <1>4, <1>8, <2>2
    <3> QED
      BY <3>1
  <2> QED
    BY <2>1, <2>2
<1>9. Whole(m, D \ {b})
  BY <1>1, <1>2, <1>7, <1>8 DEF Whole
<1> QED
  BY <1>1, <1>9 DEF m, OnList

LEMMA MLIdle == MLInv /\ UNCHANGED mallocVars => MLInv'
<1> SUFFICES ASSUME MLInv, UNCHANGED mallocVars PROVE MLInv'
  OBVIOUS
<1>1. /\ program' = program /\ result' = result /\ pc' = pc /\ x' = x /\ need_locks' = need_locks
      /\ lock' = lock /\ freeList' = freeList /\ seen' = seen
  BY DEF mallocVars
<1>2. Held' = Held /\ \A c \in ML!Context : Locked(c)' = Locked(c)
  BY <1>1 DEF Held, Locked
<1> QED
  BY <1>1, <1>2 DEF MLInv

LEMMA MLStep == MLInv /\ ML!Next => MLInv'
<1> SUFFICES ASSUME MLInv, ML!Next, program = "pthread" PROVE MLInv'
  <2>1. ASSUME ML!Next PROVE program' = program
    <3>1. CASE ML!Spawn \/ ML!SpawnFails
      BY <3>1 DEF ML!Spawn, ML!SpawnFails
    <3>2. ASSUME NEW c \in ML!Context, ML!Loop(c) PROVE program' = program
      BY <3>2 DEF ML!Loop, ML!Malloc, ML!Take, ML!Free, ML!Put, ML!Read, ML!Write
    <3> QED
      BY <2>1, <3>1, <3>2 DEF ML!Next
  <2> QED
    BY <2>1 DEF MLInv
<1> USE BlocksNat
<1>1. /\ x \in [ML!Context -> 0..Blocks] /\ seen \in [ML!Context -> Seq(1..Blocks)]
      /\ result \in {"runs", "exit 1"} /\ Whole(freeList, Held)
      /\ \A c \in ML!Context : /\ lock = c <=> Locked(c)
                               /\ Locked(c) => seen[c] = freeList
                               /\ pc[c] \notin {"free", "put"} => x[c] = ML!NoBlock
      /\ x["parent"] = x["child"] => x["parent"] = ML!NoBlock
  BY DEF MLInv
<1>2. \/ /\ pc = [c \in ML!Context |-> IF c = "parent" THEN "start" ELSE "unborn"]
         /\ lock = "free" /\ ~need_locks
      \/ /\ pc \in [ML!Context -> Looping]
         /\ need_locks
  BY DEF MLInv
<1>6. x \in [ML!Context -> 0..Blocks]
  BY <1>1
<1>3. freeList \in Seq(1..Blocks)
  BY <1>1 DEF Whole
<1>4. CASE ML!Spawn \/ ML!SpawnFails
  <2>1. x' = x /\ seen' = seen /\ freeList' = freeList /\ lock' = lock /\ program' = program
        /\ result' \in {"runs", "exit 1"}
    BY <1>4, <1>1 DEF ML!Spawn, ML!SpawnFails
  <2>2. pc = [c \in ML!Context |-> IF c = "parent" THEN "start" ELSE "unborn"] /\ lock = "free"
    <3>1. "parent" \in ML!Context
      BY DEF ML!Context
    <3> QED
      BY <1>2, <1>4, <3>1 DEF ML!Spawn, ML!SpawnFails, Looping
  <2>3. Held' = Held
    BY <2>1 DEF Held
  <2>4. \A c \in ML!Context : ~Locked(c)' /\ ~Locked(c)
    BY <1>4, <2>2 DEF ML!Spawn, ML!SpawnFails, Locked, ML!Context
  <2>5. \A c \in ML!Context : x[c] = ML!NoBlock
    BY <1>1, <2>2
  <2>6. \/ pc' = pc /\ ~need_locks'
        \/ pc' \in [ML!Context -> Looping] /\ need_locks'
    BY <1>2, <1>4, <2>2, <1>1 DEF ML!Spawn, ML!SpawnFails, Looping, MLInv
  <2> QED
    BY <1>1, <2>1, <2>2, <2>3, <2>4, <2>5, <2>6 DEF MLInv
<1>5. ASSUME NEW c \in ML!Context, ML!Loop(c) PROVE MLInv'
  <2>1. /\ pc \in [ML!Context -> Looping] /\ need_locks /\ need_locks' = need_locks
        /\ program' = program /\ result = "runs"
    <3>1. pc[c] \in Looping
      BY <1>5 DEF ML!Loop, ML!Malloc, ML!Take, ML!Free, ML!Put, ML!Read, ML!Write, Looping
    <3>2. pc \in [ML!Context -> Looping] /\ need_locks
      BY <1>2, <3>1 DEF Looping, ML!Context
    <3> QED
      BY <1>5, <3>2 DEF ML!Loop, ML!Malloc, ML!Take, ML!Free, ML!Put, ML!Read, ML!Write
  <2>2. CASE ML!Malloc(c) \/ ML!Free(c)
    <3>1. /\ x' = x /\ freeList' = freeList /\ result' = result
          /\ lock = "free" /\ lock' = c /\ seen' = [seen EXCEPT ![c] = freeList]
          /\ \/ pc[c] = "malloc" /\ pc' = [pc EXCEPT ![c] = "take"]
             \/ pc[c] = "free" /\ pc' = [pc EXCEPT ![c] = "put"]
      BY <2>1, <2>2 DEF ML!Malloc, ML!Free, ML!Read
    <3>2. Held' = Held
      BY <3>1 DEF Held
    <3>3. \A d \in ML!Context : ~Locked(d) /\ (Locked(d)' <=> d = c)
      BY <1>1, <2>1, <3>1 DEF Locked, ML!Context, Looping
    <3>4. \A d \in ML!Context : pc'[d] \notin {"free", "put"} => pc[d] \notin {"free", "put"}
      BY <2>1, <3>1 DEF Looping
    <3>5. pc' \in [ML!Context -> Looping] /\ seen' \in [ML!Context -> Seq(1..Blocks)] /\ seen'[c] = freeList
      BY <1>1, <1>3, <2>1, <3>1 DEF Looping
    <3> QED
      BY <1>1, <2>1, <3>1, <3>2, <3>3, <3>4, <3>5 DEF MLInv
  <2>3. CASE ML!Take(c) \/ ML!Put(c)
    <3>1. PICK d \in ML!Context : d # c /\ \A e \in ML!Context : e \in {c, d}
      BY DEF ML!Context
    <3>2. /\ pc[c] \in {"take", "put"} /\ lock = c /\ lock' = "free"
          /\ pc' = [pc EXCEPT ![c] = IF pc[c] = "take" THEN "free" ELSE "malloc"]
          /\ seen' = [seen EXCEPT ![c] = <<>>] /\ seen[c] = freeList
      BY <1>1, <2>3 DEF ML!Take, ML!Put, ML!Write, Locked
    <3>3. /\ pc' \in [ML!Context -> Looping]
          /\ seen' \in [ML!Context -> Seq(1..Blocks)]
      <4>1. <<>> \in Seq(1..Blocks)
        OBVIOUS
      <4> QED
        BY <1>1, <2>1, <3>2, <4>1 DEF Looping
    <3>4. \A e \in ML!Context : ~Locked(e)' /\ lock' # e
      BY <1>1, <2>1, <3>1, <3>2 DEF Locked, ML!Context
    <3>5. pc'[d] = pc[d] /\ (pc'[c] \notin {"free", "put"} => pc[c] = "put") 
      BY <2>1, <3>1, <3>2
    <3>6. Held = {x[c], x[d]} \ {0} /\ Held' = {x'[c], x'[d]} \ {0} /\ x[c] \in 0..Blocks /\ x[d] \in 0..Blocks
      BY <1>1, <3>1 DEF Held, ML!NoBlock
    <3>7. x[c] = x[d] => x[c] = 0
      BY <1>1, <3>1 DEF ML!Context, ML!NoBlock
    <3>8. /\ Whole(freeList', Held') /\ x' \in [ML!Context -> 0..Blocks] /\ x'[d] = x[d]
          /\ x'[c] = x'[d] => x'[c] = 0
          /\ result' = "runs"
          /\ pc[c] = "put" => x'[c] = 0
      <4>1. CASE ML!Take(c) /\ freeList = <<>>
        <5>1. x' = x /\ result' = result /\ freeList' = freeList /\ pc[c] = "take"
          BY <3>2, <4>1 DEF ML!Take, ML!Write
        <5> QED
          BY <1>1, <2>1, <3>6, <3>7, <5>1
      <4>2. CASE ML!Take(c) /\ freeList # <<>>
        <5>1. /\ x' = [x EXCEPT ![c] = Head(freeList)] /\ result' = result
              /\ freeList' = Tail(freeList) /\ pc[c] = "take"
          BY <3>2, <4>2 DEF ML!Take, ML!Write
        <5>2. Whole(Tail(freeList), Held \cup {Head(freeList)}) /\ Head(freeList) \in 1..Blocks /\ Head(freeList) \notin Held
          BY <1>1, <4>2, WholeTail
        <5>3. x[c] = 0
          BY <1>1, <5>1 DEF ML!NoBlock
        <5>4. x'[c] = Head(freeList) /\ x'[d] = x[d] /\ x' \in [ML!Context -> 0..Blocks]
          BY <1>6, <3>1, <5>1, <5>2
        <5>5. Held' = Held \cup {Head(freeList)}
          BY <3>6, <5>2, <5>3, <5>4
        <5> QED
          BY <2>1, <3>6, <5>1, <5>2, <5>4, <5>5
      <4>3. CASE ML!Put(c) /\ x[c] = 0
        <5>1. x' = [x EXCEPT ![c] = 0] /\ result' = result /\ freeList' = freeList /\ pc[c] = "put"
          BY <3>2, <4>3 DEF ML!Put, ML!Write, ML!NoBlock
        <5>2. x' = x
          BY <1>1, <4>3, <5>1
        <5> QED
          BY <1>1, <2>1, <3>6, <3>7, <5>1, <5>2, <4>3
      <4>4. CASE ML!Put(c) /\ x[c] # 0
        <5>1. x[c] \in Held
          BY <3>6, <4>4
        <5>2. Whole(<<x[c]>> \o freeList, Held \ {x[c]}) /\ \A k \in DOMAIN freeList : freeList[k] # x[c]
          BY <1>1, <5>1, WholePut
        <5>3. /\ x' = [x EXCEPT ![c] = 0] /\ pc[c] = "put" /\ freeList' = <<x[c]>> \o freeList
              /\ result' = IF \E k \in DOMAIN freeList : freeList[k] = x[c] THEN "crash" ELSE "runs"
          BY <3>2, <4>4 DEF ML!Put, ML!Write, ML!NoBlock
        <5>4. x'[c] = 0 /\ x'[d] = x[d] /\ x' \in [ML!Context -> 0..Blocks]
          BY <1>6, <3>1, <5>3
        <5>5. Held' = Held \ {x[c]}
          BY <3>6, <3>7, <4>4, <5>4
        <5> QED
          BY <5>2, <5>3, <5>4, <5>5, <3>6
      <4> QED
        BY <2>3, <4>1, <4>2, <4>3, <4>4
    <3>9. x'["parent"] = x'["child"] => x'["parent"] = ML!NoBlock
      BY <3>1, <3>8 DEF ML!NoBlock, ML!Context
    <3>10. \A e \in ML!Context : pc'[e] \notin {"free", "put"} => x'[e] = ML!NoBlock
      BY <1>1, <3>1, <3>5, <3>8 DEF ML!NoBlock
    <3> QED
      BY <2>1, <3>3, <3>4, <3>8, <3>9, <3>10 DEF MLInv
  <2> QED
    BY <1>5, <2>2, <2>3 DEF ML!Loop
<1> QED
  BY <1>4, <1>5 DEF ML!Next

LEMMA MLSafe == MLInv => ML!SafeForThreads
<1> SUFFICES ASSUME MLInv, program = "pthread" PROVE ML!SafeForThreads
  BY DEF ML!SafeForThreads
<1>1. /\ Whole(freeList, Held) /\ result # "crash"
      /\ x["parent"] = x["child"] => x["parent"] = ML!NoBlock
  BY DEF MLInv
<1>2. freeList \in Seq(1..Blocks) /\ DOMAIN freeList = 1..Len(freeList)
      /\ \A k \in 1..Len(freeList) : freeList[k] \in 1..Blocks
  <2>1. freeList \in Seq(1..Blocks)
    BY <1>1 DEF Whole
  <2> QED
    BY <2>1, LenProperties, ElementOfSeq
<1>3. \A b \in 1..Blocks : b \in {freeList[k] : k \in DOMAIN freeList} <=> b \notin Held
  BY <1>1, <1>2 DEF Whole, OnList
<1>4. {freeList[k] : k \in DOMAIN freeList} \subseteq 1..Blocks /\ Held \subseteq 1..Blocks
  BY <1>1, <1>2 DEF Whole
<1> QED
  BY <1>1, <1>3, <1>4 DEF ML!SafeForThreads, Held

-----------------------------------------------------------------------------
(* proc-self-maps. What was printed is what lies below the place to which  *)
(* the file was read, and of what was there when it was opened, all.       *)
Unread == {"create1", "create2", "open", "lock"}

SMInv ==
  /\ maps \subseteq Address /\ readTo \in Nat
  /\ thread \in [SM!Threads -> {"unborn", "mmap", "print", "sleep", "done"}]
  /\ mapper \in Unread => readTo = 0
  /\ mapper \notin {"create1", "create2", "open"} => atOpen \subseteq maps
  /\ mapper \in {"create1", "create2", "open"} => atOpen = {}
  /\ lines \in Seq(Nat)
  /\ \A k \in 1..Len(lines) : lines[k] \in maps /\ lines[k] <= readTo
                              /\ (k > 1 => lines[k - 1] < lines[k])
  /\ \A a \in atOpen : a <= readTo => \E k \in 1..Len(lines) : lines[k] = a
  /\ mapper \in {"join1", "join2", "exited"} => \A a \in atOpen : a <= readTo
  /\ mapper \in {"join2", "exited"} => thread["thread1"] = "done"
  /\ mapper = "exited" => thread["thread2"] = "done"

LEMMA SMInit == SM!Init => SMInv
<1> SUFFICES ASSUME SM!Init PROVE SMInv
  OBVIOUS
<1>1. lines \in Seq(Nat) /\ Len(lines) = 0
  BY EmptySeq DEF SM!Init
<1> QED
  BY <1>1, AddressesPositive DEF SM!Init, SMInv, Unread

LEMMA SMIdle == SMInv /\ UNCHANGED mapsVars => SMInv'
<1> SUFFICES ASSUME SMInv, UNCHANGED mapsVars PROVE SMInv'
  OBVIOUS
<1>1. /\ mapper' = mapper /\ thread' = thread /\ maps' = maps /\ atOpen' = atOpen
      /\ readTo' = readTo /\ lines' = lines
  BY DEF mapsVars
<1> QED
  BY <1>1 DEF SMInv

LEMMA SMStep == SMInv /\ SM!Next => SMInv'
<1> SUFFICES ASSUME SMInv, SM!Next PROVE SMInv'
  OBVIOUS
<1>1. SM!Threads = {"thread1", "thread2"} /\ thread \in [SM!Threads -> {"unborn", "mmap", "print", "sleep", "done"}]
      /\ maps \subseteq Address /\ Address \subseteq Nat \ {0} /\ readTo \in Nat /\ lines \in Seq(Nat)
  BY AddressesPositive DEF SMInv, SM!Threads
<1>2. CASE SM!Create("thread1", "create1", "create2") \/ SM!Create("thread2", "create2", "open")
  <2>1. /\ mapper \in Unread /\ mapper' \in Unread \ {"lock"} /\ mapper # "lock"
        /\ maps' = maps /\ readTo' = readTo /\ atOpen' = atOpen /\ lines' = lines
        /\ thread' \in [SM!Threads -> {"unborn", "mmap", "print", "sleep", "done"}]
    BY <1>1, <1>2 DEF SM!Create, SM!Go, Unread
  <2> QED
    BY <2>1 DEF SMInv, Unread
<1>3. CASE SM!Open
  <2>1. /\ mapper = "open"
        /\ \/ mapper' = "lock" /\ atOpen' = maps
           \/ mapper' = "lock, no file" /\ atOpen' = atOpen
        /\ maps' = maps /\ readTo' = readTo /\ thread' = thread /\ lines' = lines
    BY <1>3 DEF SM!Open, SM!Go
  <2>2. readTo = 0 /\ atOpen = {}
    BY <2>1 DEF SMInv, Unread
  <2>5. \A a \in maps : ~(a <= 0)
    BY <1>1
  <2>3. CASE mapper' = "lock" /\ atOpen' = maps
    BY <1>1, <2>1, <2>2, <2>3, <2>5 DEF SMInv, Unread
  <2>4. CASE mapper' = "lock, no file" /\ atOpen' = atOpen
    BY <1>1, <2>1, <2>2, <2>4 DEF SMInv, Unread
  <2> QED
    BY <2>1, <2>3, <2>4
<1>4. CASE SM!Lock
  <2>1. /\ \/ mapper = "lock" /\ mapper' = "read"
           \/ mapper = "lock, no file" /\ mapper' = "undefined"
        /\ atOpen' = atOpen /\ maps' = maps /\ readTo' = readTo /\ thread' = thread /\ lines' = lines
    BY <1>4 DEF SM!Lock, SM!Go
  <2> QED
    BY <1>1, <2>1 DEF SMInv, Unread
<1>5. CASE SM!Read
  <2> DEFINE First(b) == b \in maps /\ b > readTo /\ \A c \in maps : c > readTo => b <= c
  <2>1. \E b : First(b)
    <3>1. {b \in maps : b > readTo} \in SUBSET Nat /\ {b \in maps : b > readTo} # {}
      BY <1>1, <1>5 DEF SM!Read
    <3> QED
      BY <3>1, Smallest
  <2>2. PICK a : First(a) /\ readTo' = a /\ lines' = Append(lines, a)
    <3> DEFINE b == CHOOSE b \in maps : b > readTo /\ \A c \in maps : c > readTo => b <= c
    <3>1. b \in maps /\ b > readTo /\ \A c \in maps : c > readTo => b <= c
      BY <2>1
    <3>2. readTo' = b /\ lines' = Append(lines, b)
      BY <1>5 DEF SM!Read
    <3> QED
      BY <3>1, <3>2
  <2>3. mapper = "read" /\ mapper' = mapper /\ thread' = thread /\ maps' = maps /\ atOpen' = atOpen
    BY <1>5 DEF SM!Read
  <2>4. a \in Nat /\ readTo < a /\ a \in maps /\ \A c \in maps : c <= a => c <= readTo \/ c = a
    <3>1. a \in Nat /\ readTo < a /\ a \in maps
      BY <1>1, <2>2
    <3>2. \A c \in maps : c \in Nat /\ (c > readTo => a <= c)
      BY <1>1, <2>2
    <3> QED
      BY <1>1, <3>1, <3>2
  <2>5. /\ lines' \in Seq(Nat) /\ Len(lines') = Len(lines) + 1 /\ Len(lines) \in Nat
        /\ lines'[Len(lines) + 1] = a /\ \A k \in 1..Len(lines) : lines'[k] = lines[k]
    BY <1>1, <2>2, <2>4
  <2>6. \A k \in 1..Len(lines') : k \in 1..Len(lines) \/ k = Len(lines) + 1
    BY <2>5
  <2>7. \A k \in 1..Len(lines) : lines[k] \in Nat /\ lines[k] \in maps /\ lines[k] <= readTo
                                 /\ (k > 1 => lines[k - 1] < lines[k])
    BY <1>1 DEF SMInv
  <2>8. \A k \in 1..Len(lines') : lines'[k] \in maps' /\ lines'[k] <= readTo'
                                  /\ (k > 1 => lines'[k - 1] < lines'[k])
    <3>1. CASE Len(lines) = 0
      BY <2>2, <2>3, <2>4, <2>5, <3>1
    <3>2. CASE Len(lines) # 0
      <4>1. \A k \in 1..Len(lines') : k > 1 => k - 1 \in 1..Len(lines)
        BY <2>5
      <4> SUFFICES ASSUME NEW k \in 1..Len(lines')
                   PROVE  lines'[k] \in maps' /\ lines'[k] <= readTo' /\ (k > 1 => lines'[k - 1] < lines'[k])
        OBVIOUS
      <4>2. CASE k \in 1..Len(lines)
        BY <1>1, <2>2, <2>3, <2>4, <2>5, <2>7, <4>1, <4>2
      <4>3. CASE k = Len(lines) + 1
        <5>1. lines'[k] = a /\ lines'[k - 1] = lines[k - 1] /\ lines[k - 1] <= readTo /\ lines[k - 1] \in Nat
          BY <2>5, <2>7, <4>1, <4>3, <3>2
        <5> QED
          BY <1>1, <2>2, <2>3, <2>4, <5>1
      <4> QED
        BY <2>6, <4>2, <4>3
    <3> QED
      BY <3>1, <3>2
  <2>9. \A b \in atOpen' : b <= readTo' => \E k \in 1..Len(lines') : lines'[k] = b
    <3> SUFFICES ASSUME NEW b \in atOpen, b <= a PROVE \E k \in 1..Len(lines') : lines'[k] = b
      BY <2>2, <2>3
    <3>1. b \in maps
      BY <2>3 DEF SMInv
    <3>2. CASE b = a
      <4>1. Len(lines) + 1 \in 1..Len(lines')
        BY <2>5
      <4> QED
        BY <2>5, <3>2, <4>1
    <3>3. CASE b <= readTo
      <4>1. PICK k \in 1..Len(lines) : lines[k] = b
        BY <3>3 DEF SMInv
      <4>2. k \in 1..Len(lines')
        BY <2>5
      <4> QED
        BY <2>5, <4>1, <4>2
    <3> QED
      BY <2>4, <3>1, <3>2, <3>3
  <2>10. atOpen' \subseteq maps' /\ readTo' \in Nat
    BY <2>2, <2>3, <2>4 DEF SMInv
  <2> QED
    BY <1>1, <2>3, <2>5, <2>8, <2>9, <2>10 DEF SMInv, Unread
<1>6. CASE SM!Unlock
  <2>1. /\ mapper = "read" /\ mapper' = "join1" /\ atOpen' = atOpen
        /\ maps' = maps /\ readTo' = readTo /\ thread' = thread /\ lines' = lines
        /\ \A a \in maps : a <= readTo
    BY <1>6 DEF SM!Unlock, SM!Go
  <2> QED
    BY <1>1, <2>1 DEF SMInv, Unread
<1>7. CASE SM!Join("thread1", "join1", "join2") \/ SM!Join("thread2", "join2", "exited")
  <2>1. /\ atOpen' = atOpen /\ maps' = maps /\ readTo' = readTo /\ thread' = thread /\ lines' = lines
        /\ \/ mapper = "join1" /\ (mapper' = "undefined" \/ (mapper' = "join2" /\ thread["thread1"] = "done"))
           \/ mapper = "join2" /\ (mapper' = "undefined" \/ (mapper' = "exited" /\ thread["thread2"] = "done"))
    BY <1>7 DEF SM!Join, SM!Go
  <2> QED
    BY <1>1, <2>1 DEF SMInv, Unread
<1>8. ASSUME NEW m \in SM!Threads, SM!Mmap(m) PROVE SMInv'
  <2>1. PICK a \in (Address \ maps) \cup {0} : maps' = maps \cup ({a} \ {0})
    BY <1>8 DEF SM!Mmap
  <2>2. /\ mapper' = mapper /\ atOpen' = atOpen /\ readTo' = readTo /\ lines' = lines
        /\ thread[m] = "mmap" /\ thread' = [thread EXCEPT ![m] = "print"]
    BY <1>8 DEF SM!Mmap
  <2>3. thread' \in [SM!Threads -> {"unborn", "mmap", "print", "sleep", "done"}]
        /\ \A n \in SM!Threads : thread[n] = "done" => thread'[n] = "done"
    BY <1>1, <2>2
  <2>4. maps' \subseteq Address /\ maps \subseteq maps'
    BY <1>1, <2>1
  <2> QED
    BY <1>1, <2>2, <2>3, <2>4 DEF SMInv
<1>9. ASSUME NEW m \in SM!Threads, SM!Message(m) \/ SM!Wake(m) PROVE SMInv'
  <2>1. /\ mapper' = mapper /\ atOpen' = atOpen /\ readTo' = readTo /\ lines' = lines /\ maps' = maps
        /\ thread[m] \in {"print", "sleep"}
        /\ \/ thread' = [thread EXCEPT ![m] = "sleep"]
           \/ thread' = [thread EXCEPT ![m] = "done"]
    BY <1>9 DEF SM!Message, SM!Wake, SM!Step
  <2>2. thread' \in [SM!Threads -> {"unborn", "mmap", "print", "sleep", "done"}]
        /\ \A n \in SM!Threads : thread[n] = "done" => thread'[n] = "done"
    BY <1>1, <2>1
  <2> QED
    BY <1>1, <2>1, <2>2 DEF SMInv
<1> QED
  BY <1>2, <1>3, <1>4, <1>5, <1>6, <1>7, <1>8, <1>9 DEF SM!Next, SM!Main, SM!Thread

LEMMA SMSafe == SMInv => SM!PrintsMappings /\ SM!WaitsForThreads
<1> SUFFICES ASSUME SMInv PROVE SM!PrintsMappings /\ SM!WaitsForThreads
  OBVIOUS
<1>1. DOMAIN lines = 1..Len(lines)
  BY LenProperties DEF SMInv
<1> QED
  BY <1>1 DEF SMInv, SM!PrintsMappings, SM!WaitsForThreads, SM!Threads

-----------------------------------------------------------------------------
(* snake.c. Rows and columns of the board. *)
LEMMA SNSizes ==
  /\ W \in Nat /\ W >= 4 /\ H \in Nat /\ H >= 4
  /\ SN!MSIZE \in Nat /\ SN!MSIZE = W * H
  /\ W <= SN!MSIZE - 3 * W
  /\ 2 * W + 2 * (H - 2) <= SN!MSIZE
<1>1. W \in Nat /\ W >= 4 /\ H \in Nat /\ H >= 4
  BY EvenBoard
<1>2. W * H = W * (H - 4) + 4 * W /\ W * (H - 4) >= 0
  BY <1>1
<1>3. W * H = (W - 2) * (H - 2) + 2 * W + 2 * (H - 2) /\ (W - 2) * (H - 2) >= 0
  BY <1>1
<1> QED
  BY <1>1, <1>2, <1>3 DEF SN!MSIZE

LEMMA SNRowColumn ==
  ASSUME NEW c \in SN!Cells
  PROVE  \E m \in 0..H - 1, r \in 0..W - 1 : c = m * W + r
<1> DEFINE m == c \div W
           r == c % W
<1>1. W \in Nat /\ W >= 4 /\ H \in Nat /\ H >= 4 /\ c \in Nat /\ c < W * H
  BY SNSizes DEF SN!Cells
<1>2. m \in Nat /\ r \in 0..W - 1 /\ c = m * W + r
  BY <1>1
<1>3. m <= H - 1
  <2>1. SUFFICES ASSUME m >= H PROVE FALSE
    BY <1>1, <1>2
  <2>2. m * W >= H * W
    BY <1>1, <1>2, <2>1
  <2> QED
    BY <1>1, <1>2, <2>2
<1> QED
  BY <1>2, <1>3

LEMMA SNMod ==
  ASSUME NEW m \in Nat, NEW r \in 0..W - 1
  PROVE  (m * W + r) % W = r
<1>1. W \in Nat /\ W >= 4
  BY SNSizes
<1> DEFINE c == m * W + r
           d == c \div W
<1>2. c \in Nat /\ d \in Nat /\ c = d * W + (c % W) /\ c % W \in 0..W - 1
  BY <1>1
<1>3. d = m
  <2>1. ASSUME d >= m + 1 PROVE FALSE
    <3>1. d * W >= m * W + W
      BY <1>1, <1>2, <2>1
    <3> QED
      BY <1>1, <1>2, <3>1
  <2>2. ASSUME m >= d + 1 PROVE FALSE
    <3>1. m * W >= d * W + W
      BY <1>1, <1>2, <2>2
    <3> QED
      BY <1>1, <1>2, <3>1
  <2> QED
    BY <1>2, <2>1, <2>2
<1> QED
  BY <1>1, <1>2, <1>3

LEMMA SNWalls ==
  ASSUME NEW m \in 0..H - 1, NEW r \in 0..W - 1
  PROVE  /\ m * W + r \in SN!Cells
         /\ m * W + r \in SN!Walls <=> m = 0 \/ m = H - 1 \/ r = 0 \/ r = W - 1
<1>1. /\ W \in Nat /\ W >= 4 /\ H \in Nat /\ H >= 4
      /\ SN!MSIZE \in Nat /\ SN!MSIZE = W * H
  BY SNSizes
<1> DEFINE c == m * W + r
<1>2. m * W \in Nat /\ c \in Nat /\ (H - 1) * W = SN!MSIZE - W
  BY <1>1
<1>3. m <= H - 2 => m * W + W <= (H - 1) * W
  <2>1. m <= H - 2 => (H - 2 - m) * W >= 0 /\ (H - 2 - m) * W = (H - 1) * W - m * W - W
    BY <1>1
  <2> QED
    BY <1>1, <1>2, <2>1
<1>4. c \in SN!Cells
  BY <1>1, <1>2, <1>3 DEF SN!Cells
<1>5. m >= 1 => m * W >= W
  <2>1. m >= 1 => (m - 1) * W >= 0 /\ (m - 1) * W = m * W - W
    BY <1>1
  <2> QED
    BY <1>1, <1>2, <2>1
<1>6. c < W <=> m = 0
  BY <1>1, <1>2, <1>5
<1>7. c >= SN!MSIZE - W <=> m = H - 1
  BY <1>1, <1>2, <1>3
<1>8. c % W = r
  BY SNMod, <1>1
<1> HIDE DEF c
<1>9. c \in SN!Walls <=> m = 0 \/ m = H - 1 \/ r = 0 \/ r = W - 1
  BY <1>1, <1>4, <1>6, <1>7, <1>8 DEF SN!Walls
<1> QED
  BY <1>4, <1>9 DEF c

(* The loop of line 15, and where it is after n rounds. *)
SNRound(x_) == IF x_[1] = SN!MSIZE THEN x_
               ELSE <<x_[1] + x_[2], SN!Jump(x_[1] + x_[2], x_[2])>>
SNSides == W + 2 * (H - 2)
SNAfter(n) ==
  IF n < W THEN <<n, 1>>
  ELSE IF n < SNSides THEN
         IF (n - W) % 2 = 0 THEN <<((n - W) \div 2) * W + W, W - 1>>
         ELSE <<((n - W) \div 2) * W + 2 * W - 1, 1>>
  ELSE IF n <= SNSides + W THEN <<SN!MSIZE - SNSides - W + n, 1>>
  ELSE <<SN!MSIZE, 1>>

LEMMA SNSide ==
  ASSUME NEW m \in 0..H - 3
  PROVE  /\ SNAfter(W + 2 * m) = <<m * W + W, W - 1>>
         /\ SNAfter(W + 2 * m + 1) = <<m * W + 2 * W - 1, 1>>
         /\ m * W \in Nat
         /\ m < H - 3 => m * W + 2 * W < SN!MSIZE - W /\ (m + 1) * W = m * W + W
         /\ m = H - 3 => m * W + 2 * W = SN!MSIZE - W
<1>1. W \in Nat /\ W >= 4 /\ H \in Nat /\ H >= 4 /\ SN!MSIZE = W * H
  BY SNSizes
<1>2. /\ (2 * m) % 2 = 0 /\ (2 * m) \div 2 = m
      /\ (2 * m + 1) % 2 = 1 /\ (2 * m + 1) \div 2 = m
  OBVIOUS
<1>3. /\ W + 2 * m >= W /\ W + 2 * m + 1 < SNSides
      /\ (W + 2 * m) - W = 2 * m /\ (W + 2 * m + 1) - W = 2 * m + 1
  BY <1>1 DEF SNSides
<1>4. /\ SNAfter(W + 2 * m) = <<m * W + W, W - 1>>
      /\ SNAfter(W + 2 * m + 1) = <<m * W + 2 * W - 1, 1>>
  <2>1. ASSUME NEW n \in Nat, n >= W, n < SNSides
        PROVE  SNAfter(n) = IF (n - W) % 2 = 0 THEN <<((n - W) \div 2) * W + W, W - 1>>
                            ELSE <<((n - W) \div 2) * W + 2 * W - 1, 1>>
    BY <1>1, <2>1 DEF SNAfter
  <2>2. W + 2 * m \in Nat /\ W + 2 * m + 1 \in Nat /\ W + 2 * m < SNSides /\ W + 2 * m + 1 >= W
    BY <1>1, <1>3 DEF SNSides
  <2>3. SNAfter(W + 2 * m) = <<m * W + W, W - 1>>
    BY ONLY <1>2, <1>3, <2>1, <2>2, Zenon
  <2>4. SNAfter(W + 2 * m + 1) = <<m * W + 2 * W - 1, 1>>
    <3>1. 1 # 0
      OBVIOUS
    <3> QED
      BY ONLY <1>2, <1>3, <2>1, <2>2, <3>1, Zenon
  <2> QED
    BY <2>3, <2>4
<1>5. m * W \in Nat /\ (H - 3) * W = W * H - 3 * W
  BY <1>1
<1>6. m < H - 3 => m * W + W <= (H - 3) * W /\ (m + 1) * W = m * W + W
  <2>1. m < H - 3 => (H - 4 - m) * W >= 0 /\ (H - 4 - m) * W = (H - 3) * W - m * W - W
    BY <1>1
  <2>2. (m + 1) * W = m * W + W
    BY <1>1
  <2> QED
    BY <1>1, <1>5, <2>1, <2>2
<1> QED
  BY <1>1, <1>4, <1>5, <1>6

LEMMA SNRounds ==
  ASSUME NEW n \in 1..SN!MSIZE
  PROVE  SNAfter(n) = SNRound(SNAfter(n - 1))
<1>1. /\ W \in Nat /\ W >= 4 /\ H \in Nat /\ H >= 4
      /\ SN!MSIZE \in Nat /\ W <= SN!MSIZE - 3 * W /\ SNSides \in Nat /\ SNSides >= W + 4
      /\ SNSides + W <= SN!MSIZE /\ SNSides = W + 2 * (H - 2)
  BY SNSizes DEF SNSides
<1>2. CASE n < W
  BY <1>1, <1>2 DEF SNAfter, SNRound, SN!Jump
<1>3. CASE n >= W /\ n < SNSides /\ (n - W) % 2 = 0
  <2>1. PICK m \in 0..H - 3 : n = W + 2 * m
    <3> DEFINE m == (n - W) \div 2
    <3>1. m \in 0..H - 3 /\ n = W + 2 * m
      BY <1>1, <1>3
    <3> QED
      BY <3>1
  <2>2. SNAfter(n) = <<m * W + W, W - 1>> /\ m * W \in Nat /\ m * W + 2 * W <= SN!MSIZE - W
    BY <1>1, <2>1, SNSide
  <2>3. SNAfter(n - 1) = <<m * W + W - 1, 1>>
    <3>1. CASE m = 0
      BY <1>1, <2>1, <3>1 DEF SNAfter
    <3>2. CASE m # 0
      <4>1. m - 1 \in 0..H - 3 /\ m - 1 < H - 3 /\ n - 1 = W + 2 * (m - 1) + 1
        BY <1>1, <2>1, <3>2
      <4>2. SNAfter(n - 1) = <<(m - 1) * W + 2 * W - 1, 1>> /\ (m - 1) * W \in Nat
            /\ ((m - 1) + 1) * W = (m - 1) * W + W
        BY <4>1, SNSide
      <4>3. (m - 1) + 1 = m
        BY <2>1
      <4>4. m * W = (m - 1) * W + W
        BY <4>2, <4>3
      <4>5. (m - 1) * W + 2 * W - 1 = m * W + W - 1
        BY <1>1, <2>2, <4>2, <4>4
      <4> QED
        BY <4>2, <4>5
    <3> QED
      BY <3>1, <3>2
  <2> DEFINE k == m * W
  <2>4. k \in Nat /\ SNAfter(n) = <<k + W, W - 1>> /\ SNAfter(n - 1) = <<k + W - 1, 1>> /\ k + 2 * W <= SN!MSIZE - W
    BY <2>2, <2>3
  <2> HIDE DEF k
  <2> QED
    BY <1>1, <2>4 DEF SNRound, SN!Jump
<1>4. CASE n >= W /\ n < SNSides /\ (n - W) % 2 # 0
  <2>1. PICK m \in 0..H - 3 : n = W + 2 * m + 1
    <3> DEFINE m == (n - W) \div 2
    <3>1. m \in 0..H - 3 /\ n = W + 2 * m + 1
      BY <1>1, <1>4
    <3> QED
      BY <3>1
  <2> DEFINE k == m * W
  <2>2. /\ SNAfter(n) = <<k + 2 * W - 1, 1>> /\ SNAfter(n - 1) = <<k + W, W - 1>>
        /\ k \in Nat /\ k + 2 * W <= SN!MSIZE - W
    <3>1. n - 1 = W + 2 * m
      BY <1>1, <2>1
    <3> QED
      BY <1>1, <2>1, <3>1, SNSide
  <2> HIDE DEF k
  <2> QED
    BY <1>1, <2>2 DEF SNRound, SN!Jump
<1>5. CASE n = SNSides
  <2>1. H - 3 \in 0..H - 3 /\ n - 1 = W + 2 * (H - 3) + 1
    BY <1>1, <1>5
  <2> DEFINE k == (H - 3) * W
  <2>2. SNAfter(n - 1) = <<k + 2 * W - 1, 1>> /\ k \in Nat /\ k + 2 * W = SN!MSIZE - W
    BY <2>1, SNSide
  <2>3. SNAfter(n) = <<SN!MSIZE - SNSides - W + n, 1>>
    BY <1>1, <1>5 DEF SNAfter
  <2> HIDE DEF k
  <2> QED
    BY <1>1, <1>5, <2>2, <2>3 DEF SNRound, SN!Jump
<1>6. CASE n > SNSides /\ n <= SNSides + W
  BY <1>1, <1>6 DEF SNAfter, SNRound, SN!Jump
<1>7. CASE n > SNSides + W
  BY <1>1, <1>7 DEF SNAfter, SNRound
<1> QED
  BY <1>1, <1>2, <1>3, <1>4, <1>5, <1>6, <1>7

(* What the loop marks is the border of the board. *)
LEMMA SNVisited == SN!Visited = SN!Walls
<1> DEFINE N == 0..SN!MSIZE
           D(f) == [n \in N |-> IF n = 0 THEN <<0, 1>>
                                ELSE IF f[n - 1][1] = SN!MSIZE THEN f[n - 1]
                                     ELSE <<f[n - 1][1] + f[n - 1][2],
                                            SN!Jump(f[n - 1][1] + f[n - 1][2], f[n - 1][2])>>]
           g == [n \in N |-> SNAfter(n)]
           walk == CHOOSE f : f = D(f)
<1>1. /\ W \in Nat /\ W >= 4 /\ H \in Nat /\ H >= 4
      /\ SN!MSIZE \in Nat /\ W <= SN!MSIZE - 3 * W /\ SNSides \in Nat /\ SNSides >= W + 4
      /\ SNSides + W <= SN!MSIZE /\ SNSides = W + 2 * (H - 2)
  BY SNSizes DEF SNSides
<1>2. g = D(g)
  <2>1. SNAfter(0) = <<0, 1>>
    BY <1>1 DEF SNAfter
  <2>2. ASSUME NEW n \in N, n # 0 PROVE n - 1 \in N /\ n \in 1..SN!MSIZE
    BY <1>1, <2>2
  <2> QED
    BY <2>1, <2>2, SNRounds DEF SNRound
<1>3. walk = D(walk)
  <2> HIDE DEF D, g
  <2> QED
    BY <1>2, Zenon
<1>a. 0 \in N /\ \A n \in N : n # 0 => n - 1 \in N /\ n \in 1..SN!MSIZE
  BY <1>1
<1>b. walk[0] = <<0, 1>> /\ \A n \in N : n # 0 => walk[n] = SNRound(walk[n - 1])
  <2> HIDE DEF walk, N
  <2> QED
    BY <1>3, <1>a DEF SNRound
<1>4. \A n \in N : walk[n] = SNAfter(n)
  <2> DEFINE T == {n \in N : walk[n] # SNAfter(n)}
  <2> SUFFICES ASSUME T # {} PROVE FALSE
    OBVIOUS
  <2>1. T \in SUBSET Nat
    BY <1>1
  <2> HIDE DEF walk
  <2>2. PICK n \in T : \A m \in T : n <= m
    BY <2>1, Smallest
  <2>3. n # 0
    <3>1. SNAfter(0) = <<0, 1>>
      BY <1>1 DEF SNAfter
    <3> QED
      BY <1>b, <2>2, <3>1
  <2>4. n \in N /\ n - 1 \in N /\ n \in 1..SN!MSIZE /\ n - 1 \notin T
    BY <1>a, <2>2, <2>3
  <2>5. walk[n - 1] = SNAfter(n - 1)
    BY <2>4
  <2>6. walk[n] = SNAfter(n)
    BY <1>b, <2>3, <2>4, <2>5, SNRounds
  <2> QED
    BY <2>2, <2>6
<1>5. SN!Visited = {walk[n][1] : n \in N} \ {SN!MSIZE}
  BY Zenon DEF SN!Visited
<1> HIDE DEF D, g, walk
<1>6. ASSUME NEW n \in N, SNAfter(n)[1] # SN!MSIZE PROVE SNAfter(n)[1] \in SN!Walls
  <2>1. CASE n < W
    <3>1. SNAfter(n)[1] = n /\ n = 0 * W + n /\ 0 \in 0..H - 1 /\ n \in 0..W - 1
      BY <1>1, <2>1 DEF SNAfter
    <3> QED
      BY <3>1, SNWalls
  <2>2. CASE n >= W /\ n < SNSides
    <3> DEFINE m == (n - W) \div 2
    <3>1. m \in 0..H - 3 /\ (n = W + 2 * m \/ n = W + 2 * m + 1)
      BY <1>1, <2>2
    <3> HIDE DEF m
    <3>2. (m + 1) * W = m * W + W /\ m * W \in Nat /\ m + 1 \in 0..H - 1 /\ W - 1 \in 0..W - 1 /\ 0 \in 0..W - 1
      BY <1>1, <3>1
    <3>3. SNAfter(n)[1] = (m + 1) * W + 0 \/ SNAfter(n)[1] = (m + 1) * W + (W - 1)
      <4>1. m * W + W = (m + 1) * W + 0 /\ m * W + 2 * W - 1 = (m + 1) * W + (W - 1)
        BY <1>1, <3>2
      <4> QED
        BY <3>1, <4>1, SNSide
    <3> QED
      BY <3>2, <3>3, SNWalls
  <2>3. CASE n >= SNSides
    <3>1. n - SNSides \in 0..W - 1 /\ SNAfter(n)[1] = SN!MSIZE - W + (n - SNSides)
      BY <1>1, <1>6, <2>3 DEF SNAfter
    <3>2. (H - 1) * W = SN!MSIZE - W /\ H - 1 \in 0..H - 1
      BY <1>1, SNSizes
    <3> QED
      BY <3>1, <3>2, SNWalls
  <2> QED
    BY <1>1, <2>1, <2>2, <2>3
<1>7. ASSUME NEW c \in SN!Walls PROVE c # SN!MSIZE /\ \E n \in N : SNAfter(n)[1] = c
  <2>1. c \in SN!Cells
    BY DEF SN!Walls
  <2>2. PICK m \in 0..H - 1, r \in 0..W - 1 : c = m * W + r
    BY <2>1, SNRowColumn
  <2>3. m = 0 \/ m = H - 1 \/ r = 0 \/ r = W - 1
    BY <2>2, SNWalls
  <2>4. CASE m = 0
    <3>1. c = r /\ r \in N /\ SNAfter(r)[1] = r
      BY <1>1, <2>2, <2>4 DEF SNAfter
    <3> QED
      BY <1>1, <2>1, <3>1 DEF SN!Cells
  <2>5. CASE m = H - 1
    <3>1. (H - 1) * W = SN!MSIZE - W
      BY <1>1, SNSizes
    <3>2. SNSides + r \in N /\ SNAfter(SNSides + r)[1] = SN!MSIZE - W + r
      BY <1>1 DEF SNAfter
    <3> QED
      BY <1>1, <2>1, <2>2, <2>5, <3>1, <3>2 DEF SN!Cells
  <2>6. CASE m \in 1..H - 2
    <3>1. m - 1 \in 0..H - 3 /\ (m - 1) * W = m * W - W /\ m * W \in Nat
      BY <1>1, <2>6
    <3>2. /\ SNAfter(W + 2 * (m - 1))[1] = (m - 1) * W + W
          /\ SNAfter(W + 2 * (m - 1) + 1)[1] = (m - 1) * W + 2 * W - 1
      BY <3>1, SNSide
    <3>3. W + 2 * (m - 1) \in N /\ W + 2 * (m - 1) + 1 \in N
      BY <1>1, <2>6
    <3>4. (m - 1) * W + W = m * W + 0 /\ (m - 1) * W + 2 * W - 1 = m * W + (W - 1)
      BY <1>1, <3>1
    <3>5. c = m * W + 0 \/ c = m * W + (W - 1)
      BY <1>1, <2>2, <2>3, <2>6
    <3>6. c # SN!MSIZE
      BY <1>1, <2>1 DEF SN!Cells
    <3> QED
      BY <3>2, <3>3, <3>4, <3>5, <3>6
  <2> QED
    BY <1>1, <2>2, <2>4, <2>5, <2>6
<1> HIDE DEF N
<1> QED
  BY <1>4, <1>5, <1>6, <1>7

LEMMA SNRings ==
  ASSUME NEW a \in SN!Cells, NEW b \in SN!Cells
  PROVE  /\ SN!Following(b) \in SN!Cells
         /\ a \in SN!Ring(a, b) /\ b \in SN!Ring(a, b) /\ SN!Ring(a, b) \subseteq SN!Cells
         /\ SN!Following(b) = a => SN!Ring(a, b) = SN!Cells
         /\ SN!Following(b) # a => /\ SN!Following(b) \notin SN!Ring(a, b)
                                   /\ SN!Ring(a, SN!Following(b)) = SN!Ring(a, b) \cup {SN!Following(b)}
         /\ a # b => SN!Ring(SN!Following(a), b) = SN!Ring(a, b) \ {a}
         /\ \A q \in SN!Ring(a, b) : q # b => SN!Following(q) \in SN!Ring(a, b)
<1>1. SN!MSIZE \in Nat /\ SN!MSIZE > 0 /\ SN!Cells = 0..SN!MSIZE - 1 /\ a \in Nat /\ b \in Nat
      /\ a < SN!MSIZE /\ b < SN!MSIZE
  BY SNSizes DEF SN!Cells
<1> USE DEF SN!Ring, SN!Following
<1>2. /\ SN!Following(b) \in SN!Cells
      /\ a \in SN!Ring(a, b) /\ b \in SN!Ring(a, b) /\ SN!Ring(a, b) \subseteq SN!Cells
  BY <1>1
<1>3. ASSUME SN!Following(b) = a PROVE SN!Ring(a, b) = SN!Cells
  <2>1. CASE b = SN!MSIZE - 1
    BY <1>1, <1>3, <2>1
  <2>2. CASE b # SN!MSIZE - 1
    <3>1. a = b + 1 /\ SN!Ring(a, b) = (a .. SN!MSIZE - 1) \cup (0..b)
      BY <1>1, <1>3, <2>2
    <3>2. ASSUME NEW q \in SN!Cells PROVE q \in SN!Ring(a, b)
      BY <1>1, <3>1, <3>2
    <3> QED
      BY <1>2, <3>2
  <2> QED
    BY <2>1, <2>2
<1>4. SN!Following(b) # a => SN!Following(b) \notin SN!Ring(a, b)
  BY <1>1
<1>5. SN!Following(b) # a => SN!Ring(a, SN!Following(b)) = SN!Ring(a, b) \cup {SN!Following(b)}
  BY <1>1
<1>6. a # b => SN!Ring(SN!Following(a), b) = SN!Ring(a, b) \ {a}
  BY <1>1
<1>7. \A q \in SN!Ring(a, b) : q # b => SN!Following(q) \in SN!Ring(a, b)
  BY <1>1
<1> QED
  BY <1>2, <1>3, <1>4, <1>5, <1>6, <1>7

(* The slots of a ring whose head goes on, also to its tail. *)
LEMMA SNRingGoesOn ==
  ASSUME NEW a \in SN!Cells, NEW b \in SN!Cells
  PROVE  LET p == SN!Following(b)
         IN /\ p \in SN!Cells /\ SN!Following(a) \in SN!Cells
            /\ a \in SN!Ring(a, b)
            /\ SN!Ring(a, p) \subseteq SN!Ring(a, b) \cup {p}
            /\ SN!Ring(SN!Following(a), p) \subseteq SN!Ring(a, b) \cup {p}
<1>1. SN!MSIZE \in Nat /\ SN!MSIZE > 0 /\ SN!Cells = 0..SN!MSIZE - 1 /\ a \in Nat /\ b \in Nat
      /\ a < SN!MSIZE /\ b < SN!MSIZE
  BY SNSizes DEF SN!Cells
<1> DEFINE p == SN!Following(b)
<1>2. CASE p # a
  <2>1. p # a => SN!Ring(a, p) = SN!Ring(a, b) \cup {p}
    BY SNRings
  <2>2. SN!Ring(SN!Following(a), p) \subseteq SN!Ring(a, p)
    <3>1. p \in SN!Cells
      BY SNRings
    <3> HIDE DEF p
    <3> QED
      BY <1>2, <3>1, SNRings
  <2> QED
    BY <1>2, <2>1, <2>2, SNRings
<1>3. CASE p = a
  <2>1. SN!Ring(a, b) = SN!Cells /\ SN!Following(a) \in SN!Cells /\ a \in SN!Ring(a, b)
    BY <1>3, SNRings
  <2>2. SN!Ring(a, p) \subseteq SN!Cells /\ SN!Ring(SN!Following(a), p) \subseteq SN!Cells
    BY <1>3, <2>1, SNRings
  <2> QED
    BY <1>3, <2>1, <2>2
<1> QED
  BY <1>2, <1>3

(* On every terminal: the walls that show are set, and the snake keeps out *)
(* of them.                                                                *)
SNSeen ==
  /\ screen \in SUBSET SN!Cells
  /\ Board \in [SN!Cells -> BOOLEAN] /\ h \in SN!Cells /\ t \in SN!Cells
  /\ Snake \in [SN!Ring(t, h) -> SN!Cells \ (SN!Walls \cap screen)]
  /\ moveDirection \in 0..3 /\ food \in SN!Cells
  /\ \A c \in SN!Walls \cap screen : Board[c]
  /\ state = "move" => ~Board[food] /\ food \notin SN!Walls

(* On one that shows the board: *)
SNType ==
  /\ Board \in [SN!Cells -> BOOLEAN] /\ h \in SN!Cells /\ t \in SN!Cells
  /\ Snake \in [SN!Ring(t, h) -> SN!Cells \ SN!Walls]
  /\ moveDirection \in 0..3 /\ food \in SN!Cells
  /\ state \in {"move", "food", "over", "hangs"}

SNWay ==
  /\ \A p \in DOMAIN Snake : p # h => Snake[SN!Following(p)] - Snake[p] \in {1, -1, W, -W}
  /\ \A p, q \in DOMAIN Snake : Snake[p] = Snake[q] => p = q \/ Snake[p] = SN!Start

(* The cell of the start may be in the snake twice, and once if it is not  *)
(* set.                                                                    *)
SNAtStart ==
  /\ \A p, q, r \in DOMAIN Snake : Snake[p] = SN!Start /\ Snake[q] = SN!Start /\ Snake[r] = SN!Start
                                     => p = q \/ q = r \/ p = r
  /\ ~Board[SN!Start] => \A p, q \in DOMAIN Snake : Snake[p] = SN!Start /\ Snake[q] = SN!Start => p = q

SNShown ==
  /\ \A c \in SN!Cells : Board[c] => c \in SN!Walls \/ \E p \in DOMAIN Snake : Snake[p] = c
  /\ \A c \in SN!Walls : Board[c]
  /\ \A p \in DOMAIN Snake : Snake[p] = SN!Start \/ Board[Snake[p]]

SNFood ==
  /\ state = "move" => ~Board[food]
  /\ state = "hangs" => \A c \in SN!Cells : c \in SN!Walls \/ \E p \in DOMAIN Snake : Snake[p] = c

SNBoard == SNType /\ SNWay /\ SNAtStart /\ SNShown /\ SNFood

SNInv == SNSeen /\ (SN!Whole => SNBoard)

LEMMA SNStart ==
  /\ SN!Start \in SN!Cells \ SN!Walls
  /\ SN!Start - 1 \in SN!Cells \ SN!Walls
<1>1. W \in Nat /\ W >= 4 /\ H \in Nat /\ H >= 4
  BY SNSizes
<1>2. PICK m \in Nat : H = 2 * m
  <2>1. H = 2 * (H \div 2) /\ H \div 2 \in Nat
    BY <1>1, EvenBoard
  <2> QED
    BY <2>1
<1>3. (H * W) \div 2 = m * W
  <2>1. H * W = 2 * (m * W) /\ m * W \in Nat
    BY <1>1, <1>2
  <2>2. \A k \in Nat : (2 * k) \div 2 = k
    OBVIOUS
  <2> QED
    BY <2>1, <2>2
<1> DEFINE r == W \div 2
<1>4. SN!Start = m * W + r /\ SN!Start - 1 = m * W + (r - 1) /\ r \in 2..W - 2 /\ m \in 1..H - 2
  <2>1. r \in 2..W - 2 /\ m \in 1..H - 2 /\ m * W \in Nat
    BY <1>1, <1>2
  <2>2. SN!Start = m * W + r
    BY <1>3, <2>1 DEF SN!Start
  <2> QED
    BY <2>1, <2>2
<1> HIDE DEF r
<1>5. r \in 0..W - 1 /\ r - 1 \in 0..W - 1 /\ m \in 0..H - 1 /\ r # 0 /\ r # W - 1 /\ r - 1 # 0 /\ r - 1 # W - 1
      /\ m # 0 /\ m # H - 1
  BY <1>1, <1>4
<1> QED
  BY <1>4, <1>5, SNWalls

LEMMA SNInit == SN!Init => SNInv
<1> SUFFICES ASSUME SN!Init PROVE SNInv
  OBVIOUS
<1>0. screen \in SUBSET SN!Cells
  <2>1. PICK cells \in Screens : screen = cells
    BY DEF SN!Init
  <2>2. cells \in SUBSET (0 .. W * H - 1)
    BY ScreensOfCells
  <2> QED
    BY <2>1, <2>2 DEF SN!Cells, SN!MSIZE
<1>1. /\ Board = [c \in SN!Cells |-> c \in SN!Walls /\ c \in screen]
      /\ Snake = [p \in {0} |-> SN!Start] /\ food = SN!Start - 1
      /\ h = 0 /\ t = 0 /\ moveDirection = 0 /\ state = "move"
  <2>1. Board = [c \in SN!Cells |-> c \in SN!Visited /\ SN!DRAW(c)]
    BY Zenon DEF SN!Init
  <2>2. Board = [c \in SN!Cells |-> c \in SN!Walls /\ c \in screen]
    BY <2>1, SNVisited DEF SN!DRAW
  <2> QED
    BY <2>2, Zenon DEF SN!Init
<1>2. 0 \in SN!Cells /\ SN!Ring(0, 0) = {0}
  BY SNSizes DEF SN!Cells, SN!Ring
<1>3. SN!Walls \subseteq SN!Cells
  BY DEF SN!Walls
<1>4. SNSeen
  <2>1. Board \in [SN!Cells -> BOOLEAN] /\ \A c \in SN!Cells : Board[c] <=> c \in SN!Walls /\ c \in screen
    BY <1>1
  <2>2. Snake \in [SN!Ring(t, h) -> SN!Cells \ (SN!Walls \cap screen)]
    BY <1>1, <1>2, SNStart
  <2> QED
    BY <1>0, <1>1, <1>2, <1>3, <2>1, <2>2, SNStart DEF SNSeen
<1>5. ASSUME SN!Whole PROVE SNBoard
  <2>1. Board = [c \in SN!Cells |-> c \in SN!Walls]
    BY <1>1, <1>5 DEF SN!Whole
  <2>2. SNType
    BY <1>1, <1>2, <2>1, SNStart DEF SNType
  <2>3. SNWay /\ SNAtStart /\ SNShown /\ SNFood
    BY <1>1, <1>3, <2>1, SNStart DEF SNWay, SNAtStart, SNShown, SNFood
  <2> QED
    BY <2>2, <2>3 DEF SNBoard
<1> QED
  BY <1>4, <1>5 DEF SNInv

LEMMA SNIdle == SNInv /\ UNCHANGED snakeVars => SNInv'
<1> SUFFICES ASSUME SNInv, UNCHANGED snakeVars PROVE SNInv'
  OBVIOUS
<1>1. /\ Board' = Board /\ Snake' = Snake /\ h' = h /\ t' = t /\ food' = food
      /\ moveDirection' = moveDirection /\ state' = state /\ screen' = screen
  BY DEF snakeVars
<1> QED
  BY <1>1 DEF SNInv, SNSeen, SNBoard, SN!Whole, SNType, SNWay, SNAtStart, SNShown, SNFood

(* A step on any terminal. *)
LEMMA SNSeenStep == SNSeen /\ SN!Next => SNSeen'
<1> SUFFICES ASSUME SNSeen, SN!Next PROVE SNSeen'
  OBVIOUS
<1>1. /\ screen \in SUBSET SN!Cells
      /\ Board \in [SN!Cells -> BOOLEAN] /\ h \in SN!Cells /\ t \in SN!Cells
      /\ Snake \in [SN!Ring(t, h) -> SN!Cells \ (SN!Walls \cap screen)]
      /\ moveDirection \in 0..3 /\ food \in SN!Cells
      /\ \A c \in SN!Walls \cap screen : Board[c]
      /\ state = "move" => ~Board[food] /\ food \notin SN!Walls
  BY DEF SNSeen
<1>2. screen' = screen
  BY DEF SN!Next, SN!Move, SN!Feed
<1>3. CASE SN!Move
  <2> DEFINE n == SN!next
             p == SN!Following(h)
  <2>1. moveDirection' \in 0..3 /\ food' = food
    BY <1>1, <1>3 DEF SN!Move, SN!Steer
  <2>2. CASE UNCHANGED <<Board, Snake, h, t>> /\ state' # "move"
    BY <1>1, <1>2, <2>1, <2>2 DEF SNSeen
  <2>3. CASE n \in SN!Cells /\ ~Board[n]
    <3> DEFINE longer == [q \in DOMAIN Snake \cup {p} |-> IF q = p THEN n ELSE Snake[q]]
    <3>1. /\ h' = p /\ state' = "food"
          /\ IF n = food THEN Board' = [Board EXCEPT ![n] = SN!DRAW(n)] /\ t' = t
             ELSE /\ Board' = [Board EXCEPT ![n] = SN!DRAW(n), ![longer[t]] = ~SN!DRAW(longer[t])]
                  /\ t' = SN!Following(t)
          /\ Snake' = [q \in SN!Ring(t', p) |-> longer[q]]
      BY <1>3, <2>3 DEF SN!Move, SN!Leave
    <3> HIDE DEF n, p
    <3>2. /\ p \in SN!Cells /\ SN!Following(t) \in SN!Cells
          /\ t \in SN!Ring(t, h)
          /\ SN!Ring(t, p) \subseteq SN!Ring(t, h) \cup {p}
          /\ SN!Ring(SN!Following(t), p) \subseteq SN!Ring(t, h) \cup {p}
      BY <1>1, SNRingGoesOn DEF p
    <3>3. longer \in [SN!Ring(t, h) \cup {p} -> SN!Cells \ (SN!Walls \cap screen)]
      BY <1>1, <2>3
    <3>4. longer[t] \in SN!Cells \ (SN!Walls \cap screen)
      BY <3>2, <3>3
    <3> HIDE DEF longer
    <3>5. t' \in SN!Cells /\ Snake' \in [SN!Ring(t', h') -> SN!Cells \ (SN!Walls \cap screen)]
      <4>1. SN!Ring(t', p) \subseteq SN!Ring(t, h) \cup {p} /\ t' \in SN!Cells
        BY <1>1, <3>1, <3>2
      <4> QED
        BY <3>1, <3>3, <4>1
    <3>6. Board' \in [SN!Cells -> BOOLEAN] /\ \A c \in SN!Walls \cap screen : Board'[c]
      <4>1. SN!DRAW(n) \in BOOLEAN /\ (~SN!DRAW(longer[t])) \in BOOLEAN
        BY DEF SN!DRAW
      <4>2. n \notin SN!Walls \cap screen
        BY <1>1, <2>3
      <4> QED
        BY <1>1, <2>3, <3>1, <3>4, <4>1, <4>2
    <3> QED
      BY <1>1, <1>2, <2>1, <3>1, <3>2, <3>5, <3>6 DEF SNSeen
  <2> QED
    BY <1>3, <2>2, <2>3 DEF SN!Move
<1>4. CASE SN!Feed
  <2>1. /\ UNCHANGED <<Board, Snake, h, t, moveDirection>>
        /\ food' \in SN!Cells
        /\ state' = "move" => SN!Suits(food')
    BY <1>1, <1>4 DEF SN!Feed, SN!Free
  <2>2. ASSUME state' = "move" PROVE ~Board'[food'] /\ food' \notin SN!Walls
    BY <1>1, <2>1, <2>2 DEF SN!Suits, SN!DRAW
  <2> QED
    BY <1>1, <1>2, <2>1, <2>2 DEF SNSeen
<1> QED
  BY <1>3, <1>4 DEF SN!Next

(* The ring is never full: its cells are not walls, and only the start can *)
(* be there twice.                                                         *)
LEMMA SNNotFull == SNBoard => SN!Following(h) # t
<1> SUFFICES ASSUME SNBoard, SN!Following(h) = t PROVE FALSE
  OBVIOUS
<1> DEFINE C == SN!Cells
           D == C \ {1}
           Again(p) == Snake[p] = SN!Start /\ \E q \in C : q < p /\ Snake[q] = SN!Start
           f == [p \in C |-> IF Again(p) THEN 0 ELSE Snake[p]]
<1>1. Snake \in [C -> C \ SN!Walls]
  BY SNRings DEF SNBoard, SNType
<1>2. C = 0..SN!MSIZE - 1 /\ SN!MSIZE \in Nat /\ SN!MSIZE > 4
  BY SNSizes DEF SN!Cells
<1>3. 0 \in SN!Walls /\ 1 \in SN!Walls
  BY <1>2, SNSizes DEF SN!Walls
<1>4. f \in [C -> D]
  BY <1>1, <1>2, <1>3
<1>5. IsFiniteSet(C) /\ Cardinality(C) = SN!MSIZE
  BY <1>2, FS_Interval
<1>6. IsFiniteSet(D) /\ Cardinality(D) = SN!MSIZE - 1
  <2>1. 1 \in C
    BY <1>2
  <2> HIDE DEF C
  <2> QED
    BY <1>2, <1>5, <2>1, FS_RemoveElement
<1>7. PICK p \in C, q \in C : p # q /\ f[p] = f[q]
  <2> HIDE DEF f, C, D
  <2> QED
    BY <1>2, <1>4, <1>5, <1>6, FS_PigeonHole
<1>8. /\ \A i, j, k \in C : Snake[i] = SN!Start /\ Snake[j] = SN!Start /\ Snake[k] = SN!Start
                              => i = j \/ j = k \/ i = k
      /\ \A i, j \in C : Snake[i] = Snake[j] => i = j \/ Snake[i] = SN!Start
  BY <1>1 DEF SNBoard, SNAtStart, SNWay
<1>9. Again(p) /\ Again(q)
  <2>1. Snake[p] # 0 /\ Snake[q] # 0
    BY <1>1, <1>3
  <2>2. ASSUME ~Again(p), ~Again(q) PROVE FALSE
    <3>1. Snake[p] = Snake[q]
      BY <1>7, <2>2
    <3>2. Snake[p] = SN!Start
      BY <1>7, <1>8, <3>1
    <3> QED
      BY <1>2, <1>7, <2>2, <3>1, <3>2
  <2> QED
    BY <1>7, <2>1, <2>2
<1>10. PICK i \in C, j \in C : i < p /\ Snake[i] = SN!Start /\ j < q /\ Snake[j] = SN!Start
  BY <1>9
<1> QED
  BY <1>2, <1>7, <1>8, <1>9, <1>10

(* A step on a terminal that shows the board. *)
LEMMA SNBoardStep == SNBoard /\ SN!Whole /\ SN!Next => SNBoard'
<1> SUFFICES ASSUME SNBoard, SN!Whole, SN!Next PROVE SNBoard'
  OBVIOUS
<1>1. /\ Board \in [SN!Cells -> BOOLEAN] /\ h \in SN!Cells /\ t \in SN!Cells
      /\ Snake \in [SN!Ring(t, h) -> SN!Cells \ SN!Walls]
      /\ moveDirection \in 0..3 /\ food \in SN!Cells
  BY DEF SNBoard, SNType
<1>2. /\ SN!Ring(t, h) \subseteq SN!Cells /\ t \in SN!Ring(t, h) /\ h \in SN!Ring(t, h)
      /\ SN!Following(h) \in SN!Cells /\ SN!Following(h) # t
      /\ SN!Following(h) \notin SN!Ring(t, h)
      /\ SN!Ring(t, SN!Following(h)) = SN!Ring(t, h) \cup {SN!Following(h)}
      /\ \A q \in SN!Ring(t, h) : q # h => SN!Following(q) \in SN!Ring(t, h)
  BY <1>1, SNRings, SNNotFull
<1>3. /\ \A p \in SN!Ring(t, h) : p # h => Snake[SN!Following(p)] - Snake[p] \in {1, -1, W, -W}
      /\ \A p, q \in SN!Ring(t, h) : Snake[p] = Snake[q] => p = q \/ Snake[p] = SN!Start
      /\ \A p, q, r \in SN!Ring(t, h) : Snake[p] = SN!Start /\ Snake[q] = SN!Start /\ Snake[r] = SN!Start
                                         => p = q \/ q = r \/ p = r
      /\ ~Board[SN!Start] => \A p, q \in SN!Ring(t, h) : Snake[p] = SN!Start /\ Snake[q] = SN!Start => p = q
  BY <1>1 DEF SNBoard, SNWay, SNAtStart
<1>4. /\ \A c \in SN!Cells : Board[c] => c \in SN!Walls \/ \E p \in SN!Ring(t, h) : Snake[p] = c
      /\ \A c \in SN!Walls : Board[c]
      /\ \A p \in SN!Ring(t, h) : Snake[p] = SN!Start \/ Board[Snake[p]]
      /\ SN!Walls \subseteq SN!Cells
  BY <1>1 DEF SNBoard, SNShown, SN!Walls
<1>5. CASE SN!Move
  <2> DEFINE n == SN!next
             p == SN!Following(h)
  <2>1. moveDirection' \in 0..3
    BY <1>1, <1>5 DEF SN!Move, SN!Steer
  <2>2. food' = food /\ state = "move"
    BY <1>5 DEF SN!Move
  <2>3. /\ n \in SN!Cells /\ n - Snake[h] \in {1, -1, W, -W}
    <3>1. Snake[h] \in SN!Cells \ SN!Walls
      BY <1>1, <1>2
    <3>2. /\ SN!MSIZE \in Nat /\ W \in Nat /\ W >= 4 /\ W <= SN!MSIZE - 3 * W
          /\ Snake[h] \in W .. SN!MSIZE - W - 1
      BY <3>1, SNSizes DEF SN!Cells, SN!Walls
    <3>3. n = Snake[h] + (IF moveDirection' = 0 THEN W ELSE IF moveDirection' = 1 THEN 2 * W + 1
                          ELSE IF moveDirection' = 2 THEN W + 2 ELSE 1) - W - 1
      BY <2>1 DEF SN!next, SN!MoveHints
    <3> QED
      BY <3>2, <3>3 DEF SN!Cells
  <2>4. CASE Board[n]
    <3>1. state' = "over" /\ UNCHANGED <<Board, Snake, h, t>>
      BY <1>5, <2>3, <2>4 DEF SN!Move
    <3> QED
      BY <2>1, <2>2, <3>1 DEF SNBoard, SNType, SNWay, SNAtStart, SNShown, SNFood
  <2>5. CASE ~Board[n]
    <3> DEFINE longer == [q \in DOMAIN Snake \cup {p} |-> IF q = p THEN n ELSE Snake[q]]
    <3>0. /\ h' = p /\ state' = "food"
          /\ Snake' = [q \in SN!Ring(t', p) |-> longer[q]]
          /\ IF n = food THEN Board' = [Board EXCEPT ![n] = TRUE] /\ t' = t
             ELSE /\ Board' = [Board EXCEPT ![n] = TRUE, ![Snake[t]] = FALSE]
                  /\ t' = SN!Following(t)
      <4>1. /\ h' = p /\ state' = "food"
            /\ Snake' = [q \in SN!Ring(t', p) |-> longer[q]]
            /\ IF n = food THEN Board' = [Board EXCEPT ![n] = SN!DRAW(n)] /\ t' = t
               ELSE /\ Board' = [Board EXCEPT ![n] = SN!DRAW(n), ![longer[t]] = ~SN!DRAW(longer[t])]
                    /\ t' = SN!Following(t)
        BY <1>5, <2>3, <2>5 DEF SN!Move, SN!Leave
      <4>2. longer[t] = Snake[t] /\ Snake[t] \in SN!Cells
        BY <1>1, <1>2
      <4>3. SN!DRAW(n) = TRUE /\ SN!DRAW(Snake[t]) = TRUE
        BY <2>3, <4>2 DEF SN!DRAW, SN!Whole
      <4> HIDE DEF n, p, longer
      <4> QED
        BY <4>1, <4>2, <4>3
    <3> HIDE DEF n, p
    <3>a. DOMAIN Snake = SN!Ring(t, h)
      BY <1>1
    <3>b. p \in SN!Cells /\ p # t /\ p \notin SN!Ring(t, h) /\ SN!Ring(t, p) = SN!Ring(t, h) \cup {p}
      BY <1>2 DEF p
    <3>f. Snake' = IF n = food THEN longer ELSE [q \in DOMAIN longer \ {t} |-> longer[q]]
      <4>1. SN!Ring(SN!Following(t), p) = SN!Ring(t, p) \ {t}
        BY <1>1, <3>b, SNRings
      <4>2. DOMAIN longer = SN!Ring(t, p)
        BY <3>a, <3>b
      <4>3. longer = [q \in SN!Ring(t, p) |-> longer[q]]
        BY <3>a, <3>b
      <4> HIDE DEF longer
      <4> QED
        BY <3>0, <4>1, <4>2, <4>3
    <3>c. n \notin SN!Walls /\ \A q \in SN!Ring(t, h) : Snake[q] = n => n = SN!Start
      BY <1>4, <2>5
    <3>1. /\ t' \in SN!Cells /\ h' \in SN!Cells
          /\ DOMAIN Snake' = SN!Ring(t', h')
          /\ DOMAIN Snake' \subseteq SN!Ring(t, h) \cup {p} /\ p \in DOMAIN Snake'
          /\ Snake'[p] = n
          /\ \A q \in DOMAIN Snake' : q # p => q \in SN!Ring(t, h) /\ Snake'[q] = Snake[q]
          /\ \A q \in DOMAIN Snake' : q # p => SN!Following(q) \in DOMAIN Snake'
          /\ \A q \in DOMAIN Snake' : q \notin {p, h} => SN!Following(q) # p
      <4>1. \A q \in SN!Ring(t, h) : q # h => SN!Following(q) # p
        BY <1>2, <3>b
      <4>2. CASE n = food
        <5>1. /\ Snake' = longer /\ t' = t /\ h' = p
              /\ DOMAIN Snake' = SN!Ring(t, p)
              /\ \A q \in SN!Ring(t, p) : q # p => SN!Following(q) \in SN!Ring(t, p)
          BY <1>1, <3>0, <3>f, <3>a, <3>b, <4>2, SNRings
        <5> QED
          BY <1>1, <3>a, <3>b, <4>1, <5>1
      <4>3. CASE n # food
        <5>1. /\ Snake' = [q \in DOMAIN longer \ {t} |-> longer[q]] /\ t' = SN!Following(t) /\ h' = p
              /\ SN!Following(t) \in SN!Cells
              /\ DOMAIN Snake' = SN!Ring(t, p) \ {t} /\ SN!Ring(SN!Following(t), p) = SN!Ring(t, p) \ {t}
          BY <1>1, <3>0, <3>f, <3>a, <3>b, <4>3, SNRings
        <5>2. \A q \in SN!Ring(t', p) : q # p => SN!Following(q) \in SN!Ring(t', p)
          BY <3>b, <5>1, SNRings
        <5> QED
          BY <1>1, <3>a, <3>b, <4>1, <5>1, <5>2
      <4> QED
        BY <4>2, <4>3
    <3>2. SNType'
      BY <1>1, <2>1, <2>2, <2>3, <3>0, <3>1, <3>c DEF SNType
    <3>d. /\ n = food => Board' = [Board EXCEPT ![n] = TRUE]
          /\ n # food => /\ Board' = [Board EXCEPT ![n] = TRUE, ![Snake[t]] = FALSE]
                         /\ t \notin DOMAIN Snake'
      <4>1. n # food => t \notin DOMAIN Snake'
        BY <3>f
      <4> QED
        BY <3>0, <4>1
    <3>e. /\ t \in SN!Ring(t, h) /\ Snake[t] \in SN!Cells \ SN!Walls
          /\ \A c \in SN!Cells : Board'[c] = IF n # food /\ c = Snake[t] THEN FALSE
                                             ELSE c = n \/ Board[c]
      BY <1>1, <1>2, <2>3, <3>d
    <3>3. SNWay'
      <4>1. ASSUME NEW q \in DOMAIN Snake', q # h'
            PROVE  Snake'[SN!Following(q)] - Snake'[q] \in {1, -1, W, -W}
        <5>1. CASE q = h
          BY <2>3, <3>0, <3>1, <3>b, <4>1, <5>1 DEF n, p
        <5>2. CASE q # h
          BY <1>3, <3>0, <3>1, <4>1, <5>2
        <5> QED
          BY <5>1, <5>2
      <4>2. ASSUME NEW q \in DOMAIN Snake', NEW r \in DOMAIN Snake', Snake'[q] = Snake'[r], q # r
            PROVE  Snake'[q] = SN!Start
        BY <1>3, <3>1, <3>c, <4>2
      <4> QED
        BY <4>1, <4>2 DEF SNWay
    <3>4. SNAtStart'
      <4>1. ASSUME NEW q \in DOMAIN Snake', NEW r \in DOMAIN Snake', NEW s \in DOMAIN Snake',
                   Snake'[q] = SN!Start, Snake'[r] = SN!Start, Snake'[s] = SN!Start
            PROVE  q = r \/ r = s \/ q = s
        BY <1>3, <2>5, <3>1, <4>1
      <4>2. ASSUME NEW q \in DOMAIN Snake', NEW r \in DOMAIN Snake', ~Board'[SN!Start],
                   Snake'[q] = SN!Start, Snake'[r] = SN!Start
            PROVE  q = r
        <5>1. SN!Start \in SN!Cells
          BY SNStart
        <5>2. CASE n # food /\ SN!Start = Snake[t]
          <6>1. q # t /\ r # t
            BY <3>d, <5>2
          <6> QED
            BY <1>3, <2>5, <3>1, <3>e, <4>2, <5>2, <6>1
        <5>3. CASE ~(n # food /\ SN!Start = Snake[t])
          <6>1. n # SN!Start /\ ~Board[SN!Start]
            BY <3>e, <4>2, <5>1, <5>3
          <6> QED
            BY <1>3, <3>1, <4>2, <6>1
        <5> QED
          BY <5>2, <5>3
      <4> QED
        BY <4>1, <4>2 DEF SNAtStart
    <3>5. SNShown'
      <4>1. ASSUME NEW c \in SN!Cells, Board'[c], c \notin SN!Walls
            PROVE  \E q \in DOMAIN Snake' : Snake'[q] = c
        <5>1. CASE c = n
          BY <3>1, <5>1
        <5>2. CASE c # n
          <6>1. Board[c] /\ ~(n # food /\ c = Snake[t])
            BY <3>e, <4>1, <5>2
          <6>2. PICK q \in SN!Ring(t, h) : Snake[q] = c
            BY <1>4, <4>1, <6>1
          <6>3. q \in DOMAIN Snake'
            BY <1>1, <3>f, <6>1, <6>2
          <6> QED
            BY <3>1, <3>b, <6>2, <6>3
        <5> QED
          BY <5>1, <5>2
      <4>2. \A c \in SN!Walls : Board'[c]
        BY <1>4, <3>e
      <4>3. ASSUME NEW q \in DOMAIN Snake', Snake'[q] # SN!Start PROVE Board'[Snake'[q]]
        <5>1. Snake'[q] \in SN!Cells
          BY <3>2, <4>3 DEF SNType
        <5>2. CASE q = p
          <6>1. n # Snake[t]
            BY <3>1, <3>c, <3>e, <4>3, <5>2
          <6> QED
            BY <3>1, <3>e, <5>1, <5>2, <6>1
        <5>3. CASE q # p
          <6>1. q \in SN!Ring(t, h) /\ Snake'[q] = Snake[q] /\ Board[Snake[q]]
            BY <1>4, <3>1, <4>3, <5>3
          <6>2. n # food => q # t /\ Snake[q] # Snake[t]
            BY <1>3, <3>d, <3>e, <4>3, <6>1
          <6> QED
            BY <3>e, <5>1, <6>1, <6>2
        <5> QED
          BY <5>2, <5>3
      <4> QED
        BY <4>1, <4>2, <4>3 DEF SNShown
    <3>6. SNFood'
      BY <3>0 DEF SNFood
    <3> QED
      BY <3>2, <3>3, <3>4, <3>5, <3>6 DEF SNBoard
  <2> QED
    BY <2>4, <2>5
<1>6. CASE SN!Feed
  <2>1. /\ UNCHANGED <<Board, Snake, h, t, moveDirection>>
        /\ \/ ~Board[food] /\ SN!Goes /\ food' = food
           \/ food' \in SN!Free /\ SN!Goes
           \/ Board[food] /\ SN!Free = {} /\ state' = "hangs" /\ food' = food
    BY <1>1, <1>6 DEF SN!Feed, SN!Suits, SN!DRAW, SN!Whole
  <2>2. SN!Free = {c \in SN!Candidates \cap SN!Cells : ~Board[c]}
    BY DEF SN!Free, SN!Suits, SN!DRAW, SN!Whole
  <2>3. SNType' /\ SNWay' /\ SNAtStart' /\ SNShown'
    BY <2>1, <2>2 DEF SNBoard, SNType, SNWay, SNAtStart, SNShown, SN!Goes
  <2>4. state' = "move" => ~Board'[food']
    BY <2>1, <2>2
  <2>5. ASSUME state' = "hangs", NEW c \in SN!Cells, c \notin SN!Walls
        PROVE  \E p \in DOMAIN Snake : Snake[p] = c
    <3>1. SN!Free = {}
      BY <2>1, <2>5 DEF SN!Goes
    <3>2. c \in SN!Candidates
      <4>1. /\ SN!MSIZE \in Nat /\ SN!MSIZE = W * H /\ W \in Nat /\ W >= 4 /\ H \in Nat /\ H >= 4
            /\ c \in W .. SN!MSIZE - W - 1
        BY <2>5, SNSizes DEF SN!Cells, SN!Walls
      <4>2. c # W
        <5>1. W = 1 * W + 0 /\ 1 \in 0..H - 1 /\ 0 \in 0..W - 1
          BY <4>1
        <5>2. 1 * W + 0 \in SN!Walls
          BY <5>1, SNWalls
        <5> QED
          BY <2>5, <5>1, <5>2
      <4>3. c # SN!MSIZE - W - 1
        <5>1. /\ SN!MSIZE - W - 1 = (H - 2) * W + (W - 1)
              /\ H - 2 \in 0..H - 1 /\ W - 1 \in 0..W - 1
          BY <4>1
        <5>2. (H - 2) * W + (W - 1) \in SN!Walls
          BY <5>1, SNWalls
        <5> QED
          BY <2>5, <5>1, <5>2
      <4>4. W + 1 + (W - 1) * (H - 1) = SN!MSIZE - H + 2
        BY <4>1
      <4> QED
        BY <4>1, <4>2, <4>3, <4>4, BoardNotTall DEF SN!Candidates
    <3>3. Board[c]
      BY <2>2, <3>1, <3>2
    <3> QED
      BY <1>1, <1>4, <2>5, <3>3
  <2>6. SNFood'
    BY <2>1, <2>4, <2>5 DEF SNFood
  <2> QED
    BY <2>3, <2>6 DEF SNBoard
<1> QED
  BY <1>5, <1>6 DEF SN!Next

LEMMA SNStep == SNInv /\ SN!Next => SNInv'
<1> SUFFICES ASSUME SNInv, SN!Next PROVE SNInv'
  OBVIOUS
<1>1. SN!Whole' => SN!Whole
  BY DEF SN!Whole, SN!Next, SN!Move, SN!Feed
<1> QED
  BY <1>1, SNSeenStep, SNBoardStep DEF SNInv

LEMMA SNSafe == SNInv => SN!BoardShowsAll /\ SN!IsWay /\ SN!FoodWaits
<1> SUFFICES ASSUME SNInv PROVE SN!BoardShowsAll /\ SN!IsWay /\ SN!FoodWaits
  OBVIOUS
<1>0. SNSeen /\ (SN!Whole => SNBoard)
  BY DEF SNInv
<1>1. SN!Whole => Snake \in [DOMAIN Snake -> SN!Cells \ SN!Walls] /\ food \in SN!Cells
  BY <1>0 DEF SNBoard, SNType
<1>2. SN!BoardShowsAll
  BY <1>0, <1>1 DEF SNBoard, SNShown, SN!BoardShowsAll, SN!Body, SN!Walls
<1>3. SN!IsWay
  <2>1. SN!Body \cap SN!Walls \cap screen = {}
    BY <1>0 DEF SNSeen, SN!Body
  <2>2. SN!Whole => state # "undefined"
    BY <1>0 DEF SNBoard, SNType
  <2> QED
    BY <1>0, <1>1, <2>1, <2>2 DEF SNBoard, SNWay, SN!IsWay, SN!Body
<1>4. SN!FoodWaits
  <2>1. SN!Whole /\ state = "hangs" => SN!Cells = SN!Walls \cup SN!Body
    BY <1>0, <1>1 DEF SNBoard, SNFood, SN!Body, SN!Walls
  <2> QED
    BY <1>0, <2>1 DEF SNSeen, SN!FoodWaits
<1> QED
  BY <1>2, <1>3, <1>4

-----------------------------------------------------------------------------
(* The scripts. A file that is tested for lies behind its test once the    *)
(* script has gone on, and what a run makes was not there before it.       *)
Tested(n) == PV!Tests[script][n]
Making == {"sure", "menuconfig", "produce", "make", "install", "mkdir", "cp", "cpio"}
Packing == {"make", "install", "mkdir", "cp", "cpio"}

PVType ==
  /\ script \in DOMAIN PV!Tests /\ test \in 1..Len(PV!Tests[script]) + 1
  /\ step \in Making \cup {"idle", "options", "test", "partition", "boot", "symbols"}
  /\ files \in [PV!ToSet(PV!Tests[script]) \cup PV!Others[script] -> {"absent", "half", "whole"}]
  /\ accident \in BOOLEAN

PVPlace ==
  /\ step \in Making => test <= Len(PV!Tests[script])
  /\ step = "sure" => files[Tested(test)] = "absent" /\ Tested(test) # "initramfs_dir"
  /\ step = "menuconfig" => Tested(test) = ".config"
  /\ step = "produce" => Tested(test) \notin {".config", "initramfs_dir"}
  /\ step \in Packing => Tested(test) = "initramfs_dir"
  /\ step \in {"cp", "cpio"} => files["initramfs_dir"] # "absent"
  /\ step \in {"make", "install", "mkdir"} => files["initramfs_dir"] = "absent"
  /\ step = "partition" => script = "uefi" /\ test > 1
  /\ step = "symbols" => script = "uefi"
  /\ step = "boot" => IF script = "uefi" THEN test > 1 /\ files["PART_IMG"] = "whole"
                      ELSE test > Len(PV!Tests[script])
  /\ step \in {"idle", "options", "symbols"} => test = 1

PVPassed ==
  \A n \in 1..test - 1 : Tested(n) = ".config" \/ files[Tested(n)] # "absent"

PVTorn ==
  /\ torn \subseteq PV!ToSet(PV!Tests[script])
  /\ \A f \in torn : files[f] = "half"
  /\ step \in Making => Tested(test) \notin torn

PVWhole ==
  /\ \A n \in 1..Len(PV!Tests[script]) :
       files[Tested(n)] = "half" => \/ step = "produce" /\ n = test
                                    \/ step = "cp" /\ Tested(n) = "initramfs_dir"
  /\ step \in {"mkdir", "cp", "cpio"} => files["_install"] = "whole"
  /\ script = "busybox" /\ step \notin {"cp", "cpio"} /\ files["initramfs_dir"] # "absent"
       => files["initrd"] = "whole"

PVInv == PVType /\ PVPlace /\ PVPassed /\ PVTorn /\ (~accident => PVWhole)

LEMMA PVTables ==
  ASSUME script \in DOMAIN PV!Tests
  PROVE  /\ Len(PV!Tests[script]) \in Nat \ {0}
         /\ \A n, m \in 1..Len(PV!Tests[script]) : Tested(n) = Tested(m) => n = m
         /\ PV!ToSet(PV!Tests[script]) = {Tested(n) : n \in 1..Len(PV!Tests[script])}
         /\ \A n \in 1..Len(PV!Tests[script]) : Tested(n) \notin PV!Others[script]
         /\ script \notin {"busybox", "uefi"} => PV!Needs[script] \subseteq PV!ToSet(PV!Tests[script])
<1> USE DEF PV!Tests, PV!Others, PV!Needs, Tested
<1>1. CASE script = "busybox"
  <2>1. PV!Tests[script] = <<"busybox_img", "build_dir", ".config", "initramfs_dir">>
    BY <1>1
  <2> QED
    BY <1>1, <2>1 DEF PV!ToSet
<1>2. CASE script = "yocto"
  BY <1>2 DEF PV!ToSet
<1>3. CASE script = "ubuntu"
  BY <1>3 DEF PV!ToSet
<1>4. CASE script = "windows"
  BY <1>4 DEF PV!ToSet
<1>5. CASE script = "alpine"
  BY <1>5 DEF PV!ToSet
<1>6. CASE script = "uefi"
  BY <1>6 DEF PV!ToSet
<1> QED
  BY <1>1, <1>2, <1>3, <1>4, <1>5, <1>6
LEMMA PVBusybox ==
  ASSUME script = "busybox"
  PROVE  /\ PV!ToSet(PV!Tests[script]) = {"busybox_img", "build_dir", ".config", "initramfs_dir"}
         /\ Len(PV!Tests[script]) = 4 /\ Tested(1) = "busybox_img" /\ Tested(2) = "build_dir"
         /\ Tested(3) = ".config" /\ Tested(4) = "initramfs_dir"
         /\ PV!Others[script] = {"_install", "initrd"}
         /\ \A f \in {"_install", "initrd"} : f \notin PV!ToSet(PV!Tests[script])
<1>1. PV!Tests[script] = <<"busybox_img", "build_dir", ".config", "initramfs_dir">>
  BY DEF PV!Tests
<1> QED
  BY <1>1 DEF Tested, PV!Others, PV!ToSet

(* Only busybox.sh tests for these. *)
LEMMA PVOnlyBusybox ==
  ASSUME script \in DOMAIN PV!Tests, script # "busybox"
  PROVE  {"build_dir", ".config", "initramfs_dir", "_install", "initrd"}
           \cap (PV!ToSet(PV!Tests[script]) \cup PV!Others[script]) = {}
<1>1. \/ script = "yocto" \/ script = "ubuntu" \/ script = "windows" \/ script = "alpine" \/ script = "uefi"
  BY DEF PV!Tests
<1> QED
  BY <1>1 DEF PV!Tests, PV!Others, PV!ToSet

LEMMA PVInit == PV!Init => PVInv
<1> SUFFICES ASSUME PV!Init PROVE PVInv
  OBVIOUS
<1>1. /\ script \in DOMAIN PV!Tests /\ step = "idle" /\ test = 1 /\ accident = FALSE /\ torn = {}
      /\ files \in [PV!ToSet(PV!Tests[script]) \cup PV!Others[script] -> {"absent", "half", "whole"}]
      /\ \A f \in PV!ToSet(PV!Tests[script]) \cup PV!Others[script] : files[f] # "half"
      /\ \A f \in PV!ToSet(PV!Tests[script]) \cup PV!Others[script] : f # "iso" => files[f] = "absent"
  BY DEF PV!Init
<1>2. PVType /\ PVPlace
  <2>1. test \in 1..Len(PV!Tests[script]) + 1
    BY <1>1, PVTables
  <2> QED
    BY <1>1, <2>1 DEF PVType, PVPlace, Making, Packing
<1>5. PVPassed /\ PVTorn
  BY <1>1 DEF PVPassed, PVTorn, Making
<1>3. \A n \in 1..Len(PV!Tests[script]) : files[Tested(n)] # "half"
  BY <1>1, PVTables
<1>4. script = "busybox" => "initramfs_dir" \in PV!ToSet(PV!Tests[script])
  BY <1>1, PVTables, PVBusybox
<1> QED
  BY <1>1, <1>2, <1>3, <1>4, <1>5 DEF PVInv, PVWhole

LEMMA PVIdle == PVInv /\ UNCHANGED provisionVars => PVInv'
<1> SUFFICES ASSUME PVInv, UNCHANGED provisionVars PROVE PVInv'
  OBVIOUS
<1>1. /\ script' = script /\ step' = step /\ test' = test /\ files' = files /\ accident' = accident
      /\ torn' = torn
  BY DEF provisionVars
<1> QED
  BY <1>1 DEF PVInv, PVType, PVPlace, PVPassed, PVTorn, PVWhole, Tested

PVNames == PV!ToSet(PV!Tests[script]) \cup PV!Others[script]
PVFiles == [PVNames -> {"absent", "half", "whole"}]
PVUnbroken(fs) ==
  /\ \A n \in 1..Len(PV!Tests[script]) : fs[Tested(n)] # "half"
  /\ script = "busybox" /\ fs["initramfs_dir"] # "absent" => fs["initrd"] = "whole"

(* A run ends, or goes on to the next test. *)
LEMMA PVEnds ==
  ASSUME PVInv, PV!End, files' \in PVFiles, \A f \in torn : files'[f] = "half",
         accident' \in BOOLEAN, ~accident' => PVUnbroken(files')
  PROVE  PVInv'
<1>1. /\ step' = "idle" /\ test' = 1 /\ script' = script
      /\ torn' = torn \cup {f \in PV!ToSet(PV!Tests[script]) : files'[f] = "half"}
  BY DEF PV!End
<1>2. script \in DOMAIN PV!Tests /\ torn \subseteq PV!ToSet(PV!Tests[script])
  BY DEF PVInv, PVType, PVTorn
<1>3. PVType'
  BY <1>1, <1>2, PVTables DEF PVType, PVFiles, PVNames
<1>4. PVPlace' /\ PVPassed'
  BY <1>1 DEF PVPlace, PVPassed, Making, Packing
<1>5. PVTorn'
  BY <1>1, <1>2 DEF PVTorn, Making
<1>6. ~accident' => PVWhole'
  BY <1>1 DEF PVWhole, PVUnbroken, Tested
<1> QED
  BY <1>3, <1>4, <1>5, <1>6 DEF PVInv

LEMMA PVPasses ==
  ASSUME PVInv, step' = "test", test' = test + 1, UNCHANGED <<script, torn>>, test <= Len(PV!Tests[script]),
         files' \in PVFiles, \A f \in torn : files'[f] = "half",
         \A n \in 1..test : Tested(n) = ".config" \/ files'[Tested(n)] # "absent",
         accident' \in BOOLEAN, ~accident' => PVUnbroken(files')
  PROVE  PVInv'
<1>1. script \in DOMAIN PV!Tests /\ torn \subseteq PV!ToSet(PV!Tests[script]) /\ test \in 1..Len(PV!Tests[script]) + 1
  BY DEF PVInv, PVType, PVTorn
<1>2. Len(PV!Tests[script]) \in Nat
  BY <1>1, PVTables
<1>3. PVType'
  BY <1>1, <1>2 DEF PVType, PVFiles, PVNames
<1>4. PVPlace' /\ PVPassed'
  BY <1>1, <1>2 DEF PVPlace, PVPassed, Making, Packing, Tested
<1>5. PVTorn'
  BY <1>1 DEF PVTorn, Making
<1>6. ~accident' => PVWhole'
  BY DEF PVWhole, PVUnbroken, Tested
<1> QED
  BY <1>3, <1>4, <1>5, <1>6 DEF PVInv

(* It goes to another step with the same files. *)
LEMMA PVGoes ==
  ASSUME PVInv, NEW s \in Making \cup {"options", "test", "partition", "boot", "symbols"}, PV!Then(s),
         UNCHANGED files, PVPlace', step \notin {"produce", "cp"},
         step \in Making \/ s \notin Making \/ Tested(test) \notin torn,
         ~accident => (s \notin {"mkdir", "cp", "cpio"} \/ files["_install"] = "whole"),
         step \in {"cp", "cpio"} => s \in {"cp", "cpio"}
  PROVE  PVInv'
<1>1. /\ step' = s /\ script' = script /\ test' = test /\ accident' = accident /\ torn' = torn
      /\ files' = files
  BY DEF PV!Then
<1>2. PVType' /\ PVPassed'
  BY <1>1 DEF PVInv, PVType, PVPassed, Tested
<1>3. PVTorn'
  BY <1>1 DEF PVInv, PVTorn, Tested
<1>4. ~accident => PVWhole'
  BY <1>1 DEF PVInv, PVWhole, Tested
<1> QED
  BY <1>1, <1>2, <1>3, <1>4 DEF PVInv

LEMMA PVSets ==
  ASSUME PVInv, NEW f \in PVNames, NEW is \in {"absent", "half", "whole"}, PV!Set(f, is)
  PROVE  /\ files' \in PVFiles
         /\ files'[f] = is
         /\ \A g \in PVNames : g # f => files'[g] = files[g]
<1>1. files \in PVFiles
  BY DEF PVInv, PVType, PVFiles, PVNames
<1> QED
  BY <1>1 DEF PV!Set, PVFiles

(* What is known of the file that is tested, and of a state in which no    *)
(* file is being made.                                                     *)
LEMMA PVFacts ==
  ASSUME PVInv
  PROVE  /\ script \in DOMAIN PV!Tests /\ files \in PVFiles /\ accident \in BOOLEAN
         /\ \A f \in torn : files[f] = "half"
         /\ torn \subseteq PV!ToSet(PV!Tests[script])
         /\ test \in 1..Len(PV!Tests[script]) + 1 /\ Len(PV!Tests[script]) \in Nat \ {0}
         /\ test <= Len(PV!Tests[script]) => Tested(test) \in PV!ToSet(PV!Tests[script])
         /\ ~accident /\ step \notin {"produce", "cp", "cpio"} => PVUnbroken(files)
<1>1. /\ script \in DOMAIN PV!Tests /\ files \in PVFiles /\ accident \in BOOLEAN
      /\ test \in 1..Len(PV!Tests[script]) + 1
  BY DEF PVInv, PVType, PVFiles, PVNames
<1>2. /\ Len(PV!Tests[script]) \in Nat \ {0}
      /\ test <= Len(PV!Tests[script]) => Tested(test) \in PV!ToSet(PV!Tests[script])
  BY <1>1, PVTables
<1>3. ~accident /\ step \notin {"produce", "cp", "cpio"} => PVUnbroken(files)
  BY DEF PVInv, PVWhole, PVUnbroken
<1>4. (\A f \in torn : files[f] = "half") /\ torn \subseteq PV!ToSet(PV!Tests[script])
  BY DEF PVInv, PVTorn
<1> QED
  BY <1>1, <1>2, <1>3, <1>4

LEMMA PVBegins ==
  ASSUME PVInv, step \in {"test", "sure"}, test <= Len(PV!Tests[script]),
         files[Tested(test)] = "absent", PV!Begin(Tested(test))
  PROVE  PVInv'
<1> USE PVFacts
<1>1. Tested(test) \notin torn
  OBVIOUS
<1>2. CASE Tested(test) = ".config"
  <2>1. PV!Then("menuconfig") /\ UNCHANGED files
    BY <1>2 DEF PV!Begin
  <2>2. PVPlace'
    BY <1>2, <2>1 DEF PV!Then, PVPlace, Making, Packing, Tested
  <2> QED
    BY <1>1, <2>1, <2>2, PVGoes DEF Making
<1>3. CASE Tested(test) = "initramfs_dir"
  <2>1. PV!Then("make") /\ UNCHANGED files
    BY <1>3 DEF PV!Begin
  <2>2. PVPlace'
    BY <1>3, <2>1 DEF PV!Then, PVPlace, Making, Packing, Tested
  <2> QED
    BY <1>1, <2>1, <2>2, PVGoes DEF Making
<1>4. CASE Tested(test) \notin {".config", "initramfs_dir"}
  <2>1. PV!Set(Tested(test), "half") /\ PV!Then("produce")
    BY <1>4 DEF PV!Begin
  <2>2. step' = "produce" /\ script' = script /\ test' = test /\ accident' = accident /\ torn' = torn
    BY <2>1 DEF PV!Then
  <2>3. Tested(test) \in PVNames
    BY DEF PVNames
  <2>4. /\ files' \in PVFiles /\ files'[Tested(test)] = "half"
        /\ \A g \in PVNames : g # Tested(test) => files'[g] = files[g]
    BY <2>1, <2>3, PVSets
  <2>5. PVType' /\ PVPlace'
    BY <1>4, <2>2, <2>4 DEF PVType, PVPlace, PVFiles, PVNames, Making, Packing, Tested
  <2>6. \A n \in 1..Len(PV!Tests[script]) : Tested(n) \in PVNames /\ (Tested(n) = Tested(test) => n = test)
    BY PVTables DEF PVNames
  <2>7. PVPassed'
    <3>1. PVPassed
      BY DEF PVInv
    <3> QED
      BY <2>2, <2>4, <2>6, <3>1 DEF PVPassed, Tested
  <2>8. PVTorn'
    BY <1>1, <2>2, <2>4 DEF PVTorn, PVNames, Tested
  <2>9. ~accident => PVWhole'
    <3>1. ~accident => PVUnbroken(files)
      OBVIOUS
    <3>2. script = "busybox" => "initramfs_dir" \in PVNames /\ "initrd" \in PVNames
      BY PVBusybox DEF PVNames
    <3>3. Tested(test) # "initrd"
      BY PVBusybox, PVOnlyBusybox
    <3> QED
      BY <1>4, <2>2, <2>4, <2>6, <3>1, <3>2, <3>3 DEF PVWhole, PVUnbroken, Tested
  <2> QED
    BY <2>2, <2>5, <2>7, <2>8, <2>9 DEF PVInv
<1> QED
  BY <1>2, <1>3, <1>4

LEMMA PVTests ==
  ASSUME PVInv, PV!Run \/ PV!CutShort \/ PV!Options \/ PV!Test \/ PV!Sure PROVE PVInv'
<1> USE PVFacts
<1>0. PV!Tested = Tested(test)
  BY DEF PV!Tested, Tested
<1>1. CASE PV!Run
  <2>1. PICK s \in {"options", "test"} : PV!Then(s)
    BY <1>1 DEF PV!Run
  <2>2. step = "idle" /\ UNCHANGED files
    BY <1>1 DEF PV!Run
  <2>3. PVPlace'
    BY <2>1, <2>2 DEF PV!Then, PVInv, PVPlace, Making, Packing
  <2> QED
    BY <2>1, <2>2, <2>3, PVGoes DEF Making
<1>2. CASE PV!CutShort
  BY <1>2, PVEnds DEF PV!CutShort
<1>3. CASE PV!Options
  <2>1. step = "options" /\ UNCHANGED files
    BY <1>3 DEF PV!Options
  <2>2. CASE PV!Exit
    BY <2>1, <2>2, PVEnds DEF PV!Exit
  <2>3. CASE PV!Then("test")
    <3>1. PVPlace'
      BY <2>1, <2>3 DEF PV!Then, PVPlace, Making, Packing
    <3> QED
      BY <2>1, <2>3, <3>1, PVGoes DEF Making
  <2> QED
    BY <1>3, <2>2, <2>3 DEF PV!Options
<1>4. CASE PV!Test
  <2>1. step = "test" /\ test <= Len(PV!Tests[script])
    BY <1>4 DEF PV!Test
  <2>2. CASE PV!IsThere(Tested(test))
    <3>1. PV!NextTest /\ UNCHANGED files
      BY <1>0, <1>4, <2>2 DEF PV!Test
    <3>2. \A n \in 1..test : Tested(n) = ".config" \/ files[Tested(n)] # "absent"
      BY <2>2 DEF PVInv, PVPassed, PV!IsThere
    <3> QED
      BY <2>1, <3>1, <3>2, PVPasses DEF PV!NextTest
  <2>3. CASE ~PV!IsThere(Tested(test))
    <3>1. files[Tested(test)] = "absent"
      BY <2>3 DEF PV!IsThere
    <3>2. CASE PV!Then("sure") /\ UNCHANGED files /\ (script = "alpine" \/ Tested(test) = ".config")
      <4>1. Tested(test) # "initramfs_dir"
        BY <2>1, <3>2, PVOnlyBusybox
      <4>2. PVPlace'
        BY <2>1, <3>1, <3>2, <4>1 DEF PV!Then, PVPlace, Making, Packing, Tested
      <4>3. Tested(test) \notin torn
        BY <3>1
      <4> QED
        BY <2>1, <3>2, <4>2, <4>3, PVGoes DEF Making
    <3>3. CASE PV!Begin(Tested(test))
      BY <2>1, <3>1, <3>3, PVBegins
    <3> QED
      BY <1>0, <1>4, <2>3, <3>2, <3>3 DEF PV!Test
  <2> QED
    BY <2>2, <2>3
<1>5. CASE PV!Sure
  <2>1. step = "sure" /\ test <= Len(PV!Tests[script]) /\ files[Tested(test)] = "absent"
    BY <1>5 DEF PV!Sure, PVInv, PVPlace, Making
  <2>2. CASE PV!Begin(Tested(test))
    BY <2>1, <2>2, PVBegins
  <2>3. CASE UNCHANGED files /\ PV!Exit
    BY <2>1, <2>3, PVEnds DEF PV!Exit
  <2> QED
    BY <1>0, <1>5, <2>2, <2>3 DEF PV!Sure
<1> QED
  BY <1>1, <1>2, <1>3, <1>4, <1>5

LEMMA PVProduces == ASSUME PVInv, PV!Produce PROVE PVInv'
<1> USE PVFacts
<1>0. PV!Tested = Tested(test)
  BY DEF PV!Tested, Tested
<1>1. /\ step = "produce" /\ test <= Len(PV!Tests[script]) /\ PV!Set(Tested(test), "whole")
      /\ Tested(test) \notin torn /\ Tested(test) \notin {".config", "initramfs_dir"}
      /\ PV!Exit \/ PV!NextTest
  BY <1>0 DEF PV!Produce, PVInv, PVPlace, PVTorn, Making
<1>2. Tested(test) \in PVNames
  BY <1>1 DEF PVNames
<1>3. /\ files' \in PVFiles /\ files'[Tested(test)] = "whole"
      /\ \A g \in PVNames : g # Tested(test) => files'[g] = files[g]
  BY <1>1, <1>2, PVSets
<1>4. \A n \in 1..Len(PV!Tests[script]) : Tested(n) \in PVNames /\ (Tested(n) = Tested(test) => n = test)
  BY <1>1, PVTables DEF PVNames
<1>5. \A f \in torn : files'[f] = "half"
  BY <1>1, <1>3 DEF PVNames
<1>6. ~accident => PVUnbroken(files')
  <2>1. ~accident => PVWhole
    BY DEF PVInv
  <2>2. script = "busybox" => "initramfs_dir" \in PVNames /\ "initrd" \in PVNames
    BY PVBusybox DEF PVNames
  <2>3. Tested(test) # "initrd"
    BY <1>1, PVBusybox, PVOnlyBusybox
  <2> QED
    BY <1>1, <1>3, <1>4, <2>1, <2>2, <2>3 DEF PVWhole, PVUnbroken
<1>7. CASE PV!Exit
  BY <1>3, <1>5, <1>6, <1>7, PVEnds DEF PV!Exit
<1>8. CASE PV!NextTest
  <2>1. \A n \in 1..test : Tested(n) = ".config" \/ files'[Tested(n)] # "absent"
    BY <1>1, <1>3, <1>4 DEF PVInv, PVPassed
  <2> QED
    BY <1>1, <1>3, <1>5, <1>6, <1>8, <2>1, PVPasses DEF PV!NextTest
<1> QED
  BY <1>1, <1>7, <1>8

(* What only busybox.sh does. *)
LEMMA PVPacks ==
  ASSUME PVInv, PV!Menuconfig \/ PV!Compile \/ PV!Install \/ PV!Copy \/ PV!Archive PROVE PVInv'
<1> USE PVFacts
<1>1. /\ step \in {"menuconfig", "make", "install", "mkdir", "cp", "cpio"} /\ test <= Len(PV!Tests[script])
      /\ Tested(test) \notin torn
      /\ IF step = "menuconfig" THEN Tested(test) = ".config" ELSE Tested(test) = "initramfs_dir"
  BY DEF PV!Menuconfig, PV!Compile, PV!Install, PV!Copy, PV!Archive, PVInv, PVPlace, PVTorn, Making, Packing
<1>2. script = "busybox"
  BY <1>1, PVOnlyBusybox
<1>3. /\ PVNames = {"busybox_img", "build_dir", ".config", "initramfs_dir", "_install", "initrd"}
      /\ torn \subseteq {"busybox_img", "build_dir", ".config", "initramfs_dir"}
      /\ Len(PV!Tests[script]) = 4
      /\ Tested(1) = "busybox_img" /\ Tested(2) = "build_dir" /\ Tested(3) = ".config" /\ Tested(4) = "initramfs_dir"
  BY <1>2, PVBusybox DEF PVNames
<1>4. test = IF step = "menuconfig" THEN 3 ELSE 4
  BY <1>1, <1>3
<1>5. /\ ~accident => PVWhole
      /\ PVPlace /\ PVPassed
  BY DEF PVInv
<1>6. CASE PV!Menuconfig
  <2>1. PICK is \in {"absent", "whole"} : PV!Set(".config", is)
    BY <1>6 DEF PV!Menuconfig
  <2>2. (step = "menuconfig" /\ PV!NextTest) \/ PV!Exit
    BY <1>6 DEF PV!Menuconfig
  <2>3. step = "menuconfig"
    BY <1>6 DEF PV!Menuconfig
  <2>4. /\ files' \in PVFiles /\ files'[".config"] = is
        /\ \A g \in PVNames : g # ".config" => files'[g] = files[g]
    BY <1>3, <2>1, PVSets
  <2>5. \A f \in torn : files'[f] = "half"
    BY <1>1, <1>3, <1>4, <2>3, <2>4
  <2>6. ~accident => PVUnbroken(files')
    <3>1. ASSUME NEW n \in 1..4, ~accident PROVE files'[Tested(n)] # "half"
      BY <1>3, <2>3, <2>4, <3>1 DEF PVUnbroken
    <3> QED
      BY <1>3, <2>3, <2>4, <3>1 DEF PVUnbroken
  <2>7. CASE PV!NextTest
    <3>1. ASSUME NEW n \in 1..test PROVE Tested(n) = ".config" \/ files'[Tested(n)] # "absent"
      BY <1>3, <1>4, <1>5, <2>3, <2>4 DEF PVPassed
    <3> QED
      BY <1>1, <2>4, <2>5, <2>6, <2>7, <3>1, PVPasses DEF PV!NextTest
  <2>8. CASE PV!Exit
    BY <2>4, <2>5, <2>6, <2>8, PVEnds DEF PV!Exit
  <2> QED
    BY <2>2, <2>7, <2>8
<1>7. CASE PV!Compile
  <2>1. step = "make" /\ script' = script /\ test' = test /\ torn' = torn
    BY <1>7 DEF PV!Compile, PV!Then
  <2>2. files["initramfs_dir"] = "absent"
    BY <1>5, <2>1 DEF PVPlace
  <2>3. CASE PV!Then("install") /\ \E is \in {"half", "whole"} : PV!Set("_install", is)
    <3>1. PICK is \in {"half", "whole"} : PV!Set("_install", is)
      BY <2>3
    <3>2. /\ files' \in PVFiles /\ \A g \in PVNames : g # "_install" => files'[g] = files[g]
      BY <1>3, <3>1, PVSets
    <3>3. step' = "install" /\ accident' = accident
      BY <2>3 DEF PV!Then
    <3>4. PVType' /\ PVPlace'
      BY <1>1, <1>3, <1>4, <2>1, <2>2, <3>2, <3>3 DEF PVType, PVPlace, PVFiles, PVNames, Making, Packing, Tested
    <3>5. PVPassed' /\ PVTorn'
      <4>1. ASSUME NEW n \in 1..3 PROVE Tested(n) = ".config" \/ files'[Tested(n)] # "absent"
        BY <1>3, <1>4, <1>5, <2>1, <3>2 DEF PVPassed
      <4>2. \A f \in torn : files'[f] = "half"
        BY <1>3, <3>2
      <4> QED
        BY <1>1, <1>4, <2>1, <4>1, <4>2 DEF PVPassed, PVTorn, Tested
    <3>6. ~accident => PVWhole'
      <4>1. ASSUME NEW n \in 1..4, ~accident PROVE files'[Tested(n)] # "half"
        BY <1>3, <2>1, <3>2, <4>1 DEF PVUnbroken
      <4> QED
        BY <1>3, <2>1, <2>2, <3>2, <3>3, <4>1 DEF PVWhole, Tested
    <3> QED
      BY <3>3, <3>4, <3>5, <3>6 DEF PVInv
  <2>4. CASE step' = "mkdir" /\ accident' = TRUE /\ UNCHANGED files
    <3>1. PVType' /\ PVPlace'
      BY <1>1, <2>1, <2>2, <2>4 DEF PVInv, PVType, PVPlace, Making, Packing, Tested
    <3>2. PVPassed' /\ PVTorn'
      BY <1>1, <1>5, <2>1, <2>4 DEF PVPassed, PVTorn, Tested
    <3> QED
      BY <2>4, <3>1, <3>2 DEF PVInv
  <2> QED
    BY <1>7, <2>3, <2>4 DEF PV!Compile
<1>8. CASE PV!Install
  <2>1. /\ step = "install" /\ step' = "mkdir" /\ script' = script /\ test' = test /\ torn' = torn
        /\ accident' = accident /\ PV!Set("_install", "whole")
    BY <1>8 DEF PV!Install, PV!Then
  <2>2. files["initramfs_dir"] = "absent"
    BY <1>5, <2>1 DEF PVPlace
  <2>3. /\ files' \in PVFiles /\ files'["_install"] = "whole"
        /\ \A g \in PVNames : g # "_install" => files'[g] = files[g]
    BY <1>3, <2>1, PVSets
  <2>4. PVType' /\ PVPlace'
    BY <1>1, <1>3, <1>4, <2>1, <2>2, <2>3 DEF PVType, PVPlace, PVFiles, PVNames, Making, Packing, Tested
  <2>5. PVPassed' /\ PVTorn'
    <3>1. ASSUME NEW n \in 1..3 PROVE Tested(n) = ".config" \/ files'[Tested(n)] # "absent"
      BY <1>3, <1>4, <1>5, <2>1, <2>3 DEF PVPassed
    <3>2. \A f \in torn : files'[f] = "half"
      BY <1>3, <2>3
    <3> QED
      BY <1>1, <1>4, <2>1, <3>1, <3>2 DEF PVPassed, PVTorn, Tested
  <2>6. ~accident => PVWhole'
    <3>1. ASSUME NEW n \in 1..4, ~accident PROVE files'[Tested(n)] # "half"
      BY <1>3, <2>1, <2>3, <3>1 DEF PVUnbroken
    <3> QED
      BY <1>3, <2>1, <2>2, <2>3, <3>1 DEF PVWhole, Tested
  <2> QED
    BY <2>1, <2>4, <2>5, <2>6 DEF PVInv
<1>9. CASE PV!Copy
  <2>1. /\ step \in {"mkdir", "cp"} /\ script' = script /\ test' = test /\ torn' = torn /\ accident' = accident
    BY <1>9 DEF PV!Copy, PV!Then
  <2>2. CASE step = "mkdir" /\ PV!Set("initramfs_dir", "half") /\ step' = "cp"
    <3>1. /\ files' \in PVFiles /\ files'["initramfs_dir"] = "half"
          /\ \A g \in PVNames : g # "initramfs_dir" => files'[g] = files[g]
      BY <1>3, <2>2, PVSets
    <3>2. PVType' /\ PVPlace'
      BY <1>1, <1>3, <1>4, <2>1, <2>2, <3>1 DEF PVType, PVPlace, PVFiles, PVNames, Making, Packing, Tested
    <3>3. PVPassed' /\ PVTorn'
      <4>1. ASSUME NEW n \in 1..3 PROVE Tested(n) = ".config" \/ files'[Tested(n)] # "absent"
        BY <1>3, <1>4, <1>5, <2>1, <2>2, <3>1 DEF PVPassed
      <4>2. \A f \in torn : files'[f] = "half"
        BY <1>1, <1>3, <1>4, <2>2, <3>1
      <4> QED
        BY <1>1, <1>4, <2>1, <2>2, <4>1, <4>2 DEF PVPassed, PVTorn, Tested
    <3>4. ~accident => PVWhole'
      <4>1. ASSUME NEW n \in 1..3, ~accident PROVE files'[Tested(n)] # "half"
        BY <1>3, <2>1, <2>2, <3>1, <4>1 DEF PVUnbroken
      <4>2. ~accident => files'["_install"] = "whole"
        BY <1>3, <1>5, <2>2, <3>1 DEF PVWhole
      <4>3. \A n \in 1..4 : n \in 1..3 \/ n = 4
        OBVIOUS
      <4>4. \A n \in 1..4 : ~accident /\ files'[Tested(n)] = "half" => Tested(n) = "initramfs_dir"
        BY <1>3, <4>1, <4>3
      <4> QED
        BY <1>3, <2>1, <2>2, <4>2, <4>4 DEF PVWhole, Tested
    <3> QED
      BY <2>1, <3>2, <3>3, <3>4 DEF PVInv
  <2>3. CASE /\ step = "cp" /\ files["_install"] # "absent" /\ step' = "cpio"
             /\ files' = [files EXCEPT !["initramfs_dir"] = files["_install"], !["initrd"] = "half"]
    <3>0. step = "cp" /\ files["_install"] # "absent" /\ step' = "cpio"
      BY <2>3
    <3>1. /\ files' \in PVFiles /\ files'["initramfs_dir"] = files["_install"]
          /\ \A g \in {"busybox_img", "build_dir", ".config", "_install"} : files'[g] = files[g]
      BY <1>3, <2>3 DEF PVFiles
    <3>2. PVType' /\ PVPlace'
      BY <1>1, <1>3, <1>4, <2>1, <3>0, <3>1 DEF PVType, PVPlace, PVFiles, PVNames, Making, Packing, Tested
    <3>3. PVPassed' /\ PVTorn'
      <4>1. ASSUME NEW n \in 1..3 PROVE Tested(n) = ".config" \/ files'[Tested(n)] # "absent"
        BY <1>3, <1>4, <1>5, <2>1, <3>0, <3>1 DEF PVPassed
      <4>2. \A f \in torn : files'[f] = "half"
        BY <1>1, <1>3, <1>4, <3>0, <3>1
      <4> QED
        BY <1>1, <1>4, <2>1, <3>0, <4>1, <4>2 DEF PVPassed, PVTorn, Tested
    <3>4. ~accident => PVWhole'
      <4>1. ~accident => files["_install"] = "whole"
        BY <1>5, <3>0 DEF PVWhole
      <4>2. ASSUME NEW n \in 1..4, ~accident PROVE files'[Tested(n)] # "half"
        BY <1>3, <1>5, <2>1, <3>0, <3>1, <4>1, <4>2 DEF PVWhole
      <4> QED
        BY <1>3, <2>1, <3>0, <3>1, <4>1, <4>2 DEF PVWhole, Tested
    <3> QED
      BY <2>1, <3>2, <3>3, <3>4 DEF PVInv
  <2> QED
    BY <1>9, <2>2, <2>3 DEF PV!Copy, PV!Then, PV!IsThere
<1>10. CASE PV!Archive
  <2>1. /\ step = "cpio" /\ step' = "test" /\ test' = test + 1 /\ UNCHANGED <<script, torn>>
    BY <1>10 DEF PV!Archive, PV!NextTest
  <2>2. \A n \in 1..4 : Tested(n) = ".config" \/ files[Tested(n)] # "absent"
    <3>1. \A n \in 1..3 : Tested(n) = ".config" \/ files[Tested(n)] # "absent"
      BY <1>4, <1>5, <2>1 DEF PVPassed
    <3>2. files[Tested(4)] # "absent"
      BY <1>3, <1>5, <2>1 DEF PVPlace
    <3>3. \A n \in 1..4 : n \in 1..3 \/ n = 4
      OBVIOUS
    <3> QED
      BY <3>1, <3>2, <3>3
  <2>3. CASE PV!Set("initrd", files["initramfs_dir"]) /\ accident' = accident
    <3>1. files["initramfs_dir"] \in {"absent", "half", "whole"}
      BY <1>3 DEF PVFiles
    <3>2. /\ files' \in PVFiles /\ files'["initrd"] = files["initramfs_dir"]
          /\ \A g \in PVNames : g # "initrd" => files'[g] = files[g]
      BY <1>3, <2>3, <3>1, PVSets
    <3>3. \A n \in 1..test : Tested(n) = ".config" \/ files'[Tested(n)] # "absent"
      BY <1>3, <1>4, <2>1, <2>2, <3>2
    <3>4. \A f \in torn : files'[f] = "half"
      BY <1>3, <3>2
    <3>5. ~accident => PVUnbroken(files')
      <4>1. ASSUME NEW n \in 1..4, ~accident PROVE files'[Tested(n)] # "half"
        BY <1>3, <1>5, <2>1, <3>2, <4>1 DEF PVWhole
      <4>2. ~accident => files["initramfs_dir"] # "half"
        BY <1>3, <1>5, <2>1 DEF PVWhole
      <4>3. files["initramfs_dir"] # "absent"
        BY <1>5, <2>1 DEF PVPlace
      <4> QED
        BY <1>3, <3>1, <3>2, <4>1, <4>2, <4>3 DEF PVUnbroken
    <3> QED
      BY <1>1, <2>1, <2>3, <3>2, <3>3, <3>4, <3>5, PVPasses
  <2>4. CASE UNCHANGED files /\ accident' = TRUE
    BY <1>1, <1>3, <1>4, <2>1, <2>2, <2>4, PVPasses
  <2> QED
    BY <1>10, <2>3, <2>4 DEF PV!Archive, PV!NextTest
<1> QED
  BY <1>6, <1>7, <1>8, <1>9, <1>10

(* What only uefi.sh writes, it does not test for. *)
LEMMA PVWrites ==
  ASSUME PVInv, script = "uefi", NEW f \in {"PART_IMG", "OVMF_LOG", "GDB_SCRIPT"},
         NEW is \in {"absent", "half", "whole"}, PV!Set(f, is)
  PROVE  /\ files' \in PVFiles /\ files'[f] = is
         /\ \A g \in torn : files'[g] = "half"
         /\ \A n \in 1..Len(PV!Tests[script]) : Tested(n) # f /\ files'[Tested(n)] = files[Tested(n)]
         /\ ~accident /\ step # "produce" => PVUnbroken(files')
<1>1. PV!Tests[script] = <<"DISK_IMG">> /\ PV!ToSet(PV!Tests[script]) = {"DISK_IMG"}
  BY DEF PV!Tests, PV!ToSet
<1>2. PVNames = {"DISK_IMG", "PART_IMG", "OVMF_LOG", "GDB_SCRIPT"}
  BY <1>1 DEF PVNames, PV!Others
<1>3. /\ files' \in PVFiles /\ files'[f] = is
      /\ \A g \in PVNames : g # f => files'[g] = files[g]
  BY <1>2, PVSets
<1>4. \A n \in 1..Len(PV!Tests[script]) : Tested(n) = "DISK_IMG"
  BY <1>1 DEF Tested
<1>5. \A g \in torn : files'[g] = "half"
  BY <1>1, <1>2, <1>3, PVFacts
<1>6. ~accident /\ step # "produce" => PVUnbroken(files')
  <2>1. ~accident /\ step # "produce" => \A n \in 1..Len(PV!Tests[script]) : files[Tested(n)] # "half"
    BY <1>4 DEF PVInv, PVWhole
  <2> QED
    BY <1>2, <1>3, <1>4, <2>1 DEF PVUnbroken
<1> QED
  BY <1>2, <1>3, <1>4, <1>5, <1>6

LEMMA PVStarts ==
  ASSUME PVInv, PV!Partition \/ PV!GenSymbolOffsets \/ PV!Ready \/ PV!Boot PROVE PVInv'
<1> USE PVFacts
<1>0. PVPlace /\ PVPassed
  BY DEF PVInv
<1>1. ASSUME script = "uefi", PV!Then(step'), step \notin Making,
             NEW f \in {"PART_IMG", "GDB_SCRIPT"}, NEW is \in {"half", "whole"}, PV!Set(f, is),
             \/ step' = "partition" /\ test > 1
             \/ step' = "boot" /\ test > 1 /\ f = "PART_IMG" /\ is = "whole"
             \/ step' = "symbols" /\ test = 1
      PROVE  PVInv'
  <2>1. script' = script /\ test' = test /\ accident' = accident /\ torn' = torn
    BY <1>1 DEF PV!Then
  <2>2. /\ files' \in PVFiles /\ files'[f] = is
        /\ \A g \in torn : files'[g] = "half"
        /\ \A n \in 1..Len(PV!Tests[script]) : files'[Tested(n)] = files[Tested(n)]
        /\ ~accident /\ step # "produce" => PVUnbroken(files')
    BY <1>1, PVWrites
  <2>3. PVType'
    BY <1>1, <2>1, <2>2 DEF PVType, PVFiles, PVNames
  <2>4. PVPlace'
    BY <1>1, <2>1, <2>2 DEF PVPlace, Making, Packing
  <2>5. PVPassed' /\ PVTorn'
    BY <1>0, <1>1, <2>1, <2>2 DEF PVPassed, PVTorn, Making, Tested
  <2>6. ~accident => PVWhole'
    BY <1>1, <2>1, <2>2 DEF PVWhole, PVUnbroken, Making, Tested
  <2> QED
    BY <2>1, <2>3, <2>4, <2>5, <2>6 DEF PVInv
<1>2. CASE PV!Partition
  <2>1. CASE step = "test" /\ test > 1 /\ PV!Then("partition") /\ PV!Set("PART_IMG", "half")
    <3>1. step' = "partition" /\ PV!Then(step') /\ script = "uefi"
      BY <1>2, <2>1 DEF PV!Then, PV!Partition
    <3> QED
      BY <1>1, <2>1, <3>1 DEF Making
  <2>2. CASE step = "partition" /\ PV!Set("PART_IMG", "whole") /\ PV!Then("boot")
    <3>1. step' = "boot" /\ PV!Then(step') /\ script = "uefi" /\ test > 1
      BY <1>0, <1>2, <2>2 DEF PV!Then, PV!Partition, PVPlace
    <3> QED
      BY <1>1, <2>2, <3>1 DEF Making
  <2> QED
    BY <1>2, <2>1, <2>2 DEF PV!Partition
<1>3. CASE PV!GenSymbolOffsets
  <2>1. CASE step = "options" /\ script = "uefi" /\ PV!Set("GDB_SCRIPT", "half") /\ PV!Then("symbols")
    <3>1. step' = "symbols" /\ PV!Then(step') /\ test = 1
      BY <1>0, <2>1 DEF PV!Then, PVPlace
    <3> QED
      BY <1>1, <2>1, <3>1 DEF Making
  <2>2. CASE step = "symbols" /\ PV!Set("GDB_SCRIPT", "whole") /\ PV!Exit
    <3>1. script = "uefi"
      BY <1>0, <2>2 DEF PVPlace
    <3>2. /\ files' \in PVFiles /\ \A g \in torn : files'[g] = "half"
          /\ ~accident => PVUnbroken(files')
      BY <2>2, <3>1, PVWrites
    <3> QED
      BY <2>2, <3>2, PVEnds DEF PV!Exit
  <2> QED
    BY <1>3, <2>1, <2>2 DEF PV!GenSymbolOffsets
<1>4. CASE PV!Ready
  <2>1. step = "test" /\ test > Len(PV!Tests[script]) /\ script # "uefi" /\ UNCHANGED files
    BY <1>4 DEF PV!Ready
  <2>2. CASE PV!Then("boot")
    <3>1. PVPlace'
      BY <2>1, <2>2 DEF PV!Then, PVPlace, Making, Packing
    <3> QED
      BY <2>1, <2>2, <3>1, PVGoes DEF Making
  <2>3. CASE PV!Exit
    BY <2>1, <2>3, PVEnds DEF PV!Exit
  <2> QED
    BY <1>4, <2>2, <2>3 DEF PV!Ready
<1>5. CASE PV!Boot
  <2>1. step = "boot" /\ PV!Exit
    BY <1>5 DEF PV!Boot
  <2>2. CASE UNCHANGED files
    BY <2>1, <2>2, PVEnds DEF PV!Exit
  <2>3. CASE script = "uefi" /\ PV!Set("OVMF_LOG", "whole")
    <3>1. /\ files' \in PVFiles /\ \A g \in torn : files'[g] = "half"
          /\ ~accident => PVUnbroken(files')
      BY <2>1, <2>3, PVWrites
    <3> QED
      BY <2>1, <3>1, PVEnds DEF PV!Exit
  <2> QED
    BY <1>5, <2>2, <2>3 DEF PV!Boot
<1> QED
  BY <1>2, <1>3, <1>4, <1>5

LEMMA PVClears == ASSUME PVInv, NEW f \in PV!ToSet(PV!Tests[script]), PV!Clear(f) PROVE PVInv'
<1> USE PVFacts
<1> DEFINE gone == IF f = "build_dir" THEN {f, ".config", "initramfs_dir"} \cup PV!Others[script] ELSE {f}
<1>1. /\ step = "idle" /\ UNCHANGED <<script, step, test>>
      /\ files' = [g \in DOMAIN files |-> IF g \in gone THEN "absent" ELSE files[g]]
      /\ torn' = torn \ gone
      /\ accident' = (accident /\ \E g \in PV!ToSet(PV!Tests[script]) : files'[g] # "absent")
  BY DEF PV!Clear
<1>2. f = "build_dir" => PV!Others[script] = {"_install", "initrd"} /\ script = "busybox"
  BY PVBusybox, PVOnlyBusybox
<1>3. f # "build_dir" => "initrd" \notin gone \/ script # "busybox"
  BY PVBusybox
<1> HIDE DEF gone
<1>4. /\ files' \in PVFiles
      /\ \A g \in PVNames : files'[g] = IF g \in gone THEN "absent" ELSE files[g]
  BY <1>1 DEF PVFiles
<1>5. accident' \in BOOLEAN /\ test = 1
  BY <1>1 DEF PVInv, PVPlace
<1>6. PVType' /\ PVPlace' /\ PVPassed'
  BY <1>1, <1>4, <1>5 DEF PVType, PVPlace, PVPassed, PVFiles, PVNames, Making, Packing
<1>7. PVTorn'
  BY <1>1, <1>4 DEF PVTorn, PVNames, Making
<1>8. ASSUME ~accident' PROVE PVWhole'
  <2>1. CASE ~accident
    <3>1. PVUnbroken(files)
      BY <1>1, <2>1
    <3>2. \A n \in 1..Len(PV!Tests[script]) : Tested(n) \in PVNames
      BY PVTables DEF PVNames
    <3>3. script = "busybox" => "initramfs_dir" \in PVNames /\ "initrd" \in PVNames
      BY PVBusybox DEF PVNames
    <3>4. "initrd" \in gone /\ script = "busybox" => "initramfs_dir" \in gone
      BY <1>3 DEF gone
    <3> QED
      BY <1>1, <1>4, <3>1, <3>2, <3>3, <3>4 DEF PVWhole, PVUnbroken, Tested
  <2>2. CASE \A g \in PV!ToSet(PV!Tests[script]) : files'[g] = "absent"
    <3>1. \A n \in 1..Len(PV!Tests[script]) : files'[Tested(n)] = "absent"
      BY <2>2, PVTables
    <3>2. script = "busybox" => files'["initramfs_dir"] = "absent"
      BY <2>2, PVBusybox
    <3> QED
      BY <1>1, <3>1, <3>2 DEF PVWhole, Tested
  <2> QED
    BY <1>1, <1>8, <2>1, <2>2
<1> QED
  BY <1>6, <1>7, <1>8 DEF PVInv

LEMMA PVStep == PVInv /\ PV!Next => PVInv'
<1> SUFFICES ASSUME PVInv, PV!Next PROVE PVInv'
  OBVIOUS
<1>1. CASE PV!Run \/ PV!CutShort \/ PV!Options \/ PV!Test \/ PV!Sure
  BY <1>1, PVTests
<1>2. CASE PV!Produce
  BY <1>2, PVProduces
<1>3. CASE PV!Menuconfig \/ PV!Compile \/ PV!Install \/ PV!Copy \/ PV!Archive
  BY <1>3, PVPacks
<1>4. CASE PV!Partition \/ PV!GenSymbolOffsets \/ PV!Ready \/ PV!Boot
  BY <1>4, PVStarts
<1>5. CASE \E f \in PV!ToSet(PV!Tests[script]) : PV!Clear(f)
  BY <1>5, PVClears
<1> QED
  BY <1>1, <1>2, <1>3, <1>4, <1>5 DEF PV!Next

LEMMA PVSafe == PVInv => PV!StartsFromWhole /\ PV!HalfMadeStays /\ PV!PartitionFresh
<1> SUFFICES ASSUME PVInv PROVE PV!StartsFromWhole /\ PV!HalfMadeStays /\ PV!PartitionFresh
  OBVIOUS
<1> USE PVFacts
<1>1. PV!HalfMadeStays /\ PV!PartitionFresh
  BY DEF PVInv, PVPlace, PV!HalfMadeStays, PV!PartitionFresh
<1>2. ASSUME step = "boot", ~accident, NEW f \in PV!Needs[script] PROVE files[f] = "whole"
  <2>1. PVUnbroken(files) /\ PVPassed
    BY <1>2 DEF PVInv
  <2>2. CASE script = "busybox"
    <3>1. Len(PV!Tests[script]) = 4 /\ Tested(4) = "initramfs_dir"
      BY <2>2, PVBusybox
    <3>2. test > 4
      BY <1>2, <2>2, <3>1 DEF PVInv, PVPlace
    <3>3. files["initramfs_dir"] # "absent"
      BY <2>1, <3>1, <3>2 DEF PVPassed
    <3>4. f = "initrd"
      BY <1>2, <2>2 DEF PV!Needs
    <3> QED
      BY <2>1, <2>2, <3>3, <3>4 DEF PVUnbroken
  <2>3. ASSUME script # "busybox", NEW n \in 1..Len(PV!Tests[script]), n < test PROVE files[Tested(n)] = "whole"
    <3>1. Tested(n) # ".config" /\ Tested(n) \in PVNames
      BY <2>3, PVTables, PVOnlyBusybox DEF PVNames
    <3>2. files[Tested(n)] # "absent" /\ files[Tested(n)] # "half"
      BY <2>1, <2>3, <3>1 DEF PVPassed, PVUnbroken
    <3> QED
      BY <3>1, <3>2 DEF PVFiles
  <2>4. CASE script = "uefi"
    <3>1. test > 1 /\ files["PART_IMG"] = "whole"
      BY <1>2, <2>4 DEF PVInv, PVPlace
    <3>2. Tested(1) = "DISK_IMG" /\ Len(PV!Tests[script]) = 1
      BY <2>4 DEF Tested, PV!Tests
    <3>3. f \in {"DISK_IMG", "PART_IMG"}
      BY <1>2, <2>4 DEF PV!Needs
    <3> QED
      BY <2>3, <2>4, <3>1, <3>2, <3>3
  <2>5. CASE script \notin {"busybox", "uefi"}
    <3>1. PICK n \in 1..Len(PV!Tests[script]) : f = Tested(n)
      BY <1>2, <2>5, PVTables
    <3>2. test > Len(PV!Tests[script])
      BY <1>2, <2>5 DEF PVInv, PVPlace
    <3> QED
      BY <2>3, <2>5, <3>1, <3>2
  <2> QED
    BY <2>2, <2>4, <2>5
<1> QED
  BY <1>1, <1>2 DEF PV!StartsFromWhole

-----------------------------------------------------------------------------
(* The programs together. Only when the mini C runtime runs does it print  *)
(* or copy.                                                                *)
PInv == /\ runs \in {"strace", "glib", "minicrt", "debugfs", "malloc", "maps", "snake", "scripts"}
        /\ STInv /\ GLInv /\ DFInv /\ MLInv /\ SMInv /\ SNInv /\ PVInv
        /\ runs = "minicrt" => MPInv /\ PFInv

LEMMA Invariant == Spec => []PInv
<1>1. Init => PInv
  BY STInit, GLInit, MPInit, PFInit, DFInit, MLInit, SMInit, SNInit, PVInit DEF Init, PInv
<1>2. PInv /\ [Next]_vars => PInv'
  <2> SUFFICES ASSUME PInv, [Next]_vars PROVE PInv'
    OBVIOUS
  <2>1. runs' = runs
    BY DEF Next, RunsStrace, RunsGlib, RunsMiniCrt, RunsDebugfs, RunsMalloc, RunsMaps, RunsSnake,
           RunsScripts, vars
  <2>2. (runs = "strace" /\ ST!Next) \/ UNCHANGED straceVars
    BY DEF Next, RunsStrace, RunsGlib, RunsMiniCrt, RunsDebugfs, RunsMalloc, RunsMaps, RunsSnake,
           RunsScripts, vars
  <2>3. (runs = "glib" /\ GL!Next) \/ UNCHANGED glibVars
    BY DEF Next, RunsStrace, RunsGlib, RunsMiniCrt, RunsDebugfs, RunsMalloc, RunsMaps, RunsSnake,
           RunsScripts, vars
  <2>4. (runs = "minicrt" /\ MP!Next) \/ UNCHANGED printVars
    BY DEF Next, RunsStrace, RunsGlib, RunsMiniCrt, RunsDebugfs, RunsMalloc, RunsMaps, RunsSnake,
           RunsScripts, vars
  <2>5. (runs = "debugfs" /\ DF!Next) \/ UNCHANGED debugVars
    BY DEF Next, RunsStrace, RunsGlib, RunsMiniCrt, RunsDebugfs, RunsMalloc, RunsMaps, RunsSnake,
           RunsScripts, vars
  <2>6. (runs = "malloc" /\ ML!Next) \/ UNCHANGED mallocVars
    BY DEF Next, RunsStrace, RunsGlib, RunsMiniCrt, RunsDebugfs, RunsMalloc, RunsMaps, RunsSnake,
           RunsScripts, vars
  <2>7. (runs = "maps" /\ SM!Next) \/ UNCHANGED mapsVars
    BY DEF Next, RunsStrace, RunsGlib, RunsMiniCrt, RunsDebugfs, RunsMalloc, RunsMaps, RunsSnake,
           RunsScripts, vars
  <2>8. (runs = "snake" /\ SN!Next) \/ UNCHANGED snakeVars
    BY DEF Next, RunsStrace, RunsGlib, RunsMiniCrt, RunsDebugfs, RunsMalloc, RunsMaps, RunsSnake,
           RunsScripts, vars
  <2>9. (runs = "scripts" /\ PV!Next) \/ UNCHANGED provisionVars
    BY DEF Next, RunsStrace, RunsGlib, RunsMiniCrt, RunsDebugfs, RunsMalloc, RunsMaps, RunsSnake,
           RunsScripts, vars
  <2>10. STInv'
    BY <2>2, STStep, STIdle DEF PInv
  <2>11. GLInv'
    BY <2>3, GLStep, GLIdle DEF PInv
  <2>12. (runs = "minicrt" => MPInv /\ PFInv)'
    BY <2>1, <2>4, MPStep, MPIdle, PFStep, PFIdle DEF PInv
  <2>13. DFInv'
    BY <2>5, DFStep, DFIdle DEF PInv
  <2>14. MLInv'
    BY <2>6, MLStep, MLIdle DEF PInv
  <2>15. SMInv'
    BY <2>7, SMStep, SMIdle DEF PInv
  <2>16. SNInv'
    BY <2>8, SNStep, SNIdle DEF PInv
  <2>17. PVInv'
    BY <2>9, PVStep, PVIdle DEF PInv
  <2> QED
    BY <2>1, <2>10, <2>11, <2>12, <2>13, <2>14, <2>15, <2>16, <2>17 DEF PInv
<1> QED
  BY <1>1, <1>2, PTL DEF Spec

(* Whatever the kernel, the library or the user does: strace misses no end *)
(* of a call, a loop of GLib loses no line, printf writes what its format  *)
(* means, if no number is negative as printf sees it and it has all its    *)
(* conversions, and dies only of a character on the stack, and then always,*)
(* strcpy copies the string up to its NUL and nothing else unless the      *)
(* destination lies in the source, the buffer of the debugfs file is not   *)
(* left, threads share the list of free blocks without losing one, the     *)
(* mappings printed are those of the process, the snake is a way on the    *)
(* board that the board shows, if the terminal shows the board, and never  *)
(* runs through a wall that shows, and no script goes on from a file that  *)
(* is half made.                                                           *)
THEOREM AllSafe == Spec => []Safe
<1>1. PInv => Safe
  BY STSafe, GLSafe, MPSafe, PFSafe, DFSafe, MLSafe, SMSafe, SNSafe, PVSafe DEF PInv, Safe
<1> QED
  BY <1>1, Invariant, PTL
=============================================================================
