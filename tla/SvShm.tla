-------------------------------- MODULE SvShm --------------------------------
(***************************************************************************)
(* The shared-memory handoff of docs/kernel/code/shm: the reader creates a *)
(* segment and a semaphore, tells their ids, waits for the semaphore to    *)
(* become 0 and prints the string; a writer copies its string into the     *)
(* segment and decrements the semaphore. Nothing keeps a second writer     *)
(* away, a system call may fail and a process may be killed.               *)
(***************************************************************************)
EXTENDS Naturals, Sequences

CONSTANTS Writer, reader, Char, NUL,
          Argument,    \* the strings a writer may be given
          MemSize      \* MEM_SIZE

ASSUME ReaderIsNoWriter == reader \notin Writer
ASSUME ArgumentsAreStrings == Argument \subseteq Seq(Char) /\ NUL \notin Char
ASSUME MemSizeNat == MemSize \in Nat \ {0}

VARIABLES shm,        \* the segment: "none", "live", "marked" for removal or "gone"
          attached,   \* who has it attached
          mem,        \* its bytes
          semset,     \* the semaphore set: "none", "live" or "gone"
          semval,     \* the value of its semaphore
          at,         \* where each process is
          out,        \* what the reader has printed of the string
          str,        \* each writer's string
          copied      \* the offsets it has copied

kernel == <<shm, attached, mem, semset, semval>>
shmVars == <<kernel, at, out, str, copied>>

Cell == 1..MemSize
Strings == {s \in Argument : Len(s) < MemSize}

ReaderPC == {"shmget", "semget", "shmat", "setval", "tell", "semop", "print",
             "rmshm", "rmsem", "done", "dead"}
WriterPC == {"start", "shmat", "memcpy", "semop", "done", "dead"}

ShmTypeOK == /\ shm \in {"none", "live", "marked", "gone"}
             /\ attached \subseteq Writer \cup {reader}
             /\ mem \in [Cell -> Char \cup {NUL}]
             /\ semset \in {"none", "live", "gone"}
             /\ semval \in {0, 1}
             /\ at \in [Writer \cup {reader} -> ReaderPC \cup WriterPC]
             /\ at[reader] \in ReaderPC /\ \A w \in Writer : at[w] \in WriterPC
             /\ out \in Seq(Char)
             /\ str \in [Writer -> Strings \cup {<<>>}]
             /\ copied \in [Writer -> SUBSET Cell]

ShmInit == /\ shm = "none" /\ attached = {}
           /\ mem = [i \in Cell |-> NUL]
           /\ semset = "none" /\ semval = 0
           /\ at = [p \in Writer \cup {reader} |-> IF p = reader THEN "shmget" ELSE "start"]
           /\ out = <<>>
           /\ str = [w \in Writer |-> <<>>]
           /\ copied = [w \in Writer |-> {}]

Go(p, from, to) == at[p] = from /\ at' = [at EXCEPT ![p] = to]

(* A process that ends detaches the segment; the last one to detach a      *)
(* segment that is marked for removal destroys it.                         *)
Detach(p) == /\ attached' = attached \ {p}
             /\ shm' = IF shm = "marked" /\ attached' = {} THEN "gone" ELSE shm

-----------------------------------------------------------------------------
Shmget == /\ Go(reader, "shmget", "semget")
          /\ shm' = "live"
          /\ UNCHANGED <<attached, mem, semset, semval, out, str, copied>>

Semget == /\ Go(reader, "semget", "shmat")
          /\ semset' = "live"
          /\ UNCHANGED <<shm, attached, mem, semval, out, str, copied>>

ReaderShmat == /\ Go(reader, "shmat", "setval")
               /\ attached' = attached \cup {reader}
               /\ UNCHANGED <<shm, mem, semset, semval, out, str, copied>>

Setval == /\ Go(reader, "setval", "tell")
          /\ semval' = 1
          /\ UNCHANGED <<shm, attached, mem, semset, out, str, copied>>

(* The ids are printed: writers can be started from here on. *)
Tell == Go(reader, "tell", "semop") /\ UNCHANGED <<kernel, out, str, copied>>

(* semop with sem_op = 0 waits for the value 0. *)
WaitForZero == /\ Go(reader, "semop", "print")
               /\ semval = 0
               /\ UNCHANGED <<kernel, out, str, copied>>

(* printf("%s\n", addr), a byte at a time up to the first NUL. *)
Printf == /\ LET c == mem[Len(out) + 1]
             IN IF c = NUL THEN /\ Go(reader, "print", "rmshm")
                                /\ UNCHANGED out
                           ELSE /\ at[reader] = "print"
                                /\ out' = Append(out, c)
                                /\ UNCHANGED at
          /\ UNCHANGED <<kernel, str, copied>>

(* IPC_RMID marks the segment: it goes with its last process. *)
RemoveShm == /\ Go(reader, "rmshm", "rmsem")
             /\ shm' = "marked"
             /\ UNCHANGED <<attached, mem, semset, semval, out, str, copied>>

(* Mutant: the reader leaves the semaphore set behind. *)
RemoveSem_Never == /\ Go(reader, "rmsem", "done")
                   /\ Detach(reader)
                   /\ UNCHANGED <<mem, semset, semval, out, str, copied>>

(* The semaphore set goes at once, and the reader exits. *)
RemoveSem == /\ Go(reader, "rmsem", "done")
             /\ semset' = "gone"
             /\ Detach(reader)
             /\ UNCHANGED <<mem, semval, out, str, copied>>

Reading == \/ Shmget \/ Semget \/ ReaderShmat \/ Setval \/ Tell
           \/ WaitForZero \/ Printf \/ RemoveShm \/ RemoveSem

-----------------------------------------------------------------------------
(* A writer is started with the ids. Its guard: the string and its NUL fit *)
(* into the segment.                                                       *)
StringFits_NoNul(s) == Len(s) <= MemSize      \* Mutant: the NUL is not counted.

StringFits(s) == Len(s) + 1 <= MemSize

Start(w, s) == /\ at[reader] \notin {"shmget", "semget", "shmat", "setval", "tell"}
               /\ at[w] = "start"
               /\ IF StringFits(s) THEN /\ at' = [at EXCEPT ![w] = "shmat"]
                                  /\ str' = [str EXCEPT ![w] = s]
                             ELSE /\ at' = [at EXCEPT ![w] = "dead"]
                                  /\ UNCHANGED str
               /\ UNCHANGED <<kernel, out, copied>>

(* A segment that is marked but not gone can still be attached. *)
WriterShmat(w) == /\ at[w] = "shmat"
                  /\ IF shm = "gone" THEN /\ at' = [at EXCEPT ![w] = "dead"]
                                          /\ UNCHANGED attached
                                     ELSE /\ at' = [at EXCEPT ![w] = "memcpy"]
                                          /\ attached' = attached \cup {w}
                  /\ UNCHANGED <<shm, mem, semset, semval, out, str, copied>>

(* Mutant: the writer signals first and copies afterwards. *)
Memcpy_Later(w) == /\ Go(w, "memcpy", "semop")
                   /\ UNCHANGED <<kernel, out, str, copied>>

(* memcpy, byte by byte in any order, with the NUL. *)
Memcpy(w) ==
  LET len == Len(str[w]) + 1
  IN /\ at[w] = "memcpy"
     /\ \E i \in 1..len \ copied[w] :
          /\ mem' = [mem EXCEPT ![i] = IF i = len THEN NUL ELSE str[w][i]]
          /\ copied' = [copied EXCEPT ![w] = @ \cup {i}]
     /\ at' = [at EXCEPT ![w] = IF copied'[w] = 1..len THEN "semop" ELSE "memcpy"]
     /\ UNCHANGED <<shm, attached, semset, semval, out, str>>

(* Mutant: the semop does not wait for a positive value. *)
Decrement_NoWait(w) == /\ Go(w, "semop", "done")
                       /\ semset = "live"
                       /\ semval' = 0
                       /\ Detach(w)
                       /\ UNCHANGED <<mem, semset, out, str, copied>>

(* semop with sem_op = -1 waits for a positive value and fails when the    *)
(* set is gone; then the writer exits.                                     *)
Decrement(w) == /\ semset = "live"
                /\ Go(w, "semop", "done")
                /\ semval > 0
                /\ semval' = semval - 1
                /\ Detach(w)
                /\ UNCHANGED <<mem, semset, out, str, copied>>

SemopFails(w) == /\ semset = "gone"
                 /\ Go(w, "semop", "dead")
                 /\ Detach(w)
                 /\ UNCHANGED <<mem, semset, semval, out, str, copied>>

Writing(w) == WriterShmat(w) \/ Memcpy(w) \/ Decrement(w) \/ SemopFails(w)

(* A system call fails and errExit ends the process, or a signal does. *)
Dies(p) == /\ at[p] \notin {"start", "done", "dead"}
           /\ at' = [at EXCEPT ![p] = "dead"]
           /\ Detach(p)
           /\ UNCHANGED <<mem, semset, semval, out, str, copied>>

(* All writers and the reader have ended, or the reader is waiting for a   *)
(* writer that nobody will start, or a writer for a reader that died.      *)
Stuck == /\ at[reader] \in {"semop", "done", "dead"}
         /\ at[reader] = "semop" => semval > 0
         /\ \A w \in Writer : \/ at[w] \in {"start", "done", "dead"}
                              \/ at[w] = "semop" /\ semset = "live" /\ semval = 0
         /\ UNCHANGED shmVars

ShmNext == \/ Reading \/ Dies(reader) \/ Stuck
           \/ \E w \in Writer : Writing(w) \/ Dies(w) \/ \E s \in Argument : Start(w, s)

ShmFairness == WF_shmVars(Reading) /\ \A w \in Writer : WF_shmVars(Writing(w))

ShmSpec == ShmInit /\ [][ShmNext]_shmVars /\ ShmFairness

-----------------------------------------------------------------------------
(* The reader finds a NUL before the end of the segment, however many      *)
(* writers copy over each other and wherever they are stopped.             *)
StaysInSegment == at[reader] = "print" => \E i \in Cell : i > Len(out) /\ mem[i] = NUL

(* The reader prints only after a writer has signalled; if nobody else has *)
(* touched the segment it prints that writer's string and all of it.       *)
Read == {"rmshm", "rmsem", "done"}
Handoff ==
  at[reader] \in Read =>
    \E w \in Writer : /\ at[w] = "done"
                      /\ (\A v \in Writer \ {w} : copied[v] = {}) => out = str[w]

(* One writer at most is told that its string was handed over, also when   *)
(* several were started.                                                   *)
OneSucceeds == \A v, w \in Writer : at[v] = "done" /\ at[w] = "done" => v = w

(* No writer waits for ever, unless the reader died and left the semaphore *)
(* behind.                                                                 *)
WriterEnds == \A w \in Writer :
                at[w] = "semop" ~> at[w] \in {"done", "dead"} \/ at[reader] = "dead"

(* A writer that succeeds wakes the reader, which removes both objects,    *)
(* the segment with its last writer, unless it is killed on the way.       *)
CleansUp == (\E w \in Writer : at[w] = "done")
              ~> at[reader] = "dead" \/ (at[reader] = "done" /\ shm = "gone" /\ semset = "gone")

-----------------------------------------------------------------------------
(* For TLC: strings of different lengths, so that copies can mix, and one  *)
(* that does not fit.                                                      *)
TestArguments == {<<"a", "b">>, <<"c">>, <<"a", "b", "c">>}
=============================================================================
