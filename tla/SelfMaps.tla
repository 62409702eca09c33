------------------------------ MODULE SelfMaps ------------------------------
(***************************************************************************)
(* hack/lab/proc-self-maps/main.c: two threads map memory while main       *)
(* prints /proc/self/maps, which the kernel makes up as it is read, one    *)
(* mapping after another by address. A thread may not have been created:   *)
(* main then joins a pthread_t that nobody set. The file may not be opened:*)
(* main then asks for the end of a file that is NULL. Both are undefined.  *)
(***************************************************************************)
EXTENDS Naturals, Sequences

CONSTANTS Address,      \* where mappings may lie, in order
          Mapped        \* where some lie from the start

Threads == {"thread1", "thread2"}

VARIABLES pc,           \* where main is
          thread,       \* where each thread is
          addr,         \* what its mmap returned: 0 if it failed
          maps,         \* the mappings of the process
          atOpen,       \* those when the file was opened
          mutex,        \* held by main or free
          at,           \* the address the file has been read to
          lines         \* what main printed

mapsVars == <<pc, thread, addr, maps, atOpen, mutex, at, lines>>

Init == /\ pc = "create1"
        /\ thread = [t \in Threads |-> "unborn"]
        /\ addr = [t \in Threads |-> 0]
        /\ maps = Mapped /\ atOpen = {}
        /\ mutex = "free" /\ at = 0 /\ lines = <<>>

Alive == pc \notin {"exited", "undefined"}
Go(from, to) == pc = from /\ pc' = to

(* pthread_create, whose result main only prints. *)
Create(t, from, to) == /\ Go(from, to)
                       /\ thread' \in {thread, [thread EXCEPT ![t] = "mmap"]}
                       /\ UNCHANGED <<addr, maps, atOpen, mutex, at, lines>>

(* print_message_function: mmap, which may fail, the message, the sleep.   *)
Mmap(t) == /\ Alive /\ thread[t] = "mmap"
           /\ thread' = [thread EXCEPT ![t] = "print"]
           /\ \E a \in (Address \ maps) \cup {0} :
                /\ addr' = [addr EXCEPT ![t] = a]
                /\ maps' = maps \cup ({a} \ {0})
           /\ UNCHANGED <<pc, atOpen, mutex, at, lines>>
Step(t, from, to) == /\ Alive /\ thread[t] = from
                     /\ thread' = [thread EXCEPT ![t] = to]
                     /\ UNCHANGED <<pc, addr, maps, atOpen, mutex, at, lines>>
Message(t) == Step(t, "print", "sleep")
Wake(t) == Step(t, "sleep", "done")

(* print_maps: the file is opened before the mutex is taken, and stays     *)
(* open. Nobody looks whether fopen has failed. *)
Open == /\ \/ Go("open", "lock") /\ atOpen' = maps
           \/ Go("open", "lock, no file") /\ UNCHANGED atOpen
        /\ UNCHANGED <<thread, addr, maps, mutex, at, lines>>
Lock == /\ Go("lock", "read") \/ Go("lock, no file", "undefined")
        /\ mutex = "free" /\ mutex' = "main"
        /\ UNCHANGED <<thread, addr, maps, atOpen, at, lines>>

(* Mutant: the loop prints before it asks for the end of the file. *)
Read_StopsEarly == /\ pc = "read" /\ \E a \in maps : a > at
                   /\ LET a == CHOOSE b \in maps : b > at /\ \A c \in maps : c > at => b <= c
                      IN at' = a /\ lines' = IF \E c \in maps : c > a THEN Append(lines, a) ELSE lines
                   /\ UNCHANGED <<pc, thread, addr, maps, atOpen, mutex>>

Read == /\ pc = "read" /\ \E a \in maps : a > at
        /\ LET a == CHOOSE b \in maps : b > at /\ \A c \in maps : c > at => b <= c
           IN at' = a /\ lines' = Append(lines, a)
        /\ UNCHANGED <<pc, thread, addr, maps, atOpen, mutex>>
Unlock == /\ Go("read", "join1") /\ \A a \in maps : a <= at
          /\ mutex' = "free"
          /\ UNCHANGED <<thread, addr, maps, atOpen, at, lines>>

(* Mutant: main does not wait. *)
Join_Detached(t, from, to) == Go(from, to) /\ UNCHANGED <<thread, addr, maps, atOpen, mutex, at, lines>>

Join(t, from, to) == /\ thread[t] \in {"unborn", "done"}
                     /\ Go(from, IF thread[t] = "done" THEN to ELSE "undefined")
                     /\ UNCHANGED <<thread, addr, maps, atOpen, mutex, at, lines>>

Main == \/ Create("thread1", "create1", "create2") \/ Create("thread2", "create2", "open")
        \/ Open \/ Lock \/ Read \/ Unlock
        \/ Join("thread1", "join1", "join2") \/ Join("thread2", "join2", "exited")
Thread(t) == Mmap(t) \/ Message(t) \/ Wake(t)
Next == Main \/ \E t \in Threads : Thread(t)

-----------------------------------------------------------------------------
(* What is printed is in order and without repetition, and has every       *)
(* mapping there was when the file was opened, whatever is mapped while    *)
(* main prints; what is mapped then may be missing.                        *)
PrintsMappings ==
  /\ \A k \in DOMAIN lines : lines[k] \in maps /\ (k > 1 => lines[k - 1] < lines[k])
  /\ pc \in {"join1", "join2", "exited"} => \A a \in atOpen : \E k \in DOMAIN lines : lines[k] = a

(* main does not end the process before its threads are done ("unless we   *)
(* wait we run the risk", line 59).                                        *)
WaitsForThreads == pc = "exited" => \A t \in Threads : thread[t] = "done"

Returns == <>~Alive
=============================================================================
