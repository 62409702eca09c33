----------------------------- MODULE MallocLoops -----------------------------
(***************************************************************************)
(* docs/linux/malloc_thread_safe/{pthread,clone}.c: two contexts that      *)
(* allocate a block and free it for ever, as threads, or as processes that *)
(* clone(2) made share their memory. The allocator is the C library's: a   *)
(* list of free blocks, under a lock once the library knows of threads     *)
(* (docs/linux/musl.md, lines 330-334), which a raw clone does not tell    *)
(* it.                                                                     *)
(***************************************************************************)
EXTENDS Integers, Sequences

CONSTANTS Blocks        \* how many blocks are free at the start

Context == {"parent", "child"}

VARIABLES program,      \* pthread or clone
          result,       \* how the program ended, if it did
          pc,           \* where each context is
          x,            \* the block each has, or none
          need_locks, lock, freeList,   \* the library's
          seen          \* freeList as each context read it

mallocVars == <<program, result, pc, x, need_locks, lock, freeList, seen>>

NoBlock == 0

Init == /\ program \in {"pthread", "clone"} /\ result = "runs"
        /\ pc = [c \in Context |-> IF c = "parent" THEN "start" ELSE "unborn"]
        /\ x = [c \in Context |-> NoBlock]
        /\ need_locks = FALSE /\ lock = "free"
        /\ freeList = [k \in 1..Blocks |-> k]
        /\ seen = [c \in Context |-> <<>>]

(* Mutant: the thread is made by clone as well. *)
Spawn_Clone == /\ pc["parent"] = "start" /\ result = "runs"
               /\ pc' = [c \in Context |-> "malloc"]
               /\ UNCHANGED <<program, result, x, need_locks, lock, freeList, seen>>

(* spawn_threads with safe_pthread_create, or mmap and clone. Both are in  *)
(* their loops then, and never leave them: nobody is joined.               *)
Spawn == /\ pc["parent"] = "start" /\ result = "runs"
         /\ pc' = [c \in Context |-> "malloc"]
         /\ need_locks' = (program = "pthread")
         /\ UNCHANGED <<program, result, x, lock, freeList, seen>>

(* If that fails pthread.c exits with 1; main of clone.c returns 0 all the *)
(* same. *)
SpawnFails == /\ pc["parent"] = "start" /\ result = "runs"
              /\ result' = IF program = "pthread" THEN "exit 1" ELSE "exit 0"
              /\ UNCHANGED <<program, pc, x, need_locks, lock, freeList, seen>>

(* malloc and free read the list, then write it. *)
Read(c, from, to) == /\ pc[c] = from /\ result = "runs"
                     /\ pc' = [pc EXCEPT ![c] = to]
                     /\ need_locks => lock = "free"
                     /\ lock' = IF need_locks THEN c ELSE lock
                     /\ seen' = [seen EXCEPT ![c] = freeList]
                     /\ UNCHANGED <<program, result, x, need_locks, freeList>>
Write(c, from, to, list) == /\ pc[c] = from /\ result = "runs"
                            /\ pc' = [pc EXCEPT ![c] = to]
                            /\ freeList' = list
                            /\ lock' = IF lock = c THEN "free" ELSE lock
                            /\ seen' = [seen EXCEPT ![c] = <<>>]
                            /\ UNCHANGED <<program, need_locks>>

Malloc(c) == Read(c, "malloc", "take")
Take(c) == IF seen[c] = <<>>
             THEN Write(c, "take", "free", <<>>) /\ UNCHANGED <<result, x>>
             ELSE /\ Write(c, "take", "free", Tail(seen[c]))
                  /\ x' = [x EXCEPT ![c] = Head(seen[c])]
                  /\ UNCHANGED result

(* free(NULL) does nothing, and a block that is free already crashes.      *)
Free(c) == Read(c, "free", "put")
Put(c) == /\ x' = [x EXCEPT ![c] = NoBlock]
          /\ IF x[c] = NoBlock THEN Write(c, "put", "malloc", seen[c]) /\ UNCHANGED result
             ELSE /\ Write(c, "put", "malloc", <<x[c]>> \o seen[c])
                  /\ result' = IF \E k \in DOMAIN seen[c] : seen[c][k] = x[c] THEN "crash" ELSE "runs"

Loop(c) == Malloc(c) \/ Take(c) \/ Free(c) \/ Put(c)
Next == Spawn \/ SpawnFails \/ \E c \in Context : Loop(c)

-----------------------------------------------------------------------------
(* Threads never get the same block and lose none, and nothing crashes:    *)
(* every block is with one of them, or once in the list. Processes that    *)
(* share their memory do: malloc "seems to be safe only with pthread"      *)
(* (docs/linux/musl.md, line 330, in Chinese).                             *)
SafeForThreads ==
  program = "pthread" =>
    LET listed == {freeList[k] : k \in DOMAIN freeList}
        held == {x[c] : c \in Context} \ {NoBlock}
    IN /\ listed \cup held = 1..Blocks /\ listed \cap held = {}
       /\ x["parent"] = x["child"] => x["parent"] = NoBlock
       /\ result # "crash"

(* A thread that allocates gets a block, although the other one takes the  *)
(* lock again and again.                                                   *)
KeepsAllocating ==
  \A c \in Context : program = "pthread" /\ pc[c] = "malloc" ~> x[c] # NoBlock
=============================================================================
