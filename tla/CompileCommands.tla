--------------------------- MODULE CompileCommands ---------------------------
(***************************************************************************)
(* docs/uefi/uefi/compile_commands_patch/edk2_compile_commands.py: the     *)
(* workers of an edk2 build add the command of every file they compile to  *)
(* compile_commands.json, reading and rewriting the whole of it under a    *)
(* file lock. The lock's name is relative: workers in different            *)
(* directories do not exclude each other. Reading and writing can fail,    *)
(* and a build can be killed.                                              *)
(***************************************************************************)
EXTENDS Naturals

CONSTANTS Worker, Directory, File

VARIABLES cwd,       \* the directory of each worker, and of its lockfile.txt
          locks,     \* who holds the lock of each directory
          worker,    \* where each worker is
          todo,      \* the files it has still to compile
          target,    \* the file it compiles
          content,   \* what it has read and will write
          mixed,     \* who shares the open file with another writer
          db,        \* compile_commands.json: absent, torn, or its entries
          recorded,  \* the updates that were written, the last for each file
          accident   \* the last one: the file was left half written, "torn",
                     \* or was there but not read, "unread"

ccVars == <<cwd, locks, worker, todo, target, content, mixed, db, recorded, accident>>

NoOne == "no one"
Absent == [state |-> "absent"]
Torn == [state |-> "torn"]

(* The entries, by file: content[i] is replaced or appended, so a file has *)
(* one entry. An entry is known by the worker that wrote it.               *)
Entries(e) == [state |-> "json", entries |-> e]
NoEntries == [f \in {} |-> f]
IsEntries(e) == DOMAIN e \subseteq File /\ \A f \in DOMAIN e : e[f] \in Worker

TypeOK == /\ cwd \in [Worker -> Directory]
          /\ locks \in [Directory -> Worker \cup {NoOne}]
          /\ worker \in [Worker -> {"idle", "lock", "read", "write", "dump", "release", "exit", "killed"}]
          /\ todo \in [Worker -> SUBSET File]
          /\ target \in [Worker -> File]
          /\ \A w \in Worker : IsEntries(content[w])
          /\ mixed \subseteq Worker
          /\ db \in {Absent, Torn} \/ IsEntries(db.entries)
          /\ IsEntries(recorded)
          /\ accident \in {"none", "torn", "unread"}

Init == /\ cwd \in [Worker -> Directory]
        /\ locks = [d \in Directory |-> NoOne]
        /\ worker = [w \in Worker |-> "idle"]
        /\ todo \in [Worker -> SUBSET File]
        /\ target = [w \in Worker |-> CHOOSE f \in File : TRUE]
        /\ content = [w \in Worker |-> NoEntries]
        /\ mixed = {}
        /\ db = Absent
        /\ recorded = NoEntries
        /\ accident = "none"

Move(w, from, to) == worker[w] = from /\ worker' = [worker EXCEPT ![w] = to]

Set(e, f, w) == [g \in DOMAIN e \cup {f} |-> IF g = f THEN w ELSE e[g]]

(* update_compile_commands_file: other commands return at once, and a      *)
(* build without CC_PATH or CC_FLAGS in TOOLS_DEF ends.                    *)
Update(w, f) == /\ Move(w, "idle", "lock")
                /\ f \in todo[w]
                /\ todo' = [todo EXCEPT ![w] = @ \ {f}]
                /\ target' = [target EXCEPT ![w] = f]
                /\ UNCHANGED <<cwd, locks, content, mixed, db, recorded, accident>>

NoCompiler(w) == /\ Move(w, "idle", "exit")
                 /\ UNCHANGED <<cwd, locks, todo, target, content, mixed, db, recorded, accident>>

(* with FileLock("lockfile.txt"). Mutant: there is none. *)
Lock_None(w) == /\ Move(w, "lock", "read")
                /\ UNCHANGED <<cwd, locks, todo, target, content, mixed, db, recorded, accident>>
Lock(w) == /\ locks[cwd[w]] = NoOne
           /\ Move(w, "lock", "read")
           /\ locks' = [locks EXCEPT ![cwd[w]] = w]
           /\ UNCHANGED <<cwd, todo, target, content, mixed, db, recorded, accident>>

Unlocked(w) == [d \in Directory |-> IF locks[d] = w THEN NoOne ELSE locks[d]]

(* Mutant: a file that does not parse is an empty one, too. *)
Read_StartsOver(w) == /\ Move(w, "read", "write")
                      /\ content' = [content EXCEPT ![w] = IF db.state = "json" THEN db.entries ELSE NoEntries]
                      /\ UNCHANGED <<cwd, locks, todo, target, mixed, db, recorded, accident>>

(* A file that does not parse ends the worker, which leaves the lock on    *)
(* its way. One that is not there, or that any other IOError keeps from    *)
(* being read, is taken for an empty one.                                  *)
Read(w) ==
  /\ \/ /\ db # Absent
        /\ Move(w, "read", IF db = Torn THEN "exit" ELSE "write")
        /\ content' = [content EXCEPT ![w] = IF db = Torn THEN NoEntries ELSE db.entries]
        /\ locks' = IF db = Torn THEN Unlocked(w) ELSE locks
        /\ UNCHANGED accident
     \/ /\ Move(w, "read", "write")
        /\ content' = [content EXCEPT ![w] = NoEntries]
        /\ accident' = IF db = Absent THEN accident ELSE "unread"
        /\ UNCHANGED locks
  /\ UNCHANGED <<cwd, todo, target, mixed, db, recorded>>

(* The entry goes into the list, and open(result_path, 'w') empties the    *)
(* file.                                                                   *)
Writers == {w \in Worker : worker[w] = "dump"}

Open(w) == /\ Move(w, "write", "dump")
           /\ content' = [content EXCEPT ![w] = Set(@, target[w], w)]
           /\ db' = Torn
           /\ mixed' = IF Writers = {} THEN mixed ELSE mixed \cup Writers \cup {w}
           /\ UNCHANGED <<cwd, locks, todo, target, recorded, accident>>

(* The file cannot be opened: the exception ends the worker. *)
OpenFails(w) == /\ Move(w, "write", "exit")
                /\ locks' = Unlocked(w)
                /\ UNCHANGED <<cwd, todo, target, content, mixed, db, recorded, accident>>

(* Mutant: only the new entry is written. *)
Dump_OnlyNew(w) == /\ Move(w, "dump", "release")
                   /\ db' = Entries([f \in {target[w]} |-> w])
                   /\ recorded' = Set(recorded, target[w], w)
                   /\ mixed' = mixed \ {w}
                   /\ UNCHANGED <<cwd, locks, todo, target, content, accident>>

(* json.dump and close. Two writers at once may leave a mixture. *)
Dump(w) == /\ Move(w, "dump", "release")
           /\ db' \in {Entries(content[w])} \cup (IF w \in mixed THEN {Torn} ELSE {})
           /\ recorded' = Set(recorded, target[w], w)
           /\ mixed' = mixed \ {w}
           /\ UNCHANGED <<cwd, locks, todo, target, content, accident>>

(* What a writer that does not come to its end leaves in the file. *)
Broken == /\ db' \in {db, Torn}
          /\ accident' = "torn"

(* json.dump or close raises an exception, a full disk for one. *)
DumpFails(w) == /\ Move(w, "dump", "exit")
                /\ Broken
                /\ locks' = Unlocked(w)
                /\ UNCHANGED <<cwd, todo, target, content, mixed, recorded>>

Release(w) == /\ Move(w, "release", "idle")
              /\ locks' = Unlocked(w)
              /\ content' = [content EXCEPT ![w] = NoEntries]
              /\ UNCHANGED <<cwd, todo, target, mixed, db, recorded, accident>>

(* The build is interrupted: the kernel drops the worker's lock. *)
Kill(w) == /\ worker[w] \notin {"exit", "killed"}
           /\ worker' = [worker EXCEPT ![w] = "killed"]
           /\ locks' = Unlocked(w)
           /\ IF worker[w] = "dump" THEN Broken ELSE UNCHANGED <<db, accident>>
           /\ UNCHANGED <<cwd, todo, target, content, mixed, recorded>>

Step(w) == \/ Lock(w) \/ Read(w) \/ Open(w) \/ OpenFails(w)
           \/ Dump(w) \/ DumpFails(w) \/ Release(w)

Next == \E w \in Worker : \/ Step(w) \/ Kill(w) \/ NoCompiler(w)
                          \/ \E f \in File : Update(w, f)

-----------------------------------------------------------------------------
(* "I added a file lock, so that it can be compiled in parallel"           *)
(* (docs/uefi/uefi-linux.md, line 207): with the workers in one directory, *)
(* what the file has of a source file is the last update that was written. *)
(* No update is missing and no worker is ended by the file, until one is   *)
(* killed or fails as it writes, or an existing file cannot be read.       *)
OneDirectory == \A v, w \in Worker : cwd[v] = cwd[w]

Newest(e) == \A f \in DOMAIN e : f \in DOMAIN recorded /\ e[f] = recorded[f]

NoUpdateLost ==
  OneDirectory =>
    /\ db.state = "json" => Newest(db.entries)
    /\ accident = "none" /\ locks = [d \in Directory |-> NoOne]
         => IF recorded = NoEntries THEN db = Absent ELSE db = Entries(recorded)
    /\ accident = "none" => \A w \in Worker : worker[w] = "read" => db # Torn

(* Once a worker of the only directory has died as it wrote, the file      *)
(* stays torn, nobody writes it and every later worker ends, where line 79 *)
(* says that a new file is created, as long as the file can be read: it is *)
(* an IOError that makes a worker write a new one. No lock is left behind. *)
TornIsFinal ==
  OneDirectory /\ accident = "torn" =>
    /\ db = Torn
    /\ \A w \in Worker : worker[w] \notin {"write", "dump", "release"}
    /\ \A d \in Directory : locks[d] # NoOne => worker[locks[d]] = "read"

(* A worker that asks for the lock gets it, although others may be killed  *)
(* while they hold it.                                                     *)
Served == \A w \in Worker : worker[w] = "lock" ~> worker[w] \in {"idle", "exit", "killed"}
=============================================================================
