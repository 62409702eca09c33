------------------------------ MODULE Debugfs ------------------------------
(***************************************************************************)
(* kernel/plka/syn/fs/debug/code/mydebug_fs.c: init_debug creates a        *)
(* directory and its files, and users open, read and write the file text   *)
(* as soon as it exists. debugfs, the module loader, and copies to and     *)
(* from user space are external.                                           *)
(***************************************************************************)
EXTENDS Naturals, FiniteSetsExt

CONSTANTS User,
          len,      \* bytes of ker_buf
          Counts    \* what users ask for

VARIABLES module,   \* coming (its init runs), live or freed
          line,     \* the next call of init_debug
          entries,  \* what is in debugfs
          u64int,   \* the global that init tests
          ker_buf,  \* who wrote each byte
          file,     \* each user's file: its position, and the copy under way
          oops      \* who called into freed memory

debugVars == <<module, line, entries, u64int, ker_buf, file, oops>>
moduleVars == <<module, line, entries, u64int>>

Closed == [op |-> "none", position |-> 0, end |-> 0]
Idle(p) == [op |-> "open", position |-> p, end |-> p]

Init == /\ module = "coming" /\ line = "dir" /\ entries = {}
        /\ u64int = FALSE
        /\ ker_buf = [b \in 0..len - 1 |-> "zero"]
        /\ file = [u \in User |-> Closed]
        /\ oops = {}

(* A directory or file that cannot be created is left out, and what would  *)
(* be in it with it; nobody looks. *)
Create(at, name, parent, then) ==
  /\ line = at /\ line' = then
  /\ entries' \in {entries} \cup {entries \cup {name} : p \in {parent} \cap (entries \cup {"root"})}
  /\ UNCHANGED <<module, u64int, ker_buf, file, oops>>

CreateDir == Create("dir", "dell", "root", "file")
CreateFile == Create("file", "text", "dell", "u64")
CreateU64 == Create("u64", "number", "dell", "test")

Result(error) == /\ line = "test" /\ line' = "returned"
                 /\ module' = IF error THEN "freed" ELSE "live"
                 /\ UNCHANGED <<entries, u64int, ker_buf, file, oops>>

(* Mutant: the directory is tested. *)
Test_Directory == Result("dell" \notin entries)

(* A global is tested to which nothing is assigned: init fails with        *)
(* -ENODEV, the loader frees the module, and what was created stays. The   *)
(* rest of init, which would create hexnum, and exit_debug never run.      *)
Test == Result(~u64int)

Open(u) == /\ "text" \in entries /\ file[u] = Closed
           /\ IF module = "freed" THEN oops' = oops \cup {u} /\ UNCHANGED file
              ELSE file' = [file EXCEPT ![u] = Idle(0)] /\ UNCHANGED oops
           /\ UNCHANGED <<moduleVars, ker_buf>>

(* Mutant: the end of the buffer is not looked at. *)
Within_Unbounded(p, count) == p + count

(* simple_read_from_buffer and simple_write_to_buffer end at the end of    *)
(* the buffer, or do nothing behind it.                                    *)
Within(p, count) == Max({p, Min({p + count, len})})

(* myreader and mywriter, which refuses more than the buffer holds; the    *)
(* copy takes a byte at a time, and nothing keeps two users apart.         *)
Call(u) == /\ file[u].op = "open"
           /\ \E op \in {"read", "write"}, count \in Counts :
                IF module = "freed" THEN oops' = oops \cup {u} /\ UNCHANGED file
                ELSE IF op = "write" /\ count > len THEN UNCHANGED <<file, oops>>
                ELSE /\ file' = [file EXCEPT ![u] = [op |-> op, position |-> @.position,
                                                    end |-> Within(@.position, count)]]
                     /\ UNCHANGED oops
           /\ UNCHANGED <<moduleVars, ker_buf>>
CopyByte(u) == /\ file[u].op \in {"read", "write"} /\ module # "freed"
               /\ file[u].position < file[u].end
               /\ ker_buf' = IF file[u].op = "read" THEN ker_buf ELSE [ker_buf EXCEPT ![file[u].position] = u]
               /\ file' = [file EXCEPT ![u].position = @ + 1]
               /\ UNCHANGED <<moduleVars, oops>>
CallEnds(u) == /\ file[u].op \in {"read", "write"}
               /\ module = "freed" \/ file[u].position = file[u].end
               /\ oops' = IF module = "freed" THEN oops \cup {u} ELSE oops
               /\ file' = [file EXCEPT ![u] = Idle(@.position)]
               /\ UNCHANGED <<moduleVars, ker_buf>>

InitDebug == CreateDir \/ CreateFile \/ CreateU64 \/ Test
Next == InitDebug \/ \E u \in User : Open(u) \/ Call(u) \/ CopyByte(u) \/ CallEnds(u)

-----------------------------------------------------------------------------
(* The module never loads, and takes nothing with it: exit_debug, which    *)
(* "in turn cleans all the file" (line 65), is not for a module whose init *)
(* failed. Until it has failed, but no longer, the file can be used.       *)
LeftBehind ==
  /\ module # "live"
  /\ oops # {} => module = "freed" /\ "text" \in entries

(* No user's position leaves the buffer, whatever is asked for. *)
StaysInBuffer == \A u \in User : file[u].position <= file[u].end /\ file[u].end <= len
=============================================================================
