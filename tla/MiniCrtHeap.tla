----------------------------- MODULE MiniCrtHeap -----------------------------
(***************************************************************************)
(* The heap of the mini C runtime, compiler/programmer/code/13/malloc.c,   *)
(* with the entry code that sets it up and a program that uses it.         *)
(*                                                                         *)
(* Memory is the set of headers it holds, by address: hdr. The program     *)
(* fills every block it gets, which destroys the headers that lay there;   *)
(* a header merged away by crt_free stays in memory until then. The        *)
(* program's data is no header: its type is neither FREE nor USED, and     *)
(* where crt_malloc or crt_free would go on by its size or its links, or   *)
(* behind the heap, or for ever, the model stops.                          *)
(***************************************************************************)
EXTENDS Integers, FiniteSets, Sequences

CONSTANTS HeapSize,     \* heap_size, 10000 bytes in the code
          HeaderSize,   \* HEADER_SIZE, 24 bytes in the code
          Unsigned,     \* an unsigned wraps here, at 2^32 in the code
          Requests      \* the sizes the program asks for

ASSUME HeaderSizePositive == HeaderSize \in Nat \ {0}
ASSUME HeapHoldsHeader == HeapSize \in Nat /\ HeapSize > HeaderSize
ASSUME UnsignedHoldsHeap == Unsigned \in Nat /\ Unsigned > HeapSize
ASSUME RequestsAreSizes == Requests \subseteq Nat

VARIABLES lifo,     \* whether the program frees last in, first out
          state,    \* "start", "main", "exited" or "undefined"
          hdr,      \* the intact headers, by address
          live,     \* the blocks the program holds, in the order it got them
          freed     \* headers of blocks it freed, while they are intact

vars == <<lifo, state, hdr, live, freed>>

NULL == -1
list_head == 0
Address == 0..(HeapSize - 1)

Header == [type : {"FREE", "USED"}, size : 0..(Unsigned - 1),
           next : Address \cup {NULL}, prev : Address \cup {NULL}]

Block == [header : Address, size : Nat \ {0}]

Live == {live[i] : i \in DOMAIN live}

TypeOK == /\ lifo \in BOOLEAN
          /\ state \in {"start", "main", "exited", "undefined"}
          /\ DOMAIN hdr \subseteq Address
          /\ hdr \in [DOMAIN hdr -> Header]
          /\ live \in Seq(Block)
          /\ freed \subseteq DOMAIN hdr

Init == /\ lifo \in BOOLEAN
        /\ state = "start"
        /\ hdr = [a \in {} |-> 0]
        /\ live = <<>>
        /\ freed = {}

(* crt_heap_init: when brk refuses the heap, mini_crt_entry exits.         *)
HeapInit ==
  /\ state = "start"
  /\ \/ /\ state' = "main"
        /\ hdr' = [a \in {list_head} |->
                     [type |-> "FREE", size |-> HeapSize, next |-> NULL, prev |-> NULL]]
     \/ /\ state' = "exited"
        /\ UNCHANGED hdr
  /\ UNCHANGED <<lifo, live, freed>>

(* The headers that the loops of crt_malloc and crt_print_memory_usage     *)
(* meet, in that order. The walk stays where there is no header to go on   *)
(* from: at the end of the list, or in the program's data.                 *)
Walk(h) ==
  LET step == [a \in Address \cup {NULL} |-> IF a \in DOMAIN h THEN h[a].next ELSE a]
      at[n \in 0..HeapSize] == IF n = 0 THEN list_head ELSE step[at[n - 1]]
  IN at

ListOf(h) == LET at == Walk(h) IN {at[n] : n \in 0..HeapSize} \cap DOMAIN h
List == ListOf(hdr)

(* The blocks of the list lie one after the other and fill the heap, those *)
(* in use are the ones the program holds, as large as it asked for, and    *)
(* these do not overlap.                                                   *)
Tiled ==
  /\ list_head \in DOMAIN hdr
  /\ \A a \in List : LET end == a + hdr[a].size
                     IN /\ hdr[a].next = (IF end = HeapSize THEN NULL ELSE end)
                        /\ end > a /\ end <= HeapSize
                        /\ hdr[a].next \in DOMAIN hdr \cup {NULL}

UsedIsLive == /\ {a \in List : hdr[a].type = "USED"} = {b.header : b \in Live}
              /\ \A b \in Live : b.header \in DOMAIN hdr
                                 /\ hdr[b.header].size >= HeaderSize + b.size

Overlap(a, m, b, n) == a < b + n /\ b < a + m

LiveDisjoint ==
  \A i, j \in DOMAIN live :
    i # j => ~Overlap(live[i].header, HeaderSize + live[i].size,
                      live[j].header, HeaderSize + live[j].size)

(* The list describes the heap, and prev leads back, to the block before   *)
(* or to one that was there once.                                          *)
Sound == /\ Tiled /\ UsedIsLive /\ LiveDisjoint
         /\ \A a \in List : hdr[a].prev < a

(* The headers that survive a write to the n bytes from lo on. *)
Scrub(h, lo, n) == [a \in {b \in DOMAIN h : ~Overlap(lo, n, b, HeaderSize)} |-> h[a]]

(* The block is taken whole, or split when it is large enough for another. *)
Whole(a, size) == /\ hdr[a].size > size + HeaderSize
                  /\ hdr[a].size <= size + HeaderSize * 2

(* Mutant: no room is asked for the headers. *)
Splits_NoHeader(a, size) == hdr[a].size > size
Splits(a, size) == hdr[a].size > size + HeaderSize * 2

Take(h, a) == [h EXCEPT ![a].type = "USED"]

(* Mutant: the new header does not take over the successor.                *)
Split_Last(h, a, size) ==
  LET new == a + size + HeaderSize
      rest == [type |-> "FREE", size |-> h[a].size - (size + HeaderSize),
               next |-> NULL, prev |-> a]
      kept == Scrub(h, new, HeaderSize)
  IN [b \in DOMAIN kept \cup {new} |->
        IF b = new THEN rest
        ELSE IF b = a THEN [type |-> "USED", size |-> size + HeaderSize,
                            next |-> new, prev |-> h[a].prev]
        ELSE kept[b]]

(* Lines 82-89: the new header's neighbours are its own next and prev; the *)
(* block after it keeps its prev.                                          *)
Split(h, a, size) ==
  LET new == a + size + HeaderSize
      rest == [type |-> "FREE", size |-> h[a].size - (size + HeaderSize),
               next |-> h[a].next, prev |-> a]
      kept == Scrub(h, new, HeaderSize)
  IN [b \in DOMAIN kept \cup {new} |->
        IF b = new THEN rest
        ELSE IF b = a THEN [type |-> "USED", size |-> size + HeaderSize,
                            next |-> new, prev |-> h[a].prev]
        ELSE kept[b]]

(* crt_malloc gives the first block that fits, which the program fills.    *)
Fits(size) == {a \in List : hdr[a].type = "FREE" /\ (Whole(a, size) \/ Splits(a, size))}

FirstFit(size) ==
  LET at == Walk(hdr)
      fits == Fits(size)
      first == CHOOSE n \in 0..HeapSize : at[n] \in fits /\ \A m \in 0..(n - 1) : at[m] \notin fits
  IN at[first]

Given(size) == LET a == FirstFit(size)
               IN Scrub(IF Whole(a, size) THEN Take(hdr, a) ELSE Split(hdr, a, size),
                        a + HeaderSize, size)

(* What it writes, the block and a new header behind it, is in the heap.   *)
InHeap(size) == LET a == FirstFit(size)
                    end == a + HeaderSize + size
                IN IF Whole(a, size) THEN end <= HeapSize ELSE end + HeaderSize <= HeapSize

Malloc(size) ==
  /\ state = "main"
  /\ size # 0
  /\ Fits(size) # {}
  /\ InHeap(size)
  /\ hdr' = Given(size)
  /\ live' = Append(live, [header |-> FirstFit(size), size |-> size])
  /\ freed' = (freed \cap DOMAIN hdr') \ {FirstFit(size)}
  /\ UNCHANGED <<lifo, state>>

Ends == Walk(hdr)[HeapSize] = NULL

(* A request for nothing, and one that no block of the list fits: NULL. *)
MallocFails(size) ==
  /\ state = "main"
  /\ size = 0 \/ (Fits(size) = {} /\ Ends)
  /\ UNCHANGED vars

(* Lines 29-33. Mutants: nothing is merged; the link is not moved on. *)
MergeForward_Never(h, a) == h
MergeForward_KeepsNext(h, a) ==
  LET n == h[a].next
  IN IF n \in DOMAIN h /\ h[n].type = "FREE" THEN [h EXCEPT ![a].size = @ + h[n].size] ELSE h
MergeForward(h, a) ==
  LET n == h[a].next
  IN IF n \in DOMAIN h /\ h[n].type = "FREE"
       THEN [h EXCEPT ![a].size = (@ + h[n].size) % Unsigned, ![a].next = h[n].next]
       ELSE h

(* Lines 35-42. A header that the program has overwritten is not FREE. *)
MergeBackward(h, a) ==
  LET p == h[a].prev
      n == h[a].next
  IN IF p \in DOMAIN h /\ h[p].type = "FREE"
       THEN [b \in DOMAIN h |->
               IF b = p THEN [h[p] EXCEPT !.next = n, !.size = (@ + h[a].size) % Unsigned,
                                 !.prev = IF n = p THEN p ELSE @]
               ELSE IF b = n THEN [h[n] EXCEPT !.prev = p]
               ELSE h[b]]
       ELSE h

(* Line 27, then the merges. Mutant: the block is not marked.              *)
Merged_Unmarked(a) == MergeBackward(MergeForward(hdr, a), a)
Merged(a) == MergeBackward(MergeForward([hdr EXCEPT ![a].type = "FREE"], a), a)

(* crt_free of a header: a warning when it says that it is free.           *)
Freed(a) == IF hdr[a].type = "FREE" THEN hdr ELSE Merged(a)

(* crt_free of the i-th block the program holds. *)
Free(i) ==
  /\ state = "main"
  /\ lifo => i = Len(live)
  /\ live[i].header \in DOMAIN hdr
  /\ hdr' = Freed(live[i].header)
  /\ live' = [j \in 1..(Len(live) - 1) |-> IF j < i THEN live[j] ELSE live[j + 1]]
  /\ freed' = freed \cup {live[i].header}
  /\ UNCHANGED <<lifo, state>>

(* crt_free of a block that was freed before, as long as the header is     *)
(* there to tell.                                                          *)
DoubleFree(a) ==
  /\ state = "main"
  /\ hdr' = Freed(a)
  /\ UNCHANGED <<lifo, state, live, freed>>

(* crt_malloc comes to the program's data, walks in a circle, or gives out *)
(* what lies behind the heap; crt_free gets a block whose header was       *)
(* overwritten.                                                            *)
Astray == /\ state = "main"
          /\ \/ \E size \in Requests \ {0} : IF Fits(size) = {} THEN ~Ends ELSE ~InHeap(size)
             \/ \E i \in DOMAIN live : (lifo => i = Len(live)) /\ live[i].header \notin DOMAIN hdr
          /\ state' = "undefined"
          /\ UNCHANGED <<lifo, hdr, live, freed>>

(* main returns, or an error ends the process. *)
Exit == /\ state = "main"
        /\ state' = "exited"
        /\ UNCHANGED <<lifo, hdr, live, freed>>

Stopped == state \in {"exited", "undefined"} /\ UNCHANGED vars

Next == \/ HeapInit \/ Exit \/ Astray \/ Stopped
        \/ \E size \in Requests : Malloc(size) \/ MallocFails(size)
        \/ \E i \in DOMAIN live : Free(i)
        \/ \E a \in freed : DoubleFree(a)

Spec == Init /\ [][Next]_vars

-----------------------------------------------------------------------------
(* "merge if possible" (line 28): no two neighbours of the list are free.  *)
(* A program that frees in any order has them: a split leaves the block    *)
(* behind with a prev that names the header before the new one.            *)
Coalesced ==
  \A a \in List : hdr[a].next \in DOMAIN hdr
                    => ~(hdr[a].type = "FREE" /\ hdr[hdr[a].next].type = "FREE")

(* The "double linked list" of line 31: prev undoes next along the list.   *)
DoublyLinked ==
  \A a \in List : hdr[a].next \in DOMAIN hdr => hdr[hdr[a].next].prev = a

(* A program that frees in the reverse order of its allocations always has *)
(* a list that describes the heap: no block is lost, given out twice or    *)
(* smaller than what was asked for, free neighbours are merged, and the    *)
(* list is linked both ways.                                               *)
AlwaysSound == lifo /\ state = "main" => Sound /\ Coalesced /\ DoublyLinked

(* A block that was freed says so as long as its header is intact, merged  *)
(* away or not: freeing it again gives the warning of line 23.             *)
FreedSaysSo == \A a \in freed : hdr[a].type = "FREE"

(* Freed in reverse order, the blocks become one block of the whole heap   *)
(* again.                                                                  *)
NothingLost == lifo /\ state = "main" /\ live = <<>> => hdr[list_head].size = HeapSize

(* crt_malloc never makes a sound heap unsound, whatever was freed before  *)
(* in whatever order. crt_free does exactly when prev names a free block   *)
(* of the list that is not the one before: it is merged with what does not *)
(* lie next to it, and the blocks between the two, which may be in use,    *)
(* are on no list.                                                         *)
MergesAcross(a) == LET p == hdr[a].prev IN p \in List /\ hdr[p].type = "FREE" /\ hdr[p].next # a
KeepsSound ==
  [][Sound => /\ Len(live') > Len(live) => Sound'
              /\ \A i \in DOMAIN live : Free(i) => (Sound' <=> ~MergesAcross(live[i].header))]_vars
=============================================================================
