---------------------------- MODULE ServicesProofs ----------------------------
(***************************************************************************)
(* The three programs that serve others.                                   *)
(*                                                                         *)
(* The allocator of the mini C runtime, for every size of the heap, of a   *)
(* header and of an unsigned that holds the heap. The list is a recursive  *)
(* function, the walk of crt_malloc, of which nothing is known but that it *)
(* unfolds; WalkUnfolds shows that there is one. A tiling is a set of      *)
(* blocks each of which ends where another begins, from the first to the   *)
(* end of the heap, with prev links that lead down: it is the list         *)
(* (TilingIsList), its blocks do not overlap (Disjoint), and the list of a *)
(* sound heap is one (SoundIsTiling). The lemmas then say what each        *)
(* routine of malloc.c makes of a tiling: a split adds a block, a merge    *)
(* takes one out, and a merge with a block that does not lie next to it    *)
(* leaves no tiling at all. What holds of any list, sound or not, is in    *)
(* GivenTyped and MergedTyped. The inductive invariant is HeapInv; for a   *)
(* program that frees in reverse order it adds Stacked: only the last      *)
(* block of the list is free.                                              *)
(*                                                                         *)
(* The key-value server, for any clients, keys and values: the handlers    *)
(* exclude each other, the mutex is never left locked, and the server      *)
(* implements the store of KVStore, calls that fail included.              *)
(*                                                                         *)
(* The shared-memory handoff, for any number of writers, any strings and   *)
(* any size of the segment: the reader stays in the segment, prints the    *)
(* string of a writer that has signalled, and one writer at most succeeds. *)
(***************************************************************************)
EXTENDS MiniCrtHeap, KVServer, SvShm, NaturalsInduction, FiniteSetTheorems, SequenceTheorems, TLAPS

-----------------------------------------------------------------------------
(* The heap of the mini C runtime. *)
-----------------------------------------------------------------------------
(* The least element of a set of naturals: induction, as a fact about      *)
(* sets.                                                                   *)
LEMMA Smallest ==
  ASSUME NEW T \in SUBSET Nat, T # {}
  PROVE  \E n \in T : \A m \in T : n <= m
<1>1. PICK x \in T : \A y \in T : <<y, x>> \notin OpToRel(<, Nat)
  BY NatLessThanWellFounded, WFMin
<1>2. \A y \in T : y < x => <<y, x>> \in OpToRel(<, Nat)
  BY DEF OpToRel
<1>3. \A y \in T : ~(y < x)
  BY <1>1, <1>2
<1> QED
  BY <1>3

(* The list, walked from its head as far as its headers lead.              *)
Link == Address \cup {NULL}
Step(h) == [a \in Link |-> IF a \in DOMAIN h THEN h[a].next ELSE a]

(* What every routine keeps of the headers, those on the list and the      *)
(* stale ones alike, whatever the program does.                            *)
Heap(h) == DOMAIN h \subseteq Address /\ h \in [DOMAIN h -> Header]

(* A step followed n times from b: there is such a run, for otherwise a    *)
(* shortest one would be missing, which is the one before and a step.      *)
Run(f, n, S, b, g) == f \in [0..n -> S] /\ f[0] = b /\ \A k \in 1..n : f[k] = g[f[k - 1]]

LEMMA RunExists ==
  ASSUME NEW n \in Nat, NEW S, NEW b \in S, NEW g \in [S -> S]
  PROVE  \E f : Run(f, n, S, b, g)
<1> DEFINE Ok(m) == \E f \in [0..m -> S] : f[0] = b /\ \A k \in 1..m : f[k] = g[f[k - 1]]
           B == {m \in Nat : m <= n /\ ~Ok(m)}
<1>a. Ok(n) => \E f : Run(f, n, S, b, g)
  BY DEF Run
<1>b. B = {} => Ok(n)
  <2> HIDE DEF Ok
  <2> QED
    OBVIOUS
<1> SUFFICES ASSUME B # {} PROVE FALSE
  BY <1>a, <1>b
<1>1. PICK m \in B : \A j \in B : m <= j
  BY Smallest
<1>2. m # 0
  <2>1. Ok(0)
    <3> DEFINE f == [k \in 0..0 |-> b]
    <3>1. f \in [0..0 -> S] /\ f[0] = b /\ 1..0 = {}
      OBVIOUS
    <3> QED
      BY <3>1
  <2> QED
    BY <1>1, <2>1
<1>3. m - 1 \in Nat /\ m - 1 <= n /\ m \in 1..n /\ Ok(m - 1)
  <2> HIDE DEF Ok
  <2>1. m - 1 \in Nat /\ m - 1 <= n /\ m \in 1..n /\ ~(m <= m - 1)
    BY <1>1, <1>2
  <2> QED
    BY <1>1, <2>1
<1>4. PICK f \in [0..m - 1 -> S] : f[0] = b /\ \A k \in 1..m - 1 : f[k] = g[f[k - 1]]
  BY <1>3
<1> DEFINE e == [k \in 0..m |-> IF k = m THEN g[f[m - 1]] ELSE f[k]]
<1>5. f[m - 1] \in S /\ g[f[m - 1]] \in S
  BY <1>3, <1>4
<1>6. e \in [0..m -> S]
  <2>1. ASSUME NEW k \in 0..m, k # m PROVE f[k] \in S
    BY <2>1, <1>3, <1>4
  <2> QED
    BY <2>1, <1>5
<1>7. e[0] = b
  BY <1>2, <1>3, <1>4
<1>8. ASSUME NEW k \in 1..m PROVE e[k] = g[e[k - 1]]
  <2>1. e[k - 1] = f[k - 1]
    <3>1. k - 1 \in 0..m /\ k - 1 # m
      BY <1>3
    <3> QED
      BY <3>1
  <2>2. CASE k = m
    <3>1. e[m] = g[f[m - 1]]
      BY <1>3
    <3> HIDE DEF e
    <3> QED
      BY <2>1, <2>2, <3>1
  <2>3. CASE k # m
    <3>1. k \in 1..m - 1 /\ e[k] = f[k]
      BY <2>3, <1>3
    <3> QED
      BY <3>1, <2>1, <1>4
  <2> QED
    BY <2>2, <2>3
<1>9. Ok(m)
  <2> HIDE DEF e
  <2> QED
    BY <1>6, <1>7, <1>8
<1> QED
  BY <1>1, <1>9

LEMMA WalkUnfolds ==
  ASSUME NEW h, Heap(h)
  PROVE  /\ Walk(h)[0] = list_head
         /\ \A n \in 1..HeapSize : Walk(h)[n] = Step(h)[Walk(h)[n - 1]]
         /\ \A n \in 0..HeapSize : Walk(h)[n] \in Link
<1> DEFINE g == Step(h)
           Unfolds(f) == f = [n \in 0..HeapSize |-> IF n = 0 THEN list_head ELSE g[f[n - 1]]]
<1>1. HeapSize \in Nat /\ list_head \in Link
  BY HeapHoldsHeader, HeaderSizePositive DEF Link, Address, list_head
<1>2. g \in [Link -> Link]
  <2>1. \A a \in DOMAIN h : h[a] \in Header
    BY DEF Heap
  <2>2. \A a \in Link : (IF a \in DOMAIN h THEN h[a].next ELSE a) \in Link
    BY <2>1 DEF Link, Header
  <2> QED
    BY <2>2 DEF Step
<1>3. Walk(h) = CHOOSE f : Unfolds(f)
  BY DEF Walk, Step, Link
<1> HIDE DEF g
<1>4. PICK f : Run(f, HeapSize, Link, list_head, g)
  BY <1>1, <1>2, RunExists
<1>5. Unfolds(f)
  <2>1. f \in [0..HeapSize -> Link]
    BY <1>4 DEF Run
  <2>2. \A n \in 0..HeapSize : f[n] = IF n = 0 THEN list_head ELSE g[f[n - 1]]
    BY <1>1, <1>4 DEF Run
  <2> QED
    BY <2>1, <2>2
<1>6. Unfolds(Walk(h))
  <2>1. \E x : Unfolds(x)
    BY <1>5
  <2>2. Unfolds(CHOOSE x : Unfolds(x))
    BY <2>1, Zenon
  <2> QED
    BY <1>3, <2>2
<1> DEFINE w == Walk(h)
<1> HIDE DEF w
<1>7. w = [n \in 0..HeapSize |-> IF n = 0 THEN list_head ELSE g[w[n - 1]]]
  BY <1>6 DEF w
<1>8. w[0] = list_head /\ \A n \in 1..HeapSize : w[n] = g[w[n - 1]]
  BY <1>1, <1>7
<1>9. \A n \in 0..HeapSize : w[n] \in Link
  <2> DEFINE B == {n \in 0..HeapSize : w[n] \notin Link}
  <2> SUFFICES ASSUME B # {} PROVE FALSE
    OBVIOUS
  <2>0. B \in SUBSET Nat
    BY <1>1
  <2>1. PICK n \in B : \A m \in B : n <= m
    BY <2>0, Smallest
  <2>2. n # 0 /\ n \in 1..HeapSize /\ n - 1 \in 0..HeapSize /\ n - 1 \notin B
    BY <1>1, <1>8, <2>1
  <2>3. w[n] = g[w[n - 1]] /\ w[n - 1] \in Link
    BY <1>8, <2>2
  <2> QED
    BY <1>2, <2>1, <2>3
<1> QED
  BY <1>8, <1>9 DEF w, g

(* A header that the walk meets was led to by one that it met before.      *)
LEMMA WalkFacts ==
  ASSUME NEW h, Heap(h)
  PROVE  /\ ListOf(h) \subseteq DOMAIN h
         /\ list_head \in DOMAIN h => list_head \in ListOf(h)
         /\ \A n \in 1..HeapSize : Walk(h)[n] \in DOMAIN h =>
              /\ Walk(h)[n - 1] \in DOMAIN h /\ Walk(h)[n - 1] \in ListOf(h)
              /\ Walk(h)[n] = h[Walk(h)[n - 1]].next
         /\ \A n \in 0..(HeapSize - 1) : Walk(h)[n] \in DOMAIN h => Walk(h)[n + 1] = h[Walk(h)[n]].next
<1> DEFINE w == Walk(h)
<1>2. ListOf(h) = {w[n] : n \in 0..HeapSize} \cap DOMAIN h /\ HeapSize \in Nat
  BY HeapHoldsHeader DEF ListOf
<1>1. /\ w[0] = list_head
      /\ \A n \in 1..HeapSize : w[n] = IF w[n - 1] \in DOMAIN h THEN h[w[n - 1]].next ELSE w[n - 1]
  <2>1. \A n \in 1..HeapSize : n - 1 \in 0..HeapSize
    BY <1>2
  <2>2. /\ w[0] = list_head
        /\ \A n \in 1..HeapSize : w[n] = Step(h)[w[n - 1]] /\ w[n - 1] \in Link
    BY <2>1, WalkUnfolds
  <2> QED
    BY <2>2 DEF Step
<1> HIDE DEF w
<1>3. ASSUME NEW n \in 1..HeapSize, w[n] \in DOMAIN h
      PROVE  w[n - 1] \in DOMAIN h /\ w[n - 1] \in ListOf(h) /\ w[n] = h[w[n - 1]].next
  <2>1. n - 1 \in 0..HeapSize
    BY <1>2
  <2> QED
    BY <1>1, <1>2, <1>3, <2>1
<1>4. ASSUME NEW n \in 0..(HeapSize - 1), w[n] \in DOMAIN h PROVE w[n + 1] = h[w[n]].next
  <2>1. n + 1 \in 1..HeapSize /\ (n + 1) - 1 = n
    BY <1>2
  <2> QED
    BY <1>1, <1>4, <2>1
<1> QED
  BY <1>1, <1>2, <1>3, <1>4 DEF w

(* Headers each of which is the next of a lower one are on the list: the   *)
(* walk has met the one at a after a steps at most.                        *)
LEMMA WalkReaches ==
  ASSUME NEW h, Heap(h), NEW D \in SUBSET DOMAIN h,
         \A b \in D : b = list_head \/ \E a \in D : a < b /\ h[a].next = b
  PROVE  D \subseteq ListOf(h)
<1> DEFINE w == Walk(h)
           Met(b) == \E n \in 0..HeapSize : n <= b /\ w[n] = b
           B == {b \in D : ~Met(b)}
<1>1. HeapSize \in Nat /\ D \subseteq Nat /\ \A b \in D : b < HeapSize
  BY HeapHoldsHeader DEF Heap, Address
<1>2. w[0] = list_head
  BY WalkUnfolds
<1>3. \A n \in 0..(HeapSize - 1) : w[n] \in DOMAIN h => w[n + 1] = h[w[n]].next
  BY WalkFacts
<1>4. \A b \in D : Met(b) => b \in ListOf(h)
  BY DEF ListOf
<1> HIDE DEF w
<1>5. B = {}
  <2> SUFFICES ASSUME B # {} PROVE FALSE
    OBVIOUS
  <2>1. PICK b \in B : \A c \in B : b <= c
    BY <1>1, Smallest
  <2>2. b # list_head
    BY <1>1, <1>2, <2>1 DEF list_head
  <2>3. PICK a \in D : a < b /\ h[a].next = b
    BY <2>1, <2>2
  <2>4. a \in Nat /\ b \in Nat /\ b < HeapSize /\ Met(a)
    BY <1>1, <2>1, <2>3
  <2>5. PICK n \in 0..HeapSize : n <= a /\ w[n] = a
    BY <2>4
  <2>6. n \in 0..(HeapSize - 1) /\ n + 1 \in 0..HeapSize /\ n + 1 <= b
    BY <1>1, <2>3, <2>4, <2>5
  <2>7. w[n + 1] = b
    BY <1>3, <2>3, <2>5, <2>6
  <2>8. Met(b)
    BY <2>6, <2>7
  <2> QED
    BY <2>1, <2>8
<1> QED
  BY <1>4, <1>5

(* The blocks of S fill the heap, one after the other; prev leads down.    *)
Tiling(h, S) ==
  /\ S \subseteq DOMAIN h /\ list_head \in S
  /\ \A a \in S : /\ h[a].size > 0 /\ a + h[a].size <= HeapSize
                  /\ h[a].next = IF a + h[a].size = HeapSize THEN NULL ELSE a + h[a].size
                  /\ a + h[a].size # HeapSize => a + h[a].size \in S
                  /\ h[a].prev < a
  /\ \A b \in S : b # list_head => \E a \in S : a + h[a].size = b

(* A tiling is the list: the walk meets every block of it, and from a      *)
(* block of it only another one.                                           *)
LEMMA TilingIsList ==
  ASSUME NEW h, NEW S, Heap(h), Tiling(h, S)
  PROVE  ListOf(h) = S
<1>1. \A a \in S : /\ a \in Nat /\ a \in DOMAIN h /\ a < HeapSize /\ h[a].size \in Nat
                   /\ h[a].size > 0 /\ HeapSize \in Nat
  BY HeapHoldsHeader DEF Heap, Header, Address, Tiling
<1>2. S \subseteq ListOf(h)
  <2>1. ASSUME NEW b \in S PROVE b = list_head \/ \E a \in S : a < b /\ h[a].next = b
    <3> SUFFICES ASSUME b # list_head PROVE \E a \in S : a < b /\ h[a].next = b
      OBVIOUS
    <3>1. PICK a \in S : a + h[a].size = b
      BY DEF Tiling
    <3>2. a < b /\ a + h[a].size # HeapSize
      BY <1>1, <3>1
    <3> QED
      BY <3>1, <3>2 DEF Tiling
  <2>2. S \in SUBSET DOMAIN h
    BY DEF Tiling
  <2> QED
    BY <2>1, <2>2, WalkReaches
<1>3. ListOf(h) \subseteq S
  <2> DEFINE w == Walk(h)
             B == {n \in 0..HeapSize : w[n] \in DOMAIN h \ S}
  <2>1. w[0] = list_head /\ list_head \in S
    BY WalkUnfolds DEF Tiling
  <2>2. \A n \in 1..HeapSize : w[n] \in DOMAIN h =>
          w[n - 1] \in DOMAIN h /\ w[n] = h[w[n - 1]].next
    BY WalkFacts
  <2>3. B = {} => ListOf(h) \subseteq S
    BY DEF ListOf
  <2> HIDE DEF w
  <2> SUFFICES ASSUME B # {} PROVE FALSE
    BY <2>3
  <2>9. B \in SUBSET Nat /\ HeapSize \in Nat
    BY HeapHoldsHeader
  <2>4. PICK n \in B : \A m \in B : n <= m
    BY <2>9, Smallest
  <2>5. n # 0 /\ n \in 1..HeapSize /\ n - 1 \in 0..HeapSize /\ n - 1 \notin B
    BY <2>1, <2>4, <2>9
  <2>6. w[n - 1] \in S /\ w[n] = h[w[n - 1]].next
    BY <2>2, <2>4, <2>5
  <2>7. w[n] \in S \cup {NULL}
    BY <2>6 DEF Tiling
  <2>8. NULL \notin DOMAIN h
    BY DEF Heap, Address, NULL
  <2> QED
    BY <2>4, <2>7, <2>8
<1> QED
  BY <1>2, <1>3

(* A list as Sound says it is a tiling: its links lead up, so the walk has *)
(* not gone far enough to miss the next of any block it met.               *)
LEMMA SoundIsTiling ==
  ASSUME Heap(hdr), Sound
  PROVE  Tiling(hdr, List)
<1> DEFINE w == Walk(hdr)
<1>1. /\ List = ListOf(hdr) /\ list_head \in List /\ List \subseteq DOMAIN hdr
      /\ HeapSize \in Nat
  BY WalkFacts, HeapHoldsHeader DEF List, Sound, Tiled
<1>2. \A a \in List : /\ a \in Nat /\ a < HeapSize /\ hdr[a].size \in Nat
                      /\ hdr[a].next = (IF a + hdr[a].size = HeapSize THEN NULL ELSE a + hdr[a].size)
                      /\ a + hdr[a].size > a /\ a + hdr[a].size <= HeapSize
                      /\ hdr[a].next \in DOMAIN hdr \cup {NULL}
                      /\ hdr[a].prev < a
  BY <1>1 DEF Sound, Tiled, Heap, Header, Address
<1>3. /\ w[0] = list_head
      /\ \A n \in 1..HeapSize : w[n] \in DOMAIN hdr =>
           w[n - 1] \in DOMAIN hdr /\ w[n - 1] \in List /\ w[n] = hdr[w[n - 1]].next
      /\ \A n \in 0..(HeapSize - 1) : w[n] \in DOMAIN hdr => w[n + 1] = hdr[w[n]].next
  BY <1>1, WalkUnfolds, WalkFacts
<1>4. /\ \A b \in List : \E n \in 0..HeapSize : w[n] = b
      /\ \A n \in 0..HeapSize : w[n] \in DOMAIN hdr => w[n] \in List
  BY <1>1 DEF ListOf
<1>5. NULL \notin DOMAIN hdr /\ NULL \notin Nat
  BY DEF Heap, Address, NULL
<1> HIDE DEF w
<1>6. \A n \in 0..HeapSize : w[n] \in DOMAIN hdr => n <= w[n]
  <2> DEFINE B == {n \in 0..HeapSize : w[n] \in DOMAIN hdr /\ ~(n <= w[n])}
  <2> SUFFICES ASSUME B # {} PROVE FALSE
    OBVIOUS
  <2>0. B \in SUBSET Nat
    BY <1>1
  <2>1. PICK n \in B : \A m \in B : n <= m
    BY <2>0, Smallest
  <2>2. n # 0
    BY <1>3, <2>1 DEF list_head
  <2>3. n \in 1..HeapSize /\ n - 1 \in 0..HeapSize /\ n - 1 \notin B /\ w[n] \in DOMAIN hdr
    BY <1>1, <2>1, <2>2
  <2>4. /\ w[n - 1] \in List /\ w[n] = hdr[w[n - 1]].next /\ n - 1 <= w[n - 1]
    BY <1>1, <1>3, <2>3
  <2>5. w[n] > w[n - 1] /\ w[n] \in Nat /\ w[n - 1] \in Nat
    BY <1>2, <1>4, <1>5, <2>3, <2>4
  <2>6. n <= w[n]
    BY <2>3, <2>4, <2>5
  <2> QED
    BY <2>1, <2>6
<1>7. ASSUME NEW a \in List, a + hdr[a].size # HeapSize PROVE a + hdr[a].size \in List
  <2>1. PICK n \in 0..HeapSize : w[n] = a
    BY <1>4
  <2>2. n <= a /\ n \in 0..(HeapSize - 1) /\ n + 1 \in 0..HeapSize
    BY <1>1, <1>2, <1>6, <2>1
  <2>3. w[n + 1] = a + hdr[a].size /\ w[n + 1] \in DOMAIN hdr
    BY <1>1, <1>2, <1>3, <1>5, <1>7, <2>1, <2>2
  <2> QED
    BY <1>4, <2>2, <2>3
<1>8. ASSUME NEW b \in List, b # list_head PROVE \E a \in List : a + hdr[a].size = b
  <2>1. PICK n \in 0..HeapSize : w[n] = b
    BY <1>4
  <2>2. n \in 1..HeapSize
    BY <1>3, <1>8, <2>1
  <2>3. w[n - 1] \in List /\ hdr[w[n - 1]].next = b
    BY <1>1, <1>3, <2>1, <2>2
  <2> QED
    BY <1>1, <1>2, <1>5, <2>3
<1> QED
  BY <1>1, <1>2, <1>7, <1>8 DEF Tiling

(* The blocks of a tiling do not overlap. *)
LEMMA Disjoint ==
  ASSUME NEW h, NEW S, Heap(h), Tiling(h, S), NEW a \in S, NEW b \in S, a < b
  PROVE  a + h[a].size <= b
<1> DEFINE Inside == {y \in S : \E x \in S : x < y /\ y < x + h[x].size}
<1>1. \A y \in S : y \in Nat /\ h[y].size \in Nat /\ h[y].size > 0
  BY DEF Heap, Header, Address, Tiling
<1>2. Inside = {}
  <2> SUFFICES ASSUME Inside # {} PROVE FALSE
    OBVIOUS
  <2>1. PICK y \in Inside : \A z \in Inside : y <= z
    BY <1>1, Smallest
  <2>2. PICK x \in S : x < y /\ y < x + h[x].size
    BY <2>1
  <2>3. y # list_head
    BY <1>1, <2>2 DEF list_head
  <2>4. PICK c \in S : c + h[c].size = y
    BY <2>1, <2>3 DEF Tiling
  <2>5. c < y
    BY <1>1, <2>4
  <2>6. CASE c > x
    BY <1>1, <2>1, <2>2, <2>4, <2>5, <2>6
  <2>7. CASE c = x
    BY <1>1, <2>2, <2>4, <2>7
  <2>8. CASE c < x
    BY <1>1, <2>1, <2>2, <2>4, <2>5, <2>8
  <2> QED
    BY <1>1, <2>6, <2>7, <2>8
<1> QED
  BY <1>1, <1>2
-----------------------------------------------------------------------------
LEMMA Fields ==
  ASSUME NEW h, NEW S, Heap(h), Tiling(h, S)
  PROVE  \A a \in S : /\ a \in Nat /\ a \in Address /\ a \in DOMAIN h /\ h[a] \in Header
                      /\ h[a].size \in Nat /\ h[a].size > 0 /\ a + h[a].size <= HeapSize
                      /\ h[a].next \in Address \cup {NULL} /\ h[a].prev \in Address \cup {NULL}
                      /\ h[a].prev < a
BY DEF Heap, Header, Address, Tiling

(* Changing the type of a block, as line 27 and line 90 do.                *)
LEMMA TakeTiles ==
  ASSUME NEW h, NEW S, Heap(h), Tiling(h, S), NEW a \in S, NEW t \in {"FREE", "USED"},
         NEW g, g = [h EXCEPT ![a].type = t]
  PROVE  /\ Heap(g) /\ Tiling(g, S) /\ DOMAIN g = DOMAIN h
         /\ \A b \in DOMAIN h : /\ g[b].size = h[b].size /\ g[b].next = h[b].next
                                /\ g[b].prev = h[b].prev
                                /\ g[b].type = IF b = a THEN t ELSE h[b].type
<1>0. a \in DOMAIN h /\ \A b \in DOMAIN h : h[b] \in Header
  BY DEF Tiling, Heap
<1>1. [h[a] EXCEPT !.type = t] \in Header
  BY <1>0 DEF Header
<1>2. /\ DOMAIN g = DOMAIN h /\ g \in [DOMAIN h -> Header]
      /\ \A b \in DOMAIN h : /\ g[b].size = h[b].size /\ g[b].next = h[b].next
                             /\ g[b].prev = h[b].prev
                             /\ g[b].type = IF b = a THEN t ELSE h[b].type
  BY <1>0, <1>1 DEF Header
<1>3. Heap(g)
  BY <1>2 DEF Heap
<1>4. Tiling(g, S)
  BY <1>2 DEF Tiling
<1> QED
  BY <1>2, <1>3, <1>4

(* A write that hits no header of the list.                                *)
LEMMA ScrubTiles ==
  ASSUME NEW h, NEW S, Heap(h), Tiling(h, S), NEW lo \in Nat, NEW n \in Nat,
         \A b \in S : ~Overlap(lo, n, b, HeaderSize)
  PROVE  LET g == Scrub(h, lo, n)
         IN /\ Heap(g) /\ Tiling(g, S) /\ DOMAIN g \subseteq DOMAIN h
            /\ \A b \in DOMAIN g : g[b] = h[b]
<1> DEFINE g == Scrub(h, lo, n)
<1>1. /\ DOMAIN g = {b \in DOMAIN h : ~Overlap(lo, n, b, HeaderSize)}
      /\ \A b \in DOMAIN g : g[b] = h[b]
  BY DEF Scrub
<1>2. S \subseteq DOMAIN g
  BY <1>1 DEF Tiling
<1>3. g = [b \in DOMAIN g |-> g[b]]
  BY DEF Scrub
<1> HIDE DEF g
<1>4. Heap(g)
  <2>1. \A b \in DOMAIN g : g[b] \in Header
    BY <1>1 DEF Heap
  <2>2. g \in [DOMAIN g -> Header]
    BY <1>3, <2>1
  <2> QED
    BY <1>1, <2>2 DEF Heap
<1>5. Tiling(g, S)
  BY <1>1, <1>2 DEF Tiling
<1> QED
  BY <1>1, <1>4, <1>5 DEF g

(* Lines 77-89: the new header lies inside the block that is split.        *)
LEMMA SplitTiles ==
  ASSUME NEW h, NEW S, Heap(h), Tiling(h, S), NEW a \in S, NEW size \in Nat \ {0},
         h[a].size > size + HeaderSize * 2,
         NEW g, g = Split(h, a, size), NEW new, new = a + size + HeaderSize
  PROVE  /\ Heap(g) /\ Tiling(g, S \cup {new}) /\ new \notin S /\ a < new
         /\ DOMAIN g \subseteq DOMAIN h \cup {new}
         /\ \A b \in DOMAIN g \ {a, new} : g[b] = h[b]
         /\ g[a].type = "USED" /\ g[a].size = size + HeaderSize
         /\ g[a].next = new /\ g[a].prev = h[a].prev
         /\ g[new].type = "FREE" /\ g[new].next = h[a].next /\ g[new].prev = a
<1> DEFINE rest == [type |-> "FREE", size |-> h[a].size - (size + HeaderSize),
                    next |-> h[a].next, prev |-> a]
           first == [type |-> "USED", size |-> size + HeaderSize,
                     next |-> new, prev |-> h[a].prev]
           kept == Scrub(h, new, HeaderSize)
<1>1. /\ a \in Nat /\ a \in DOMAIN h /\ h[a] \in Header
      /\ HeaderSize \in Nat /\ HeaderSize > 0 /\ HeapSize \in Nat /\ Unsigned \in Nat /\ HeapSize < Unsigned
      /\ h[a].size \in Nat /\ a + h[a].size <= HeapSize
      /\ h[a].next \in Address \cup {NULL}
  BY Fields, HeaderSizePositive, HeapHoldsHeader, UnsignedHoldsHeap
<1>2. new \in Nat /\ new \in Address /\ a < new /\ new + HeaderSize < a + h[a].size
  BY <1>1 DEF Address
<1>3. \A b \in S : /\ b \in Nat /\ b \in DOMAIN h /\ h[b] \in Header
                   /\ b <= a \/ b >= a + h[a].size
                   /\ b < a => b + h[b].size <= a
  BY <1>1, Fields, Disjoint
<1>4. new \notin S
  BY <1>1, <1>2, <1>3
<1>5. \A b \in S : ~Overlap(new, HeaderSize, b, HeaderSize)
  BY <1>1, <1>2, <1>3 DEF Overlap
<1>6. /\ Heap(kept) /\ Tiling(kept, S) /\ DOMAIN kept \subseteq DOMAIN h
      /\ \A b \in DOMAIN kept : kept[b] = h[b]
  <2>1. new \in Nat /\ HeaderSize \in Nat
    BY <1>1, <1>2
  <2> QED
    BY <2>1, <1>5, ScrubTiles
<1>7. g = [b \in DOMAIN kept \cup {new} |->
             IF b = new THEN rest ELSE IF b = a THEN first ELSE kept[b]]
  BY DEF Split
<1>8. first \in Header /\ rest \in Header
  BY <1>1, <1>2 DEF Header, Heap
<1>9. /\ first.type = "USED" /\ first.size = size + HeaderSize
      /\ first.next = new /\ first.prev = h[a].prev
      /\ rest.type = "FREE" /\ rest.size = h[a].size - (size + HeaderSize)
      /\ rest.next = h[a].next /\ rest.prev = a
  OBVIOUS
<1>10. S \subseteq DOMAIN kept
  BY <1>6 DEF Tiling
<1> HIDE DEF first, rest, kept
<1>11. /\ DOMAIN g = DOMAIN kept \cup {new}
       /\ g[new] = rest /\ g[a] = first
       /\ \A b \in DOMAIN kept \ {a, new} : g[b] = kept[b] /\ kept[b] = h[b]
  BY <1>2, <1>6, <1>7, <1>10
<1>13. Heap(g)
  <2>1. DOMAIN g \subseteq Address
    BY <1>2, <1>6, <1>11 DEF Heap
  <2>2. \A b \in DOMAIN g : g[b] \in Header
    BY <1>6, <1>8, <1>11 DEF Heap
  <2>3. g \in [DOMAIN g -> Header]
    BY <1>7, <2>2
  <2> QED
    BY <2>1, <2>3 DEF Heap
<1>14. Tiling(g, S \cup {new})
  <2>1. \A b \in S \ {a} : g[b] = h[b]
    BY <1>4, <1>10, <1>11
  <2>2. /\ a + g[a].size = new /\ new + g[new].size = a + h[a].size
        /\ g[a].size > 0 /\ g[new].size > 0 /\ new # HeapSize
    BY <1>1, <1>2, <1>9, <1>11
  <2>3. \A b \in S : b # list_head => \E c \in S \cup {new} : c + g[c].size = b
    <3> SUFFICES ASSUME NEW b \in S, b # list_head
                 PROVE  \E c \in S \cup {new} : c + g[c].size = b
      OBVIOUS
    <3>1. PICK c \in S : c + h[c].size = b
      BY DEF Tiling
    <3> QED
      BY <2>1, <2>2, <3>1
  <2>4. \A b \in S \ {a} :
          /\ g[b].size > 0 /\ b + g[b].size <= HeapSize
          /\ g[b].next = IF b + g[b].size = HeapSize THEN NULL ELSE b + g[b].size
          /\ b + g[b].size # HeapSize => b + g[b].size \in S
          /\ g[b].prev < b
    BY <2>1 DEF Tiling
  <2>5. /\ g[new].next = IF new + g[new].size = HeapSize THEN NULL ELSE new + g[new].size
        /\ new + g[new].size # HeapSize => new + g[new].size \in S
        /\ new + g[new].size <= HeapSize
    BY <1>1, <1>9, <1>11, <2>2 DEF Tiling
  <2>6. g[a].next = new /\ new <= HeapSize /\ g[a].prev < a /\ g[new].prev < new
    BY <1>1, <1>2, <1>9, <1>11 DEF Tiling
  <2>7. S \cup {new} \subseteq DOMAIN g /\ list_head \in S
    BY <1>10, <1>11 DEF Tiling
  <2> QED
    BY <2>2, <2>3, <2>4, <2>5, <2>6, <2>7 DEF Tiling
<1> QED
  BY <1>2, <1>4, <1>6, <1>9, <1>11, <1>13, <1>14

-----------------------------------------------------------------------------
(* Merging a free successor into a. *)
LEMMA ForwardTiles ==
  ASSUME NEW h, NEW S, Heap(h), Tiling(h, S), NEW a \in S
  PROVE  LET g == MergeForward(h, a)
         IN \E T \in SUBSET S :
              /\ Heap(g) /\ Tiling(g, T) /\ a \in T /\ DOMAIN g = DOMAIN h
              /\ \A b \in DOMAIN h : /\ g[b].type = h[b].type /\ g[b].prev = h[b].prev
                                     /\ b # a => g[b] = h[b]
              /\ \A b \in S \ T : h[b].type = "FREE" /\ b = h[a].next /\ g[a].next = h[b].next
              /\ T = S => g = h /\ (h[a].next \in DOMAIN h => h[h[a].next].type # "FREE")
<1> DEFINE g == MergeForward(h, a)
           n == h[a].next
           size == h[a].size + h[n].size
<1>1. /\ \A b \in S : /\ b \in Nat /\ b \in Address /\ b \in DOMAIN h /\ h[b] \in Header
                      /\ h[b].size \in Nat /\ h[b].size > 0 /\ b + h[b].size <= HeapSize
                      /\ h[b].next \in Address \cup {NULL}
      /\ HeapSize \in Nat /\ Unsigned \in Nat /\ HeapSize < Unsigned
      /\ \A b \in DOMAIN h : h[b] \in Header
  BY Fields, HeapHoldsHeader, UnsignedHoldsHeap DEF Heap
<1>2. CASE ~(n \in DOMAIN h /\ h[n].type = "FREE")
  <2>1. g = h
    BY <1>2 DEF MergeForward
  <2>2. n \in DOMAIN h => h[n].type # "FREE"
    BY <1>2
  <2> HIDE DEF g, n
  <2> QED
    BY <2>1, <2>2 DEF g, n
<1>3. CASE n \in DOMAIN h /\ h[n].type = "FREE"
  <2> DEFINE T == S \ {n}
             r == [h[a] EXCEPT !.size = size % Unsigned, !.next = h[n].next]
  <2>1. /\ n = a + h[a].size /\ n \in S /\ n > a
    BY <1>1, <1>3 DEF Tiling, Heap, Address, NULL
  <2>2. size \in Nat /\ size > 0 /\ a + size = n + h[n].size /\ a + size <= HeapSize
    BY <1>1, <2>1
  <2>3. size % Unsigned = size
    <3> HIDE DEF size
    <3> QED
      BY <1>1, <2>2
  <2>4. g = [h EXCEPT ![a] = r]
    BY <1>1, <1>3 DEF MergeForward
  <2>5. /\ r \in Header /\ r.size = size /\ r.next = h[n].next
        /\ r.type = h[a].type /\ r.prev = h[a].prev
    <3> HIDE DEF size
    <3>1. size \in 0..(Unsigned - 1)
      BY <1>1, <2>2
    <3> HIDE DEF n
    <3> QED
      BY <1>1, <2>1, <2>3, <3>1 DEF Header
  <2> HIDE DEF g, r
  <2>6. /\ DOMAIN g = DOMAIN h /\ g[a] = r /\ g \in [DOMAIN h -> Header]
        /\ \A b \in DOMAIN h : b # a => g[b] = h[b]
    BY <1>1, <2>4, <2>5
  <2>7. \A b \in S : b # a => b + h[b].size # n
    BY <1>1, <2>1, Disjoint
  <2> HIDE DEF n, size
  <2>8. Tiling(g, T)
    <3>1. T \subseteq DOMAIN g /\ list_head \in T /\ a \in T
      BY <1>1, <2>1, <2>6 DEF Tiling, list_head
    <3>2. \A b \in T \ {a} :
            /\ g[b].size > 0 /\ b + g[b].size <= HeapSize
            /\ g[b].next = IF b + g[b].size = HeapSize THEN NULL ELSE b + g[b].size
            /\ b + g[b].size # HeapSize => b + g[b].size \in T
            /\ g[b].prev < b
      BY <1>1, <2>6, <2>7 DEF Tiling
    <3>3. /\ g[a].size > 0 /\ a + g[a].size <= HeapSize
          /\ g[a].next = IF a + g[a].size = HeapSize THEN NULL ELSE a + g[a].size
          /\ a + g[a].size # HeapSize => a + g[a].size \in T
          /\ g[a].prev < a
      BY <1>1, <2>1, <2>2, <2>5, <2>6 DEF Tiling
    <3>4. ASSUME NEW b \in T, b # list_head PROVE \E c \in T : c + g[c].size = b
      <4>1. PICK c \in S : c + h[c].size = b
        BY <3>4 DEF Tiling
      <4>2. CASE c = n
        BY <1>1, <2>2, <2>5, <2>6, <3>1, <4>1, <4>2
      <4>3. CASE c # n
        BY <1>1, <2>1, <2>6, <3>4, <4>1, <4>3
      <4> QED
        BY <4>2, <4>3
    <3> QED
      BY <3>1, <3>2, <3>3, <3>4 DEF Tiling
  <2>9. Heap(g)
    BY <2>6 DEF Heap
  <2>10. /\ T \in SUBSET S /\ a \in T /\ T # S
         /\ \A b \in S \ T : b = n
    BY <1>1, <2>1
  <2>11. n = h[a].next /\ h[n].type = "FREE"
    BY <1>3 DEF n
  <2> HIDE DEF T
  <2> QED
    BY <2>5, <2>6, <2>8, <2>9, <2>10, <2>11 DEF g
<1> QED
  BY <1>2, <1>3

(* Line 35 of malloc.c, in the heap that the forward merge left. *)
Backward(h, a) == h[a].prev \in DOMAIN h /\ h[h[a].prev].type = "FREE"

(* Lines 35-42: which fields the backward merge changes.                   *)
LEMMA BackwardEffect ==
  ASSUME NEW h, NEW S, Heap(h), Tiling(h, S), NEW a \in S, Backward(h, a)
  PROVE  LET g == MergeBackward(h, a)
             p == h[a].prev
             n == h[a].next
         IN /\ Heap(g) /\ DOMAIN g = DOMAIN h
            /\ p < a /\ p \in Nat /\ g[p].next = n /\ g[p].size = (h[p].size + h[a].size) % Unsigned
            /\ \A b \in DOMAIN h : /\ g[b].type = h[b].type
                                   /\ b # p => g[b].size = h[b].size /\ g[b].next = h[b].next
                                   /\ b \notin {p, n} => g[b] = h[b]
            /\ g[p].prev = h[p].prev
            /\ n \in DOMAIN h => g[n].prev = p /\ p < n
            /\ \A b \in S : g[b].prev < b
<1> DEFINE g == MergeBackward(h, a)
           p == h[a].prev
           n == h[a].next
           size == (h[p].size + h[a].size) % Unsigned
           rp == [h[p] EXCEPT !.next = n, !.size = size, !.prev = IF n = p THEN p ELSE @]
           rn == [h[n] EXCEPT !.prev = p]
<1>1. /\ a \in DOMAIN h /\ p \in DOMAIN h /\ DOMAIN h \subseteq Address /\ Address \subseteq Nat
      /\ \A b \in DOMAIN h : h[b] \in Header /\ h[b].size \in Nat
      /\ n \in Address \cup {NULL} /\ p < a /\ (n # NULL => n > a)
      /\ Unsigned \in Nat /\ Unsigned > 0
  <2>1. /\ a \in DOMAIN h /\ p \in DOMAIN h /\ DOMAIN h \subseteq Address /\ Address \subseteq Nat
        /\ \A b \in DOMAIN h : h[b] \in Header /\ h[b].size \in Nat
        /\ Unsigned \in Nat /\ Unsigned > 0
    BY HeapHoldsHeader, UnsignedHoldsHeap DEF Backward, Tiling, Heap, Header, Address
  <2>2. /\ n \in Address \cup {NULL} /\ p < a
        /\ n = (IF a + h[a].size = HeapSize THEN NULL ELSE a + h[a].size) /\ h[a].size > 0
    BY Fields DEF Tiling
  <2>4. a \in Nat /\ h[a].size \in Nat
    BY <2>1
  <2>3. n # NULL => n > a
    <3> HIDE DEF n, p
    <3> QED
      BY <2>2, <2>4
  <2> QED
    BY <2>1, <2>2, <2>3
<1>2. g = [b \in DOMAIN h |-> IF b = p THEN rp ELSE IF b = n THEN rn ELSE h[b]]
  BY DEF MergeBackward, Backward
<1>3. size \in 0..(Unsigned - 1)
  <2> HIDE DEF p
  <2> QED
    BY <1>1
<1> HIDE DEF size
<1>6. p # n /\ (n \in DOMAIN h => n \in Nat /\ n > a)
  <2>1. NULL \notin Nat
    BY DEF NULL
  <2> HIDE DEF p, n
  <2>2. p \in Nat /\ a \in Nat /\ (n \in DOMAIN h => n \in Nat)
    BY <1>1
  <2> QED
    BY <1>1, <2>1, <2>2
<1>4. /\ rp \in Header /\ rp.next = n /\ rp.size = size /\ rp.type = h[p].type
      /\ rp.prev = h[p].prev
  <2> HIDE DEF p, n
  <2> QED
    BY <1>1, <1>3, <1>6 DEF Header
<1>5. n \in DOMAIN h => /\ rn \in Header /\ rn.next = h[n].next /\ rn.size = h[n].size
                        /\ rn.type = h[n].type /\ rn.prev = p
  <2> HIDE DEF p, n
  <2> QED
    BY <1>1 DEF Header
<1> HIDE DEF rp, rn, g
<1>7. /\ DOMAIN g = DOMAIN h /\ g[p] = rp /\ (n \in DOMAIN h => g[n] = rn)
      /\ \A b \in DOMAIN h : b \notin {p, n} => g[b] = h[b]
  <2> HIDE DEF p, n
  <2> QED
    BY <1>1, <1>2, <1>6
<1>8. \A b \in DOMAIN g : g[b] \in Header
  BY <1>1, <1>4, <1>5, <1>7
<1>9. g \in [DOMAIN g -> Header]
  BY <1>2, <1>8
<1> HIDE DEF p, n
<1>12. Heap(g)
  BY <1>1, <1>7, <1>9 DEF Heap
<1>13. \A b \in S : b \in DOMAIN h /\ h[b].prev < b
  BY DEF Tiling
<1>14. n \in DOMAIN h => p < n
  <2>1. p \in Nat /\ a \in Nat /\ p < a
    BY <1>1
  <2> QED
    BY <1>6, <2>1
<1>15. \A b \in S : g[b].prev < b
  BY <1>4, <1>5, <1>7, <1>13, <1>14
<1> QED
  BY <1>1, <1>4, <1>5, <1>6, <1>7, <1>12, <1>14, <1>15 DEF g, p, n, size

(* The prev that the block has is its neighbour's, and is free. *)
LEMMA BackwardTiles ==
  ASSUME NEW h, NEW S, Heap(h), Tiling(h, S), NEW a \in S, Backward(h, a),
         h[a].prev \in S, h[a].prev + h[h[a].prev].size = a
  PROVE  Tiling(MergeBackward(h, a), S \ {a})
<1> DEFINE g == MergeBackward(h, a)
           p == h[a].prev
           n == h[a].next
           T == S \ {a}
<1>1. /\ Heap(g) /\ DOMAIN g = DOMAIN h
      /\ p < a /\ g[p].next = n /\ g[p].size = (h[p].size + h[a].size) % Unsigned
      /\ \A b \in DOMAIN h : b # p => g[b].size = h[b].size /\ g[b].next = h[b].next
      /\ \A b \in S : g[b].prev < b
  BY BackwardEffect
<1>2. /\ \A b \in S : /\ b \in Nat /\ b \in Address /\ b \in DOMAIN h /\ h[b] \in Header
                      /\ h[b].size \in Nat /\ h[b].size > 0 /\ b + h[b].size <= HeapSize
                      /\ h[b].next \in Address \cup {NULL}
      /\ HeapSize \in Nat /\ Unsigned \in Nat /\ HeapSize < Unsigned
  BY Fields, HeapHoldsHeader, UnsignedHoldsHeap
<1>0. p \in S /\ p + h[p].size = a
  OBVIOUS
<1> HIDE DEF g, p
<1>3. g[p].size = h[p].size + h[a].size /\ p + g[p].size = a + h[a].size
  BY <1>0, <1>1, <1>2
<1>4. \A b \in S : b # p => b + h[b].size # a
  BY <1>0, <1>2, Disjoint
<1>5. T \subseteq DOMAIN g /\ list_head \in T /\ p \in T
  BY <1>0, <1>1, <1>2 DEF Tiling, list_head
<1>6. \A b \in T \ {p} :
        /\ g[b].size > 0 /\ b + g[b].size <= HeapSize
        /\ g[b].next = IF b + g[b].size = HeapSize THEN NULL ELSE b + g[b].size
        /\ b + g[b].size # HeapSize => b + g[b].size \in T
  BY <1>1, <1>2, <1>4 DEF Tiling
<1>7. /\ g[p].size > 0 /\ p + g[p].size <= HeapSize
      /\ g[p].next = IF p + g[p].size = HeapSize THEN NULL ELSE p + g[p].size
      /\ p + g[p].size # HeapSize => p + g[p].size \in T
  BY <1>0, <1>1, <1>2, <1>3 DEF Tiling
<1>8. ASSUME NEW b \in T, b # list_head PROVE \E c \in T : c + g[c].size = b
  <2>1. PICK c \in S : c + h[c].size = b
    BY <1>8 DEF Tiling
  <2>2. CASE c = a
    BY <1>3, <1>5, <2>1, <2>2
  <2>3. CASE c # a
    BY <1>0, <1>1, <1>2, <1>8, <2>1, <2>3
  <2> QED
    BY <2>2, <2>3
<1> HIDE DEF T
<1>9. \A b \in T : g[b].prev < b
  BY <1>1 DEF T
<1>10. Tiling(g, T)
  BY <1>5, <1>6, <1>7, <1>8, <1>9 DEF Tiling
<1> QED
  BY <1>10 DEF T, g

(* It is a header that is not on the list any more. *)
LEMMA BackwardStale ==
  ASSUME NEW h, NEW S, Heap(h), Tiling(h, S), NEW a \in S, Backward(h, a),
         h[a].prev \notin S
  PROVE  /\ Tiling(MergeBackward(h, a), S)
         /\ \A b \in S : MergeBackward(h, a)[b].size = h[b].size
<1> DEFINE g == MergeBackward(h, a)
           p == h[a].prev
<1>1. /\ DOMAIN g = DOMAIN h
      /\ \A b \in DOMAIN h : b # p => g[b].size = h[b].size /\ g[b].next = h[b].next
      /\ \A b \in S : g[b].prev < b
  BY BackwardEffect
<1>2. \A b \in S : b \in DOMAIN h /\ b # p
  BY DEF Tiling
<1> HIDE DEF g, p
<1>3. \A b \in S : g[b].size = h[b].size /\ g[b].next = h[b].next
  BY <1>1, <1>2
<1>4. Tiling(g, S)
  BY <1>1, <1>3 DEF Tiling
<1> QED
  BY <1>3, <1>4 DEF g

(* It is on the list, but not the block's neighbour: the list loses what   *)
(* lies between them, and does not fill the heap any more.                 *)
LEMMA BackwardWrong ==
  ASSUME NEW h, NEW S, Heap(h), Tiling(h, S), NEW a \in S, Backward(h, a),
         h[a].prev \in S, h[a].prev + h[h[a].prev].size # a
  PROVE  LET g == MergeBackward(h, a)
         IN \E b \in ListOf(g) :
              LET end == b + g[b].size
              IN g[b].next # (IF end = HeapSize THEN NULL ELSE end)
<1> DEFINE g == MergeBackward(h, a)
           p == h[a].prev
           n == h[a].next
<1>1. /\ Heap(g) /\ DOMAIN g = DOMAIN h
      /\ p < a /\ g[p].next = n /\ g[p].size = (h[p].size + h[a].size) % Unsigned
      /\ \A b \in DOMAIN h : b # p => g[b].size = h[b].size /\ g[b].next = h[b].next
      /\ \A b \in S : g[b].prev < b
  BY BackwardEffect
<1>2. /\ \A b \in S : /\ b \in Nat /\ b \in Address /\ b \in DOMAIN h /\ h[b] \in Header
                      /\ h[b].size \in Nat /\ h[b].size > 0 /\ b + h[b].size <= HeapSize
                      /\ h[b].next \in Address \cup {NULL}
      /\ HeapSize \in Nat /\ Unsigned \in Nat /\ HeapSize < Unsigned
  BY Fields, HeapHoldsHeader, UnsignedHoldsHeap
<1>0. p \in S /\ p + h[p].size # a
  OBVIOUS
<1> HIDE DEF g, p
<1>3. p + h[p].size < a
  BY <1>0, <1>1, <1>2, Disjoint
<1>4. /\ g[p].size = h[p].size + h[a].size /\ p + g[p].size < a + h[a].size
      /\ p + g[p].size \in Nat
  BY <1>0, <1>1, <1>2, <1>3
<1>5. n = (IF a + h[a].size = HeapSize THEN NULL ELSE a + h[a].size)
  BY DEF Tiling
<1>6. g[p].next # (IF p + g[p].size = HeapSize THEN NULL ELSE p + g[p].size)
  BY <1>1, <1>2, <1>4, <1>5 DEF NULL
<1>7. p \in ListOf(g)
  <2> DEFINE D == {b \in S : b <= p}
  <2>1. ASSUME NEW b \in D, b # list_head PROVE \E c \in D : c < b /\ g[c].next = b
    <3>1. PICK c \in S : c + h[c].size = b
      BY <2>1 DEF Tiling
    <3>2. b \in Nat /\ b \in Address /\ p \in Nat /\ b <= p /\ c < b /\ c # p
      BY <1>0, <1>2, <2>1, <3>1
    <3>3. h[c].next = b
      BY <1>2, <3>1, <3>2 DEF Tiling, Address
    <3>4. g[c].next = b /\ c \in D
      BY <1>1, <1>2, <3>1, <3>2, <3>3
    <3> QED
      BY <3>2, <3>4
  <2>2. D \in SUBSET DOMAIN g /\ p \in D
    BY <1>0, <1>1, <1>2
  <2> HIDE DEF D
  <2> QED
    BY <1>1, <2>1, <2>2, WalkReaches
<1> QED
  BY <1>6, <1>7 DEF g

-----------------------------------------------------------------------------
MergedIn(h, a) == MergeBackward(MergeForward([h EXCEPT ![a].type = "FREE"], a), a)

LinkedBothWays(h, S) == \A a \in S : h[a].next \in DOMAIN h => h[h[a].next].prev = a

(* Line 35 finds a free block of the list that is not the one before.      *)
Across(h, S, a) == h[a].prev \in S /\ h[h[a].prev].type = "FREE" /\ h[h[a].prev].next # a

(* When prev undoes next, it leads to the neighbour.                       *)
LEMMA PredecessorOf ==
  ASSUME NEW h, NEW S, Heap(h), Tiling(h, S), LinkedBothWays(h, S), NEW a \in S, a # list_head
  PROVE  h[a].prev \in S /\ h[a].prev + h[h[a].prev].size = a /\ h[h[a].prev].next = a
<1>1. PICK q \in S : q + h[q].size = a
  BY DEF Tiling
<1>2. a \in DOMAIN h /\ a # HeapSize
  BY HeapHoldsHeader DEF Tiling, Heap, Address
<1>3. h[q].next = a
  BY <1>1, <1>2 DEF Tiling
<1> QED
  BY <1>1, <1>2, <1>3 DEF LinkedBothWays

LEMMA LinkedNeverAcross ==
  ASSUME NEW h, NEW S, Heap(h), Tiling(h, S), LinkedBothWays(h, S), NEW a \in S
  PROVE  ~Across(h, S, a)
<1>1. CASE a = list_head
  <2>1. h[a].prev < 0 /\ \A p \in S : p \in Nat
    BY <1>1, Fields DEF Tiling, list_head
  <2> QED
    BY <2>1 DEF Across
<1>2. CASE a # list_head
  BY <1>2, PredecessorOf DEF Across
<1> QED
  BY <1>1, <1>2

(* A free leaves a tiling, or, exactly when it merges across, a list that  *)
(* does not fill the heap.                                                 *)
Breaks(g) == \E b \in ListOf(g) :
               LET end == b + g[b].size
               IN g[b].next # (IF end = HeapSize THEN NULL ELSE end)

Keeps(h, S, a, g, T) == /\ Tiling(g, T)
                        /\ \A b \in S \ T : b = a \/ h[b].type = "FREE"
                        /\ \A b \in T : g[b].type = "USED" => g[b].size = h[b].size

(* crt_free of a block of the list: it loses headers that are free, or the *)
(* block itself, and keeps the sizes of the blocks in use.                 *)
LEMMA FreeEffect ==
  ASSUME NEW h, NEW S, Heap(h), Tiling(h, S), NEW a \in S
  PROVE  /\ Heap(MergedIn(h, a)) /\ DOMAIN MergedIn(h, a) = DOMAIN h
         /\ \A b \in DOMAIN h : MergedIn(h, a)[b].type = IF b = a THEN "FREE" ELSE h[b].type
         /\ \/ /\ \E T \in SUBSET S : Keeps(h, S, a, MergedIn(h, a), T)
               /\ ~Across(h, S, a)
            \/ Across(h, S, a) /\ Breaks(MergedIn(h, a))
<1> DEFINE h1 == [h EXCEPT ![a].type = "FREE"]
           h2 == MergeForward(h1, a)
           g == MergeBackward(h2, a)
           p == h2[a].prev
<1>1. /\ Heap(h1) /\ Tiling(h1, S) /\ DOMAIN h1 = DOMAIN h
      /\ \A b \in DOMAIN h : /\ h1[b].size = h[b].size /\ h1[b].prev = h[b].prev
                             /\ h1[b].type = IF b = a THEN "FREE" ELSE h[b].type
  <2>1. "FREE" \in {"FREE", "USED"}
    OBVIOUS
  <2> QED
    BY <2>1, TakeTiles
<1>8. MergedIn(h, a) = g
  BY DEF MergedIn
<1> HIDE DEF h1
<1>2. PICK T \in SUBSET S :
        /\ Heap(h2) /\ Tiling(h2, T) /\ a \in T /\ DOMAIN h2 = DOMAIN h1
        /\ \A b \in DOMAIN h1 : /\ h2[b].type = h1[b].type /\ h2[b].prev = h1[b].prev
                                /\ b # a => h2[b] = h1[b]
        /\ \A b \in S \ T : h1[b].type = "FREE" /\ b = h1[a].next
  BY <1>1, ForwardTiles
<1> HIDE DEF h2
<1>3. a \in DOMAIN h /\ S \subseteq DOMAIN h
  BY DEF Tiling
<1>4. \A b \in S \ T : b = a \/ h[b].type = "FREE"
  BY <1>1, <1>2, <1>3
<1>5. /\ \A b \in DOMAIN h : h2[b].type = IF b = a THEN "FREE" ELSE h[b].type
      /\ \A b \in T : h2[b].type = "USED" => h2[b].size = h[b].size
  BY <1>1, <1>2, <1>3
<1>9. /\ p = h[a].prev /\ p < a /\ a \in Nat
      /\ \A b \in S : b < a => b \in T
  <2>1. p = h[a].prev /\ h[a].prev < a /\ a \in Nat /\ h1[a].next \in Address \cup {NULL}
    BY <1>1, <1>2, <1>3, Fields
  <2>2. h1[a].next = (IF a + h1[a].size = HeapSize THEN NULL ELSE a + h1[a].size) /\ h1[a].size > 0
        /\ h1[a].size \in Nat
    BY <1>1, Fields DEF Tiling
  <2>3. ASSUME NEW b \in S, b < a, b \notin T PROVE FALSE
    <3>1. b = h1[a].next /\ b \in Nat
      BY <1>2, <2>3, Fields
    <3> QED
      BY <2>1, <2>2, <2>3, <3>1 DEF NULL
  <2> QED
    BY <2>1, <2>3
<1>10. ASSUME p \in S
       PROVE  /\ p \in T /\ h2[p].type = h[p].type /\ h2[p].size = h[p].size
              /\ h[p].next = a <=> p + h[p].size = a
  <2>1. p \in T /\ p # a /\ p \in DOMAIN h
    BY <1>3, <1>9, <1>10
  <2>2. h2[p] = h1[p] /\ h1[p].size = h[p].size
    BY <1>1, <1>2, <2>1
  <2>3. a \in Address /\ a # HeapSize /\ p + h[p].size \in Nat
    BY <1>9, <1>10, Fields, HeapHoldsHeader DEF Address
  <2>4. h[p].next = a <=> p + h[p].size = a
    BY <1>10, <2>3 DEF Tiling, Address, NULL
  <2> QED
    BY <1>5, <2>1, <2>2, <2>4
<1>11. Across(h, S, a) <=> Backward(h2, a) /\ p \in S /\ p + h[p].size # a
  <2>1. S \subseteq DOMAIN h2
    BY <1>1, <1>2, <1>3
  <2> HIDE DEF p
  <2> QED
    BY <1>9, <1>10, <2>1 DEF Across, Backward, p
<1>6. CASE ~Backward(h2, a)
  <2>1. g = h2
    BY <1>6 DEF MergeBackward, Backward
  <2> HIDE DEF g
  <2> QED
    BY <1>1, <1>2, <1>4, <1>5, <1>6, <1>8, <1>11, <2>1 DEF Keeps
<1>7. CASE Backward(h2, a)
  <2>1. /\ Heap(g) /\ DOMAIN g = DOMAIN h2 /\ p < a /\ p \in Nat
        /\ \A b \in DOMAIN h2 : g[b].type = h2[b].type /\ (b # p => g[b].size = h2[b].size)
        /\ h2[p].type = "FREE"
    BY <1>2, <1>7, BackwardEffect DEF Backward
  <2>5. /\ Heap(MergedIn(h, a)) /\ DOMAIN MergedIn(h, a) = DOMAIN h /\ MergedIn(h, a) = g
        /\ \A b \in DOMAIN h : MergedIn(h, a)[b].type = IF b = a THEN "FREE" ELSE h[b].type
    <3> HIDE DEF g, p
    <3> QED
      BY <1>1, <1>2, <1>5, <1>8, <2>1
  <2> HIDE DEF g
  <2>2. CASE p \in T /\ p + h2[p].size = a
    <3>1. Tiling(g, T \ {a})
      BY <1>2, <1>7, <2>2, BackwardTiles DEF g
    <3>2. /\ \A b \in S \ (T \ {a}) : b = a \/ h[b].type = "FREE"
          /\ \A b \in T : g[b].type = "USED" => g[b].size = h[b].size
      <4> HIDE DEF g, p
      <4> QED
        BY <1>1, <1>2, <1>3, <1>4, <1>5, <2>1
    <3>3. T \ {a} \in SUBSET S /\ Keeps(h, S, a, g, T \ {a})
      BY <3>1, <3>2 DEF Keeps
    <3>4. ~Across(h, S, a)
      BY <1>10, <1>11, <2>2
    <3> QED
      BY <2>5, <3>3, <3>4
  <2>3. CASE p \notin T
    <3>1. Tiling(g, T)
      BY <1>2, <1>7, <2>3, BackwardStale DEF g
    <3>2. \A b \in T : g[b].type = "USED" => g[b].size = h[b].size
      <4> HIDE DEF g, p
      <4> QED
        BY <1>1, <1>2, <1>3, <1>5, <2>1
    <3>3. Keeps(h, S, a, g, T)
      BY <1>4, <3>1, <3>2 DEF Keeps
    <3>4. ~Across(h, S, a)
      BY <1>10, <1>11, <2>3
    <3> QED
      BY <2>5, <3>3, <3>4
  <2>4. CASE p \in T /\ p + h2[p].size # a
    <3>1. Breaks(g)
      BY <1>2, <1>7, <2>4, BackwardWrong DEF g, Breaks
    <3>2. Across(h, S, a)
      BY <1>7, <1>10, <1>11, <2>4
    <3> QED
      BY <2>5, <3>1, <3>2
  <2> QED
    BY <2>2, <2>3, <2>4
<1> QED
  BY <1>6, <1>7

(* Freeing the last block in use, when only the last block of the list can *)
(* be free: a becomes the last block.                                      *)
LEMMA FreeLast ==
  ASSUME NEW h, NEW S, Heap(h), Tiling(h, S), LinkedBothWays(h, S),
         \A b \in S : h[b].type = "FREE" => h[b].next = NULL,
         NEW a \in S, h[a].type = "USED",
         \A b \in S : h[b].type = "USED" => b <= a
  PROVE  LET g == MergedIn(h, a)
         IN \E T \in SUBSET S :
              /\ Tiling(g, T) /\ a \in T /\ LinkedBothWays(g, T)
              /\ \A b \in T : g[b].type = "FREE" => g[b].next = NULL
              /\ \A b \in S \ T : h[b].type = "FREE"
<1> DEFINE h1 == [h EXCEPT ![a].type = "FREE"]
           h2 == MergeForward(h1, a)
           n == h1[a].next
<1>1. /\ Heap(h1) /\ Tiling(h1, S) /\ DOMAIN h1 = DOMAIN h
      /\ \A b \in DOMAIN h : /\ h1[b].size = h[b].size /\ h1[b].prev = h[b].prev
                             /\ h1[b].next = h[b].next
                             /\ h1[b].type = IF b = a THEN "FREE" ELSE h[b].type
  <2>1. "FREE" \in {"FREE", "USED"}
    OBVIOUS
  <2> QED
    BY <2>1, TakeTiles
<1> HIDE DEF h1
<1>2. PICK T \in SUBSET S :
        /\ Heap(h2) /\ Tiling(h2, T) /\ a \in T /\ DOMAIN h2 = DOMAIN h1
        /\ \A b \in DOMAIN h1 : /\ h2[b].type = h1[b].type /\ h2[b].prev = h1[b].prev
                                /\ b # a => h2[b] = h1[b]
        /\ \A b \in S \ T : h1[b].type = "FREE" /\ b = h1[a].next /\ h2[a].next = h1[b].next
        /\ T = S => h2 = h1 /\ (h1[a].next \in DOMAIN h1 => h1[h1[a].next].type # "FREE")
  BY <1>1, ForwardTiles
<1> HIDE DEF h2
<1>3. S \subseteq DOMAIN h /\ a \in DOMAIN h /\ a \in Nat /\ DOMAIN h \subseteq Nat
      /\ \A b \in DOMAIN h : h[b] \in Header
  BY DEF Tiling, Heap, Address
<1>4. h2[a].next = NULL
  <2>1. CASE T = S
    <3>1. n = h2[a].next /\ (n \in DOMAIN h => h[n].type # "FREE")
      BY <1>1, <1>2, <1>3, <2>1
    <3>2. SUFFICES ASSUME n # NULL PROVE FALSE
      BY <3>1
    <3>4. h[a].size \in Nat /\ n = h[a].next /\ a \in DOMAIN h
      BY <1>1, <1>3, Fields
    <3> HIDE DEF n
    <3>3. n \in S /\ n \in Nat /\ n > a
      BY <1>3, <3>2, <3>4 DEF Tiling
    <3>5. h[n].type = "USED"
      BY <1>3, <3>1, <3>3 DEF Header
    <3> QED
      BY <1>3, <3>3, <3>5
  <2>2. CASE T # S
    <3>1. PICK b \in S \ T : h1[b].type = "FREE" /\ h2[a].next = h1[b].next
      BY <1>2, <2>2
    <3>2. b # a /\ h[b].type = "FREE"
      BY <1>1, <1>2, <1>3, <3>1
    <3> QED
      BY <1>1, <1>3, <3>1, <3>2
  <2> QED
    BY <2>1, <2>2
<1>5. ~Backward(h2, a)
  <2> SUFFICES ASSUME Backward(h2, a) PROVE FALSE
    OBVIOUS
  <2> DEFINE q == h[a].prev
  <2>1. q \in DOMAIN h /\ h2[q].type = "FREE" /\ q < a
    BY <1>1, <1>2, <1>3 DEF Backward, Tiling
  <2>2. a # list_head
    BY <1>3, <2>1 DEF list_head
  <2>3. q \in S /\ h[q].next = a
    BY <2>2, PredecessorOf
  <2>4. h[q].type = "FREE"
    BY <1>1, <1>2, <1>3, <2>1
  <2>5. NULL \notin Nat
    BY DEF NULL
  <2> QED
    BY <1>3, <2>3, <2>4, <2>5
<1>6. MergedIn(h, a) = h2
  BY <1>5 DEF MergedIn, MergeBackward, Backward, h1, h2
<1>7. LinkedBothWays(h2, T)
  <2> SUFFICES ASSUME NEW b \in T, h2[b].next \in DOMAIN h2 PROVE h2[h2[b].next].prev = b
    BY DEF LinkedBothWays
  <2>1. b # a
    BY <1>1, <1>2, <1>3, <1>4 DEF NULL
  <2>2. h2[b].next = h[b].next /\ h[b].next \in DOMAIN h
    BY <1>1, <1>2, <1>3, <2>1
  <2> QED
    BY <1>1, <1>2, <2>2 DEF LinkedBothWays
<1>8. \A b \in T : h2[b].type = "FREE" => h2[b].next = NULL
  BY <1>1, <1>2, <1>3, <1>4
<1>9. \A b \in S \ T : h[b].type = "FREE"
  BY <1>1, <1>2, <1>3
<1> QED
  BY <1>2, <1>6, <1>7, <1>8, <1>9

-----------------------------------------------------------------------------
(* What crt_malloc makes of the list S of h: block a of g is in use and    *)
(* holds size bytes; what is left of it is a free block behind it.         *)
Gives(h, S, a, size, g, T) ==
  /\ Heap(g) /\ Tiling(g, T) /\ S \subseteq T
  /\ \A b \in T \ S : /\ g[b].type = "FREE" /\ g[b].next = h[a].next
                      /\ g[b].prev = a /\ b > a /\ g[a].next = b
  /\ T = S => g[a].next = h[a].next
  /\ g[a].type = "USED" /\ g[a].size >= HeaderSize + size /\ g[a].prev = h[a].prev
  /\ \A b \in S \ {a} : g[b] = h[b]
  /\ \A b \in DOMAIN g \ {a} : (b \in DOMAIN h /\ g[b] = h[b]) \/ g[b].type = "FREE"

(* The program's write to the block it got stays inside it.                *)
LEMMA FillTiles ==
  ASSUME NEW h, NEW S, NEW a \in S, NEW size \in Nat, NEW g, NEW T, Gives(h, S, a, size, g, T),
         \A b \in T : b > a => b >= a + HeaderSize + size
  PROVE  Gives(h, S, a, size, Scrub(g, a + HeaderSize, size), T)
<1> DEFINE k == Scrub(g, a + HeaderSize, size)
<1>1. Heap(g) /\ Tiling(g, T) /\ S \subseteq T /\ a \in T
  BY DEF Gives
<1>2. \A b \in T : b \in Nat
  BY <1>1, Fields
<1>3. a + HeaderSize \in Nat /\ a \in Nat /\ HeaderSize \in Nat
  BY <1>1, <1>2, HeaderSizePositive
<1>4. \A b \in T : ~Overlap(a + HeaderSize, size, b, HeaderSize)
  BY <1>2, <1>3 DEF Overlap
<1>5. /\ Heap(k) /\ Tiling(k, T) /\ DOMAIN k \subseteq DOMAIN g
      /\ \A b \in DOMAIN k : k[b] = g[b]
  BY <1>1, <1>3, <1>4, ScrubTiles
<1>6. T \subseteq DOMAIN k
  BY <1>5 DEF Tiling
<1> HIDE DEF k
<1>7. \A b \in T : k[b] = g[b]
  BY <1>5, <1>6
<1>8. Gives(h, S, a, size, k, T)
  BY <1>1, <1>5, <1>7 DEF Gives
<1> QED
  BY <1>8 DEF k

(* The block taken whole.                                                  *)
LEMMA WholeGives ==
  ASSUME NEW h, NEW S, Heap(h), Tiling(h, S), NEW a \in S, NEW size \in Nat,
         HeaderSize + size <= h[a].size
  PROVE  Gives(h, S, a, size, Scrub(Take(h, a), a + HeaderSize, size), S)
<1> DEFINE g == [h EXCEPT ![a].type = "USED"]
<1>1. "USED" \in {"FREE", "USED"}
  OBVIOUS
<1>2. a \in DOMAIN h /\ S \subseteq DOMAIN h /\ \A b \in DOMAIN h \ {a} : g[b] = h[b]
  BY <1>1 DEF Tiling
<1>3. /\ Heap(g) /\ Tiling(g, S) /\ DOMAIN g = DOMAIN h
      /\ \A b \in DOMAIN h : /\ g[b].size = h[b].size /\ g[b].next = h[b].next
                             /\ g[b].prev = h[b].prev
                             /\ g[b].type = IF b = a THEN "USED" ELSE h[b].type
  BY <1>1, TakeTiles
<1> HIDE DEF g
<1>4. \A b \in S : b \in Nat /\ h[b].size \in Nat
  BY Fields
<1>5. Gives(h, S, a, size, g, S)
  BY <1>2, <1>3, <1>4, HeaderSizePositive DEF Gives
<1>6. \A b \in S : b > a => b >= a + HeaderSize + size
  BY <1>4, Disjoint, HeaderSizePositive
<1> QED
  BY <1>5, <1>6, FillTiles DEF g, Take

(* The block split.                                                        *)
LEMMA SplitGives ==
  ASSUME NEW h, NEW S, Heap(h), Tiling(h, S), NEW a \in S, NEW size \in Nat \ {0},
         h[a].size > size + HeaderSize * 2
  PROVE  Gives(h, S, a, size, Scrub(Split(h, a, size), a + HeaderSize, size),
               S \cup {a + size + HeaderSize})
<1> DEFINE g == Split(h, a, size)
           new == a + size + HeaderSize
           T == S \cup {new}
<1>1. /\ Heap(g) /\ Tiling(g, T) /\ new \notin S /\ a < new
      /\ DOMAIN g \subseteq DOMAIN h \cup {new}
      /\ \A b \in DOMAIN g \ {a, new} : g[b] = h[b]
      /\ g[a].type = "USED" /\ g[a].size = size + HeaderSize
      /\ g[a].next = new /\ g[a].prev = h[a].prev
      /\ g[new].type = "FREE" /\ g[new].next = h[a].next /\ g[new].prev = a
  BY SplitTiles
<1> HIDE DEF g
<1>2. \A b \in S : b \in Nat /\ h[b].size \in Nat
  BY Fields
<1>3. a \in Nat /\ HeaderSize \in Nat /\ HeaderSize > 0 /\ size \in Nat /\ new > a
  BY <1>1, <1>2, HeaderSizePositive
<1>4. \A b \in T : b > a => b >= a + HeaderSize + size
  <2>1. \A b \in S : b > a => b >= a + h[a].size
    BY <1>2, Disjoint
  <2>2. a + h[a].size >= a + HeaderSize + size /\ new >= a + HeaderSize + size
    BY <1>2, <1>3
  <2>3. ASSUME NEW b \in S, b > a PROVE b >= a + HeaderSize + size
    BY <1>2, <1>3, <2>1, <2>2, <2>3
  <2> QED
    BY <2>2, <2>3
<1>5. g[a].size >= HeaderSize + size
  BY <1>1, <1>3
<1>6. S \subseteq DOMAIN g
  BY <1>1 DEF Tiling
<1> HIDE DEF new
<1>7. /\ S \subseteq T /\ \A b \in T \ S : b = new
      /\ T # S
  BY <1>1
<1>8. Gives(h, S, a, size, g, T)
  BY <1>1, <1>3, <1>5, <1>6, <1>7 DEF Gives
<1> HIDE DEF T
<1> QED
  BY <1>3, <1>4, <1>8, FillTiles DEF g, T, new

(* The loop of crt_malloc stops at a block that fits, when there is one.   *)
LEMMA FirstFitFits ==
  ASSUME NEW size, Fits(size) # {}
  PROVE  FirstFit(size) \in Fits(size)
<1> DEFINE w == Walk(hdr)
           T == {n \in 0..HeapSize : w[n] \in Fits(size)}
           First(n) == w[n] \in Fits(size) /\ \A m \in 0..(n - 1) : w[m] \notin Fits(size)
<1>1. HeapSize \in Nat /\ T \in SUBSET Nat
  BY HeapHoldsHeader
<1>2. T # {}
  BY DEF Fits, List, ListOf
<1>3. FirstFit(size) = w[CHOOSE n \in 0..HeapSize : First(n)]
  BY DEF FirstFit
<1> HIDE DEF w
<1>4. PICK n \in T : \A m \in T : n <= m
  BY <1>1, <1>2, Smallest
<1>5. n \in 0..HeapSize /\ First(n)
  BY <1>1, <1>4
<1>6. First(CHOOSE k \in 0..HeapSize : First(k))
  <2> HIDE DEF First
  <2>1. \E k : k \in 0..HeapSize /\ First(k)
    BY <1>5
  <2> QED
    BY <2>1, Zenon
<1> QED
  BY <1>3, <1>6

(* crt_malloc on a list that fills the heap.                               *)
LEMMA MallocEffect ==
  ASSUME Heap(hdr), NEW S, Tiling(hdr, S), S = List, NEW size \in Nat \ {0}, Fits(size) # {},
         NEW a, a = FirstFit(size)
  PROVE  /\ a \in S /\ hdr[a].type = "FREE"
         /\ HeaderSize + size <= hdr[a].size
         /\ \E T : Gives(hdr, S, a, size, Given(size), T)
<1>1. \A b \in S : b \in Nat /\ hdr[b].size \in Nat
  BY Fields
<1>2. a \in Fits(size)
  BY FirstFitFits
<1>3. /\ a \in S /\ hdr[a].type = "FREE" /\ (Whole(a, size) \/ Splits(a, size))
      /\ a \in Nat /\ hdr[a].size \in Nat /\ HeaderSize \in Nat /\ HeaderSize > 0
  BY <1>1, <1>2, HeaderSizePositive DEF Fits
<1>4. HeaderSize + size <= hdr[a].size
  BY <1>3 DEF Whole, Splits
<1>5. CASE Whole(a, size)
  <2>1. Given(size) = Scrub(Take(hdr, a), a + HeaderSize, size)
    BY <1>5 DEF Given
  <2>2. Gives(hdr, S, a, size, Given(size), S)
    BY <1>3, <1>4, <2>1, WholeGives
  <2> QED
    BY <1>3, <1>4, <2>2
<1>6. CASE ~Whole(a, size)
  <2>1. hdr[a].size > size + HeaderSize * 2
    BY <1>3, <1>6 DEF Splits
  <2>2. Given(size) = Scrub(Split(hdr, a, size), a + HeaderSize, size)
    BY <1>6 DEF Given
  <2>3. Gives(hdr, S, a, size, Given(size), S \cup {a + size + HeaderSize})
    BY <1>3, <2>1, <2>2, SplitGives
  <2> QED
    BY <1>3, <1>4, <2>3
<1> QED
  BY <1>5, <1>6

(* Whatever the list is, a block that lies in the heap leaves headers that *)
(* are headers: those that survive, the one of the block and, when it was  *)
(* split, a free one behind it.                                            *)
LEMMA GivenTyped ==
  ASSUME Heap(hdr), NEW size \in Nat \ {0}, Fits(size) # {}, InHeap(size),
         NEW a, a = FirstFit(size), NEW g, g = Given(size)
  PROVE  /\ a \in DOMAIN hdr /\ Heap(g)
         /\ \A b \in DOMAIN g \ {a} : (b \in DOMAIN hdr /\ g[b] = hdr[b]) \/ g[b].type = "FREE"
<1>1. /\ a \in DOMAIN hdr /\ (Whole(a, size) \/ Splits(a, size))
      /\ a \in Fits(size)
  <2>1. a \in Fits(size)
    BY FirstFitFits
  <2> QED
    BY <2>1 DEF Fits, List, ListOf
<1>2. \A b \in DOMAIN hdr : hdr[b] \in Header
  BY DEF Heap
<1>3. /\ a \in Nat /\ a \in Address /\ hdr[a].size \in Nat /\ hdr[a].size < Unsigned
      /\ HeaderSize \in Nat /\ HeaderSize > 0 /\ HeapSize \in Nat /\ Unsigned \in Nat
  BY <1>1, <1>2, HeaderSizePositive, HeapHoldsHeader, UnsignedHoldsHeap DEF Heap, Header, Address
<1>4. CASE Whole(a, size)
  <2> DEFINE k == Take(hdr, a)
  <2>1. [hdr[a] EXCEPT !.type = "USED"] \in Header
    BY <1>1, <1>2 DEF Header
  <2>2. DOMAIN k = DOMAIN hdr /\ \A b \in DOMAIN hdr : k[b] \in Header /\ (b # a => k[b] = hdr[b])
    BY <1>1, <1>2, <2>1 DEF Take
  <2>3. g = Scrub(k, a + HeaderSize, size)
    BY <1>4 DEF Given
  <2> HIDE DEF k
  <2>4. g \in [DOMAIN g -> Header] /\ DOMAIN g \subseteq DOMAIN hdr /\ \A b \in DOMAIN g : g[b] = k[b]
    BY <2>2, <2>3 DEF Scrub
  <2> QED
    BY <1>1, <2>2, <2>4 DEF Heap
<1>5. CASE ~Whole(a, size)
  <2> DEFINE new == a + size + HeaderSize
             rest == [type |-> "FREE", size |-> hdr[a].size - (size + HeaderSize),
                      next |-> hdr[a].next, prev |-> a]
             first == [type |-> "USED", size |-> size + HeaderSize,
                       next |-> new, prev |-> hdr[a].prev]
             kept == Scrub(hdr, new, HeaderSize)
             k == Split(hdr, a, size)
  <2>1. hdr[a].size > size + HeaderSize * 2
    BY <1>1, <1>5 DEF Splits
  <2>2. new \in Address
    <3>1. a + HeaderSize + size + HeaderSize <= HeapSize
      BY <1>5 DEF InHeap
    <3> QED
      BY <1>3, <3>1 DEF Address
  <2>3. rest \in Header /\ first \in Header /\ rest.type = "FREE"
    <3>1. hdr[a].next \in Address \cup {NULL} /\ hdr[a].prev \in Address \cup {NULL}
      BY <1>1, <1>2 DEF Header
    <3>2. /\ hdr[a].size - (size + HeaderSize) \in 0..(Unsigned - 1)
          /\ size + HeaderSize \in 0..(Unsigned - 1)
      BY <1>3, <2>1
    <3> QED
      BY <1>3, <2>2, <3>1, <3>2 DEF Header
  <2>4. k = [b \in DOMAIN kept \cup {new} |->
               IF b = new THEN rest ELSE IF b = a THEN first ELSE kept[b]]
    BY DEF Split
  <2>5. DOMAIN kept \subseteq DOMAIN hdr /\ \A b \in DOMAIN kept : kept[b] = hdr[b]
    BY DEF Scrub
  <2>6. g = Scrub(k, a + HeaderSize, size)
    BY <1>5 DEF Given
  <2> HIDE DEF new, rest, first, kept, k
  <2>7. /\ DOMAIN k = DOMAIN kept \cup {new}
        /\ \A b \in DOMAIN k : /\ k[b] \in Header
                               /\ b # a => (b \in DOMAIN hdr /\ k[b] = hdr[b]) \/ k[b].type = "FREE"
    BY <1>2, <2>3, <2>4, <2>5
  <2>8. g \in [DOMAIN g -> Header] /\ DOMAIN g \subseteq DOMAIN k /\ \A b \in DOMAIN g : g[b] = k[b]
    BY <2>6, <2>7 DEF Scrub
  <2> QED
    BY <1>1, <2>2, <2>5, <2>7, <2>8 DEF Heap
<1> QED
  BY <1>4, <1>5

(* Nor does a free change more types than that of the block it is given.   *)
LEMMA MergedTyped ==
  ASSUME NEW h, Heap(h), NEW a \in DOMAIN h, NEW g, g = MergedIn(h, a)
  PROVE  /\ Heap(g) /\ DOMAIN g = DOMAIN h
         /\ \A b \in DOMAIN h : g[b].type = IF b = a THEN "FREE" ELSE h[b].type
<1> DEFINE h1 == [h EXCEPT ![a].type = "FREE"]
           h2 == MergeForward(h1, a)
<1>0. /\ \A b \in DOMAIN h : h[b] \in Header
      /\ Unsigned \in Nat /\ Unsigned > 0
      /\ DOMAIN h \subseteq Address
      /\ \A s, t \in Nat : (s + t) % Unsigned \in 0..(Unsigned - 1)
  BY HeapHoldsHeader, UnsignedHoldsHeap DEF Heap
<1>1. /\ DOMAIN h1 = DOMAIN h
      /\ \A b \in DOMAIN h : h1[b] \in Header /\ h1[b].type = IF b = a THEN "FREE" ELSE h[b].type
  <2>1. [h[a] EXCEPT !.type = "FREE"] \in Header
    BY <1>0 DEF Header
  <2> QED
    BY <1>0, <2>1
<1> HIDE DEF h1
<1>2. /\ DOMAIN h2 = DOMAIN h
      /\ \A b \in DOMAIN h : h2[b] \in Header /\ h2[b].type = h1[b].type
  <2> DEFINE n == h1[a].next
  <2>1. CASE ~(n \in DOMAIN h1 /\ h1[n].type = "FREE")
    <3>1. h2 = h1
      BY <2>1 DEF MergeForward
    <3> QED
      BY <1>1, <3>1
  <2>2. CASE n \in DOMAIN h1 /\ h1[n].type = "FREE"
    <3> DEFINE sum == (h1[a].size + h1[n].size) % Unsigned
               r == [h1[a] EXCEPT !.size = sum, !.next = h1[n].next]
    <3>1. h2 = [h1 EXCEPT ![a] = r]
      BY <2>2, <1>1 DEF MergeForward
    <3>2. h1[a] \in Header /\ h1[n] \in Header
      BY <1>1, <2>2
    <3>3. sum \in 0..(Unsigned - 1) /\ h1[n].next \in Address \cup {NULL}
      <4>1. h1[a].size \in Nat /\ h1[n].size \in Nat /\ h1[n].next \in Address \cup {NULL}
        <5> HIDE DEF n
        <5> QED
          BY <3>2 DEF Header
      <4> QED
        BY <1>0, <4>1
    <3>4. r \in Header /\ r.type = h1[a].type
      <4> HIDE DEF sum, n
      <4> QED
        BY <3>2, <3>3 DEF Header
    <3> HIDE DEF r, h2
    <3> QED
      BY <1>1, <3>1, <3>4
  <2> QED
    BY <2>1, <2>2
<1> HIDE DEF h2
<1>3. g = MergeBackward(h2, a)
  BY DEF MergedIn, h1, h2
<1>4. /\ DOMAIN g = DOMAIN h /\ g \in [DOMAIN h -> Header]
      /\ \A b \in DOMAIN h : g[b].type = h2[b].type
  <2> DEFINE p == h2[a].prev
             n == h2[a].next
             sum == (h2[p].size + h2[a].size) % Unsigned
             rp == [h2[p] EXCEPT !.next = n, !.size = sum, !.prev = IF n = p THEN p ELSE @]
             rn == [h2[n] EXCEPT !.prev = p]
  <2>0. h2[a] \in Header /\ n \in Address \cup {NULL} /\ p \in Address \cup {NULL} /\ h2[a].size \in Nat
    BY <1>2 DEF Header
  <2>1. CASE ~(p \in DOMAIN h2 /\ h2[p].type = "FREE")
    <3>1. g = h2
      BY <1>3, <2>1 DEF MergeBackward
    <3>2. h2 = [b \in DOMAIN h |-> h2[b]]
      <4>1. h1 = [b \in DOMAIN h |-> h1[b]]
        BY DEF h1
      <4> QED
        BY <1>1, <4>1 DEF h2, MergeForward
    <3> QED
      BY <1>2, <3>1, <3>2
  <2>2. CASE p \in DOMAIN h2 /\ h2[p].type = "FREE"
    <3>1. g = [b \in DOMAIN h2 |-> IF b = p THEN rp ELSE IF b = n THEN rn ELSE h2[b]]
      BY <1>3, <2>2 DEF MergeBackward
    <3>2. h2[p] \in Header /\ h2[p].size \in Nat /\ h2[p].prev \in Address \cup {NULL}
      <4> HIDE DEF p
      <4> QED
        BY <1>2, <2>2 DEF Header
    <3>3. sum \in 0..(Unsigned - 1)
      BY <1>0, <2>0, <3>2
    <3>4. rp \in Header /\ rp.type = h2[p].type
      <4> HIDE DEF sum, p, n
      <4> QED
        BY <2>0, <3>2, <3>3 DEF Header
    <3>5. n \in DOMAIN h2 => rn \in Header /\ rn.type = h2[n].type
      <4> HIDE DEF p, n
      <4> QED
        BY <1>2, <2>0 DEF Header
    <3> HIDE DEF rp, rn, p, n
    <3> QED
      BY <1>2, <3>1, <3>4, <3>5
  <2> QED
    BY <2>1, <2>2
<1> QED
  BY <1>0, <1>1, <1>2, <1>4 DEF Heap

(* Only the last block is free.                                            *)
LastFree(h, S) == \A b \in S : h[b].type = "FREE" => h[b].next = NULL

(* Taking from the last block leaves the list linked both ways.            *)
LEMMA GivesLast ==
  ASSUME NEW h, NEW S, Heap(h), Tiling(h, S), LinkedBothWays(h, S), LastFree(h, S),
         NEW a \in S, h[a].type = "FREE", NEW size \in Nat, NEW g, NEW T,
         Gives(h, S, a, size, g, T)
  PROVE  /\ LinkedBothWays(g, T) /\ LastFree(g, T)
         /\ \A b \in S : b # a => b < a
<1>1. Heap(g) /\ Tiling(g, T) /\ NULL \notin Nat /\ h[a].next = NULL
  BY DEF Gives, NULL, LastFree
<1>2. /\ \A b \in S : /\ b \in Nat /\ b < HeapSize /\ b \in DOMAIN h
                      /\ h[b].size \in Nat /\ b + h[b].size <= HeapSize
                      /\ h[b].next \in DOMAIN g \/ h[b].next \in Nat => h[b].next \in S
      /\ HeapSize \in Nat
  <2>1. DOMAIN g \subseteq Nat
    BY <1>1 DEF Heap, Address
  <2>2. \A b \in S : h[b].next \in Nat => h[b].next \in S
    BY <1>1 DEF Tiling
  <2> QED
    BY <2>1, <2>2, Fields, HeapHoldsHeader DEF Address
<1>3. \A b \in S : b # a => b < a
  <2>1. a + h[a].size = HeapSize
    BY <1>1, <1>2 DEF Tiling
  <2> QED
    BY <1>2, <2>1, Disjoint
<1>4. LastFree(g, T)
  BY <1>1 DEF LastFree, Gives
<1>5. LinkedBothWays(g, T)
  <2> SUFFICES ASSUME NEW x \in T, g[x].next \in DOMAIN g PROVE g[g[x].next].prev = x
    BY DEF LinkedBothWays
  <2>1. g[x].next \in Nat
    BY <1>1 DEF Heap, Address
  <2>2. x \in S
    <3>1. x \in T \ S => g[x].next = NULL
      BY <1>1 DEF Gives
    <3> QED
      BY <1>1, <2>1, <3>1
  <2>3. CASE x = a
    <3>1. T # S
      BY <1>1, <2>1, <2>3 DEF Gives
    <3>2. PICK b \in T \ S : TRUE
      BY <3>1 DEF Gives
    <3> QED
      BY <2>3, <3>2 DEF Gives
  <2>4. CASE x # a
    <3>1. g[x] = h[x] /\ h[x].next \in S /\ h[x].next \in DOMAIN h
      BY <1>2, <2>2, <2>4 DEF Gives
    <3>2. h[h[x].next].prev = x
      BY <2>2, <3>1 DEF LinkedBothWays
    <3>3. g[h[x].next].prev = h[h[x].next].prev
      BY <3>1 DEF Gives
    <3> QED
      BY <3>1, <3>2, <3>3
  <2> QED
    BY <2>3, <2>4
<1> QED
  BY <1>3, <1>4, <1>5

(* The place in the old sequence of what is at j when i is taken out. *)
Skip(i, j) == IF j < i THEN j ELSE j + 1

(* r is q without its i-th element. *)
Without(q, i, r) ==
  /\ r \in Seq(Block) /\ Len(r) = Len(q) - 1 /\ DOMAIN r = 1..Len(r)
  /\ \A j \in DOMAIN r : Skip(i, j) \in DOMAIN q \ {i} /\ r[j] = q[Skip(i, j)]
  /\ \A j, k \in DOMAIN r : j < k => Skip(i, j) < Skip(i, k)
  /\ \A k \in DOMAIN q \ {i} : \E j \in DOMAIN r : r[j] = q[k]

(* What crt_free does to the program's own record of its blocks.           *)
LEMMA Removal ==
  ASSUME NEW q \in Seq(Block), NEW i \in DOMAIN q, NEW r,
         r = [j \in 1..(Len(q) - 1) |-> IF j < i THEN q[j] ELSE q[j + 1]]
  PROVE  Without(q, i, r)
<1>1. DOMAIN q = 1..Len(q) /\ Len(q) \in Nat /\ i \in 1..Len(q) /\ Len(q) - 1 \in Nat
  OBVIOUS
<1>2. \A j \in 1..(Len(q) - 1) : Skip(i, j) \in 1..Len(q) /\ Skip(i, j) # i /\ r[j] = q[Skip(i, j)]
  BY <1>1 DEF Skip
<1>3. DOMAIN r = 1..(Len(q) - 1) /\ r \in [1..(Len(q) - 1) -> Block]
  BY <1>1, <1>2
<1>4. r \in Seq(Block) /\ Len(r) = Len(q) - 1
  BY <1>1, <1>3
<1>5. \A j, k \in 1..(Len(q) - 1) : j < k => Skip(i, j) < Skip(i, k)
  BY <1>1 DEF Skip
<1>6. ASSUME NEW k \in DOMAIN q \ {i} PROVE \E j \in DOMAIN r : r[j] = q[k]
  <2>1. CASE k < i
    <3>1. k \in 1..(Len(q) - 1) /\ Skip(i, k) = k
      BY <1>1, <2>1 DEF Skip
    <3> QED
      BY <1>2, <1>3, <3>1
  <2>2. CASE k > i
    <3>1. k - 1 \in 1..(Len(q) - 1) /\ Skip(i, k - 1) = k
      BY <1>1, <2>2 DEF Skip
    <3> QED
      BY <1>2, <1>3, <3>1
  <2> QED
    BY <1>1, <2>1, <2>2
<1> QED
  BY <1>1, <1>2, <1>3, <1>4, <1>5, <1>6 DEF Without

-----------------------------------------------------------------------------
(* The program's blocks, in the order it got them, lie in the order of     *)
(* addresses.                                                              *)
Ordered == \A i, j \in DOMAIN live : i < j => live[i].header < live[j].header

Stacked == Sound /\ DoublyLinked /\ LastFree(hdr, List) /\ Ordered

(* The inductive invariant. Of a list that is not sound it says no more    *)
(* than what the headers are.                                              *)
HeapInv == /\ TypeOK
           /\ state = "start" => live = <<>> /\ freed = {}
           /\ FreedSaysSo
           /\ lifo /\ state = "main" => Stacked

LEMMA HeapIs == TypeOK => Heap(hdr)
BY DEF TypeOK, Heap

(* Before crt_heap_init there is no header at all.                         *)
LEMMA HeapInvInit == Init => HeapInv
<1> SUFFICES ASSUME Init PROVE HeapInv
  OBVIOUS
<1>1. DOMAIN hdr = {} /\ hdr = [a \in DOMAIN hdr |-> hdr[a]] /\ live = <<>> /\ freed = {} /\ state = "start" /\ lifo \in BOOLEAN
  BY DEF Init
<1>2. hdr \in [DOMAIN hdr -> Header]
  BY <1>1
<1>3. TypeOK
  BY <1>1, <1>2 DEF TypeOK
<1> QED
  BY <1>1, <1>3 DEF HeapInv, FreedSaysSo

(* crt_heap_init makes one free block of the whole heap.                   *)
LEMMA SetUp == HeapInv /\ HeapInit => HeapInv'
<1> SUFFICES ASSUME HeapInv, HeapInit PROVE HeapInv'
  OBVIOUS
<1>1. /\ live = <<>> /\ freed = {} /\ live' = live /\ freed' = freed /\ lifo' = lifo
      /\ TypeOK /\ state' # "start" /\ state' \in {"main", "exited"}
  BY DEF HeapInv, HeapInit
<1>2. LiveDisjoint' /\ FreedSaysSo'
  BY <1>1 DEF LiveDisjoint, FreedSaysSo
<1>3. CASE state' = "exited"
  BY <1>1, <1>2, <1>3 DEF HeapInv, HeapInit, TypeOK
<1>4. CASE state' = "main"
  <2> DEFINE all == [type |-> "FREE", size |-> HeapSize, next |-> NULL, prev |-> NULL]
  <2>1. hdr' = [a \in {list_head} |-> all]
    BY <1>4 DEF HeapInit
  <2>2. all \in Header /\ all.next = NULL /\ all.size = HeapSize /\ all.prev = NULL /\ all.type = "FREE"
    BY HeapHoldsHeader, UnsignedHoldsHeap DEF Header
  <2> HIDE DEF all
  <2>3. DOMAIN hdr' = {list_head} /\ hdr'[list_head] = all /\ hdr' \in [DOMAIN hdr' -> Header]
        /\ list_head \in Address
    BY <2>1, <2>2, HeapHoldsHeader, HeaderSizePositive DEF list_head, Address
  <2>4. Heap(hdr')
    BY <2>3 DEF Heap
  <2>5. Tiling(hdr', {list_head})
    BY <2>2, <2>3, HeapHoldsHeader, HeaderSizePositive DEF Tiling, list_head, NULL
  <2>6. List' = {list_head}
    <3>1. List' = ListOf(hdr')
      BY DEF List
    <3> QED
      BY <2>4, <2>5, <3>1, TilingIsList
  <2>7. TypeOK'
    BY <1>1, <2>3 DEF TypeOK
  <2>8. Sound'
    <3>1. Tiled'
      BY <2>2, <2>3, <2>6, HeapHoldsHeader, HeaderSizePositive DEF Tiled, list_head
    <3>2. Live' = {}
      BY <1>1 DEF Live
    <3>3. \A b \in List' : hdr'[b].prev < b
      BY <2>2, <2>3, <2>6 DEF list_head, NULL
    <3>4. UsedIsLive'
      BY <2>2, <2>3, <2>6, <3>2 DEF UsedIsLive
    <3> QED
      BY <1>2, <3>1, <3>3, <3>4 DEF Sound
  <2>9. Stacked'
    <3>1. DoublyLinked' /\ LastFree(hdr', List')
      BY <2>2, <2>3, <2>6 DEF DoublyLinked, LastFree, NULL, list_head
    <3>2. Ordered'
      BY <1>1 DEF Ordered
    <3> QED
      BY <2>8, <3>1, <3>2 DEF Stacked
  <2> QED
    BY <1>1, <1>2, <2>7, <2>9 DEF HeapInv
<1> QED
  BY <1>1, <1>3, <1>4

LEMMA TilingIsTiled ==
  ASSUME NEW h, NEW S, Heap(h), Tiling(h, S)
  PROVE  /\ list_head \in DOMAIN h
         /\ \A a \in S : /\ h[a].next = (IF a + h[a].size = HeapSize THEN NULL ELSE a + h[a].size)
                        /\ a + h[a].size > a /\ a + h[a].size <= HeapSize
                        /\ h[a].next \in DOMAIN h \cup {NULL}
                        /\ h[a].prev < a
<1>1. /\ list_head \in DOMAIN h /\ S \subseteq DOMAIN h
      /\ \A a \in S : a \in Nat /\ h[a].size \in Nat
  BY Fields DEF Tiling
<1> QED
  BY <1>1 DEF Tiling

(* What crt_malloc does on any list: headers stay headers, and those of    *)
(* blocks that were freed say so.                                          *)
LEMMA MallocTypes ==
  ASSUME TypeOK, FreedSaysSo, NEW size \in Requests, Malloc(size)
  PROVE  TypeOK' /\ FreedSaysSo'
<1> DEFINE a == FirstFit(size)
           new == [header |-> a, size |-> size]
<1>1. /\ state = "main" /\ state' = "main" /\ lifo' = lifo /\ lifo \in BOOLEAN
      /\ size \in Nat \ {0} /\ Fits(size) # {} /\ InHeap(size) /\ hdr' = Given(size)
      /\ live' = Append(live, new) /\ freed' = (freed \cap DOMAIN hdr') \ {a}
      /\ live \in Seq(Block) /\ Heap(hdr)
  BY RequestsAreSizes, HeapIs DEF Malloc, TypeOK
<1>2. /\ a \in DOMAIN hdr /\ Heap(hdr')
      /\ \A b \in DOMAIN hdr' \ {a} : (b \in DOMAIN hdr /\ hdr'[b] = hdr[b]) \/ hdr'[b].type = "FREE"
  BY <1>1, GivenTyped
<1> HIDE DEF a
<1>3. new \in Block
  BY <1>1, <1>2 DEF Block, Heap
<1> HIDE DEF new
<1>4. TypeOK'
  BY <1>1, <1>2, <1>3 DEF TypeOK, Heap
<1>5. FreedSaysSo'
  BY <1>1, <1>2 DEF FreedSaysSo
<1> QED
  BY <1>4, <1>5

(* crt_malloc on a sound list gives a block that overlaps no other: it was *)
(* free, and the blocks of a tiling are disjoint.                          *)
LEMMA MallocKeeps ==
  ASSUME TypeOK, Sound, NEW size \in Requests, Malloc(size)
  PROVE  /\ Sound' /\ Len(live') = Len(live) + 1
         /\ Stacked => Stacked'
<1> DEFINE a == FirstFit(size)
           new == [header |-> a, size |-> size]
<1>1. /\ TypeOK /\ Heap(hdr) /\ LiveDisjoint /\ Sound /\ Tiling(hdr, List)
      /\ state = "main" /\ state' = "main" /\ lifo' = lifo
      /\ size \in Nat \ {0} /\ Fits(size) # {} /\ hdr' = Given(size)
      /\ live' = Append(live, new)
  BY RequestsAreSizes, HeapIs, SoundIsTiling DEF Malloc, Sound
<1> HIDE DEF a
<1>2. /\ a \in List /\ hdr[a].type = "FREE" /\ HeaderSize + size <= hdr[a].size
      /\ \E T : Gives(hdr, List, a, size, Given(size), T)
  BY <1>1, MallocEffect DEF a
<1>3. PICK T : Gives(hdr, List, a, size, hdr', T)
  BY <1>1, <1>2
<1>4. Heap(hdr') /\ Tiling(hdr', T) /\ List \subseteq T /\ T \subseteq DOMAIN hdr' /\ a \in T
  BY <1>2, <1>3 DEF Gives, Tiling
<1>5. List' = T
  <2>1. List' = ListOf(hdr')
    BY DEF List
  <2> QED
    BY <1>4, <2>1, TilingIsList
<1>6. /\ \A b \in List : b \in Address /\ b \in Nat /\ hdr[b].size \in Nat
      /\ HeaderSize \in Nat /\ HeaderSize > 0
  BY <1>1, Fields, HeaderSizePositive
<1>7. new \in Block /\ new.header = a /\ new.size = size
  BY <1>1, <1>2, <1>6 DEF Block
<1> HIDE DEF new
<1>8. /\ live \in Seq(Block) /\ Len(live) \in Nat /\ DOMAIN live = 1..Len(live)
      /\ live' \in Seq(Block) /\ Len(live') = Len(live) + 1 /\ DOMAIN live' = 1..(Len(live) + 1)
      /\ \A i \in DOMAIN live : live'[i] = live[i] /\ live[i] \in Live
      /\ live'[Len(live) + 1] = new
  BY <1>1, <1>7 DEF TypeOK, Live
<1>9. Live' = Live \cup {new}
  BY <1>8 DEF Live
<1>10. \A b \in Live : /\ b.header \in List /\ hdr[b.header].type = "USED" /\ b.header # a
                       /\ hdr[b.header].size >= HeaderSize + b.size /\ b.size \in Nat
                       /\ b.header \in Nat
  <2>1. \A b \in Live : b \in Block
    BY <1>8 DEF Live
  <2>2. \A b \in Live : b.header \in {c \in List : hdr[c].type = "USED"}
    BY <1>1 DEF Sound, UsedIsLive
  <2> QED
    BY <1>1, <1>2, <1>6, <2>1, <2>2 DEF Sound, UsedIsLive, Block
<1>12. LiveDisjoint'
  <2>1. ASSUME NEW b \in Live
        PROVE  /\ ~Overlap(b.header, HeaderSize + b.size, a, HeaderSize + size)
               /\ ~Overlap(a, HeaderSize + size, b.header, HeaderSize + b.size)
    <3>1. CASE b.header < a
      <4>1. b.header + hdr[b.header].size <= a
        BY <1>1, <1>2, <1>10, <3>1, Disjoint
      <4> QED
        BY <1>1, <1>2, <1>6, <1>10, <4>1 DEF Overlap
    <3>2. CASE b.header > a
      <4>1. a + hdr[a].size <= b.header
        BY <1>1, <1>2, <1>10, <3>2, Disjoint
      <4> QED
        BY <1>1, <1>2, <1>6, <1>10, <4>1 DEF Overlap
    <3> QED
      BY <1>2, <1>6, <1>10, <3>1, <3>2
  <2>2. \A i \in DOMAIN live' : i \in DOMAIN live \/ i = Len(live) + 1
    BY <1>8
  <2>3. SUFFICES ASSUME NEW i \in DOMAIN live', NEW j \in DOMAIN live', i # j
                 PROVE  ~Overlap(live'[i].header, HeaderSize + live'[i].size,
                                 live'[j].header, HeaderSize + live'[j].size)
    BY DEF LiveDisjoint
  <2>4. CASE i \in DOMAIN live /\ j \in DOMAIN live
    BY <1>1, <1>8, <2>3, <2>4 DEF LiveDisjoint
  <2>5. CASE i \in DOMAIN live /\ j = Len(live) + 1
    BY <1>7, <1>8, <2>1, <2>5
  <2>6. CASE i = Len(live) + 1 /\ j \in DOMAIN live
    BY <1>7, <1>8, <2>1, <2>6
  <2> QED
    BY <2>2, <2>3, <2>4, <2>5, <2>6
<1>14. Sound'
  <2>1. Tiled' /\ \A b \in List' : hdr'[b].prev < b
    BY <1>5, <1>4, TilingIsTiled DEF Tiled
  <2>2. /\ hdr'[a].type = "USED" /\ hdr'[a].size >= HeaderSize + size
        /\ \A b \in List \ {a} : hdr'[b] = hdr[b]
        /\ \A b \in T \ List : hdr'[b].type = "FREE"
    BY <1>3 DEF Gives
  <2>3. {b \in T : hdr'[b].type = "USED"} = {b \in List : hdr[b].type = "USED"} \cup {a}
    BY <1>2, <1>4, <2>2
  <2>4. {b.header : b \in Live'} = {b.header : b \in Live} \cup {a}
    BY <1>7, <1>9
  <2>5. \A b \in Live' : b.header \in DOMAIN hdr' /\ hdr'[b.header].size >= HeaderSize + b.size
    BY <1>4, <1>7, <1>9, <1>10, <2>2
  <2>6. {b \in List : hdr[b].type = "USED"} = {b.header : b \in Live}
    BY <1>1 DEF Sound, UsedIsLive
  <2>7. UsedIsLive'
    BY <1>5, <2>3, <2>4, <2>5, <2>6 DEF UsedIsLive
  <2> QED
    BY <1>12, <2>1, <2>7 DEF Sound
<1>15. ASSUME Stacked PROVE Stacked'
  <2>1. LinkedBothWays(hdr, List) /\ LastFree(hdr, List) /\ Ordered
    BY <1>15 DEF Stacked, DoublyLinked, LinkedBothWays
  <2>2. /\ LinkedBothWays(hdr', T) /\ LastFree(hdr', T)
        /\ \A b \in List : b # a => b < a
    BY <1>1, <1>2, <1>3, <2>1, GivesLast
  <2>3. Ordered'
    <3> SUFFICES ASSUME NEW i \in DOMAIN live', NEW j \in DOMAIN live', i < j
                 PROVE  live'[i].header < live'[j].header
      BY DEF Ordered
    <3>1. i \in DOMAIN live /\ (j \in DOMAIN live \/ j = Len(live) + 1)
      BY <1>8
    <3> QED
      BY <1>7, <1>8, <1>10, <2>1, <2>2, <3>1 DEF Ordered
  <2> QED
    BY <1>5, <1>14, <2>2, <2>3 DEF Stacked, DoublyLinked, LinkedBothWays
<1> QED
  BY <1>8, <1>14, <1>15

(* What crt_free does on any list.                                         *)
LEMMA FreeTypes ==
  ASSUME TypeOK, FreedSaysSo, NEW i \in DOMAIN live, Free(i)
  PROVE  TypeOK' /\ FreedSaysSo'
<1> DEFINE a == live[i].header
<1>1. /\ state = "main" /\ state' = "main" /\ lifo' = lifo /\ lifo \in BOOLEAN
      /\ hdr' = Freed(a) /\ freed' = freed \cup {a} /\ a \in DOMAIN hdr
      /\ live \in Seq(Block) /\ Heap(hdr) /\ freed \subseteq DOMAIN hdr
      /\ live' = [j \in 1..(Len(live) - 1) |-> IF j < i THEN live[j] ELSE live[j + 1]]
  BY HeapIs DEF Free, TypeOK
<1>2. live' \in Seq(Block)
  BY <1>1, Removal DEF Without
<1> HIDE DEF a
<1>3. /\ Heap(hdr') /\ DOMAIN hdr' = DOMAIN hdr
      /\ \A b \in DOMAIN hdr : hdr'[b].type = IF b = a THEN "FREE" ELSE hdr[b].type
  <2>1. CASE hdr[a].type = "FREE"
    BY <1>1, <2>1 DEF Freed
  <2>2. CASE hdr[a].type # "FREE"
    <3>1. hdr' = MergedIn(hdr, a)
      BY <1>1, <2>2 DEF Freed, Merged, MergedIn
    <3> QED
      BY <1>1, <3>1, MergedTyped
  <2> QED
    BY <2>1, <2>2
<1>4. TypeOK'
  BY <1>1, <1>2, <1>3 DEF TypeOK, Heap
<1>5. FreedSaysSo'
  BY <1>1, <1>3 DEF FreedSaysSo, TypeOK
<1> QED
  BY <1>4, <1>5

(* crt_free on a sound list leaves a sound one, unless it merges across:   *)
(* then what it leaves does not fill the heap.                             *)
LEMMA FreeKeeps ==
  ASSUME TypeOK, Sound, NEW i \in DOMAIN live, Free(i)
  PROVE  /\ Sound' <=> ~MergesAcross(live[i].header)
         /\ lifo /\ Stacked => Stacked'
<1> DEFINE a == live[i].header
<1>1. /\ TypeOK /\ Heap(hdr) /\ LiveDisjoint /\ Sound /\ Tiling(hdr, List)
      /\ state = "main" /\ state' = "main" /\ lifo' = lifo
      /\ hdr' = Freed(a)
      /\ lifo => i = Len(live)
      /\ live \in Seq(Block) /\ HeaderSize \in Nat
  BY HeaderSizePositive, HeapIs, SoundIsTiling DEF Free, TypeOK, Sound
<1>2. /\ live' \in Seq(Block) /\ Len(live') = Len(live) - 1 /\ DOMAIN live' = 1..Len(live')
      /\ \A j \in DOMAIN live' : Skip(i, j) \in DOMAIN live \ {i} /\ live'[j] = live[Skip(i, j)]
      /\ \A j, k \in DOMAIN live' : j < k => Skip(i, j) < Skip(i, k)
      /\ \A k \in DOMAIN live \ {i} : \E j \in DOMAIN live' : live'[j] = live[k]
  <2>1. live' = [j \in 1..(Len(live) - 1) |-> IF j < i THEN live[j] ELSE live[j + 1]]
    BY DEF Free
  <2>2. live \in Seq(Block) /\ i \in DOMAIN live
    BY <1>1
  <2>3. Without(live, i, live')
    BY <2>1, <2>2, Removal
  <2> QED
    BY <2>3 DEF Without
<1>3. \A k \in DOMAIN live : live[k] \in Block /\ live[k] \in Live
  BY <1>1 DEF Live
<1>4. {b \in List : hdr[b].type = "USED"} = {b.header : b \in Live}
  BY <1>1 DEF Sound, UsedIsLive
<1>5. a \in List /\ hdr[a].type = "USED"
  BY <1>3, <1>4
<1>6. \A k \in DOMAIN live \ {i} : live[k].header # a
  <2> SUFFICES ASSUME NEW k \in DOMAIN live \ {i}, live[k].header = a PROVE FALSE
    OBVIOUS
  <2>1. ~Overlap(a, HeaderSize + live[i].size, a, HeaderSize + live[k].size)
    BY <1>1 DEF LiveDisjoint
  <2>2. live[i].size \in Nat \ {0} /\ live[k].size \in Nat \ {0} /\ a \in Nat
    BY <1>3 DEF Block, Address
  <2> HIDE DEF a
  <2> QED
    BY <1>1, <2>1, <2>2 DEF Overlap
<1> HIDE DEF a
<1>0. hdr' = MergedIn(hdr, a)
  BY <1>1, <1>5 DEF Freed, Merged, MergedIn
<1>7. /\ Heap(hdr') /\ DOMAIN hdr' = DOMAIN hdr
      /\ \A b \in DOMAIN hdr : hdr'[b].type = IF b = a THEN "FREE" ELSE hdr[b].type
      /\ \/ /\ \E T \in SUBSET List : Keeps(hdr, List, a, hdr', T)
            /\ ~Across(hdr, List, a)
         \/ Across(hdr, List, a) /\ Breaks(hdr')
  <2>1. /\ Heap(MergedIn(hdr, a)) /\ DOMAIN MergedIn(hdr, a) = DOMAIN hdr
        /\ \A b \in DOMAIN hdr : MergedIn(hdr, a)[b].type = IF b = a THEN "FREE" ELSE hdr[b].type
        /\ \/ /\ \E T \in SUBSET List : Keeps(hdr, List, a, MergedIn(hdr, a), T)
              /\ ~Across(hdr, List, a)
           \/ Across(hdr, List, a) /\ Breaks(MergedIn(hdr, a))
    BY <1>1, <1>5, FreeEffect
  <2> QED
    BY <1>0, <2>1
<1>8. List \subseteq DOMAIN hdr /\ a \in DOMAIN hdr
  BY <1>1, <1>5 DEF Tiling
<1>10. LiveDisjoint'
  <2> SUFFICES ASSUME NEW j \in DOMAIN live', NEW k \in DOMAIN live', j # k
               PROVE  ~Overlap(live'[j].header, HeaderSize + live'[j].size,
                               live'[k].header, HeaderSize + live'[k].size)
    BY DEF LiveDisjoint
  <2>1. Skip(i, j) # Skip(i, k)
    <3>1. j < k \/ k < j
      BY <1>2
    <3>2. Skip(i, j) \in Int /\ Skip(i, k) \in Int
      BY <1>2 DEF Skip
    <3> QED
      BY <1>2, <3>1, <3>2
  <2> QED
    BY <1>1, <1>2, <2>1 DEF LiveDisjoint
<1>12. List' = ListOf(hdr')
  BY DEF List
<1>13. ASSUME NEW T \in SUBSET List, Keeps(hdr, List, a, hdr', T)
       PROVE  List' = T /\ Tiling(hdr', T) /\ Sound'
  <2>1. Tiling(hdr', T) /\ List' = T
    BY <1>7, <1>12, <1>13, TilingIsList DEF Keeps
  <2>2. Tiled' /\ \A b \in List' : hdr'[b].prev < b
    BY <1>7, <2>1, TilingIsTiled DEF Tiled
  <2>3. Live' = {live[k] : k \in DOMAIN live \ {i}}
    BY <1>2 DEF Live
  <2>4. /\ \A b \in T : hdr'[b].type = "USED" => b # a /\ hdr[b].type = "USED"
                                                   /\ hdr'[b].size = hdr[b].size
        /\ \A b \in List : b # a /\ hdr[b].type = "USED" => b \in T /\ hdr'[b].type = "USED"
    BY <1>7, <1>8, <1>13 DEF Keeps
  <2>5. {b \in T : hdr'[b].type = "USED"} = {b \in List : hdr[b].type = "USED"} \ {a}
    BY <2>4
  <2>6. {b.header : b \in Live'} = {b.header : b \in Live} \ {a}
    BY <1>6, <2>3 DEF Live, a
  <2>7. \A b \in Live' : b.header \in DOMAIN hdr' /\ hdr'[b.header].size >= HeaderSize + b.size
    <3> SUFFICES ASSUME NEW b \in Live'
                 PROVE  b.header \in DOMAIN hdr' /\ hdr'[b.header].size >= HeaderSize + b.size
      OBVIOUS
    <3>1. b \in Live /\ b.header \in T /\ hdr'[b.header].type = "USED"
      BY <1>4, <2>3, <2>5, <2>6 DEF Live
    <3> QED
      BY <1>1, <1>7, <1>8, <2>4, <3>1 DEF Sound, UsedIsLive
  <2>8. UsedIsLive'
    BY <1>4, <2>1, <2>5, <2>6, <2>7 DEF UsedIsLive
  <2> QED
    BY <1>10, <2>1, <2>2, <2>8 DEF Sound
<1>14. ASSUME Breaks(hdr') PROVE ~Sound'
  BY <1>12, <1>14 DEF Breaks, Sound, Tiled
<1>15. Sound' <=> ~Across(hdr, List, a)
  BY <1>7, <1>13, <1>14
<1>16. MergesAcross(a) <=> Across(hdr, List, a)
  BY DEF MergesAcross, Across
<1>17. ASSUME lifo, Stacked PROVE Stacked'
  <2>1. LinkedBothWays(hdr, List) /\ LastFree(hdr, List) /\ Ordered
    BY <1>17 DEF Stacked, DoublyLinked, LinkedBothWays
  <2>2. \A b \in List : hdr[b].type = "USED" => b <= a
    <3> SUFFICES ASSUME NEW b \in List, hdr[b].type = "USED" PROVE b <= a
      OBVIOUS
    <3>1. PICK k \in DOMAIN live : b = live[k].header
      BY <1>4 DEF Live
    <3>2. k = i \/ k < i
      BY <1>1, <1>17
    <3>3. a \in Nat /\ b \in Nat
      BY <1>3, <3>1 DEF Block, Address, a
    <3> QED
      BY <2>1, <3>1, <3>2, <3>3 DEF Ordered, a
  <2>3. PICK T \in SUBSET List : /\ Tiling(hdr', T) /\ LinkedBothWays(hdr', T)
                                 /\ LastFree(hdr', T)
    <3>1. \E T \in SUBSET List :
            /\ Tiling(MergedIn(hdr, a), T) /\ LinkedBothWays(MergedIn(hdr, a), T)
            /\ \A b \in T : MergedIn(hdr, a)[b].type = "FREE" => MergedIn(hdr, a)[b].next = NULL
      BY <1>1, <1>5, <2>1, <2>2, FreeLast DEF LastFree
    <3> QED
      BY <1>0, <3>1 DEF LastFree
  <2>4. List' = T
    BY <1>7, <1>12, <2>3, TilingIsList
  <2>5. Ordered'
    BY <1>2, <2>1 DEF Ordered
  <2> QED
    BY <1>1, <1>15, <2>1, <2>3, <2>4, <2>5, LinkedNeverAcross, <1>5 DEF Stacked, DoublyLinked, LinkedBothWays
<1> QED
  BY <1>15, <1>16, <1>17 DEF a

(* A block freed twice says that it is free, and nothing changes.          *)
LEMMA DoubleFreeKeeps ==
  ASSUME HeapInv, NEW a \in freed, DoubleFree(a)
  PROVE  UNCHANGED vars
BY DEF HeapInv, FreedSaysSo, DoubleFree, Freed, vars

LEMMA HeapInvIdle == HeapInv /\ UNCHANGED vars => HeapInv'
<1> SUFFICES ASSUME HeapInv, UNCHANGED vars PROVE HeapInv'
  OBVIOUS
<1>1. /\ lifo' = lifo /\ state' = state /\ hdr' = hdr /\ live' = live /\ freed' = freed
  BY DEF vars
<1>2. List' = List
  BY <1>1 DEF List
<1> QED
  BY <1>1, <1>2 DEF HeapInv, TypeOK, LiveDisjoint, FreedSaysSo, Stacked, Sound, Tiled,
                    UsedIsLive, Live, DoublyLinked, LastFree, Ordered

(* The end of main, and of a program that goes on by its own data.         *)
LEMMA EndKeeps == HeapInv /\ (Exit \/ Astray) => HeapInv'
BY DEF HeapInv, Exit, Astray, TypeOK, FreedSaysSo

LEMMA HeapInvStep == HeapInv /\ [Next]_vars => HeapInv'
<1> SUFFICES ASSUME HeapInv, [Next]_vars PROVE HeapInv'
  OBVIOUS
<1>1. CASE HeapInit
  BY <1>1, SetUp
<1>2. CASE Exit \/ Astray
  BY <1>2, EndKeeps
<1>3. ASSUME NEW size \in Requests, Malloc(size) PROVE HeapInv'
  <2>1. TypeOK' /\ FreedSaysSo'
    BY <1>3, MallocTypes DEF HeapInv
  <2>2. state = "main" /\ state' = "main" /\ lifo' = lifo
    BY <1>3 DEF Malloc
  <2>3. lifo => Stacked'
    BY <1>3, <2>2, MallocKeeps DEF HeapInv, Stacked
  <2> QED
    BY <2>1, <2>2, <2>3 DEF HeapInv
<1>4. ASSUME NEW i \in DOMAIN live, Free(i) PROVE HeapInv'
  <2>1. TypeOK' /\ FreedSaysSo'
    BY <1>4, FreeTypes DEF HeapInv
  <2>2. state = "main" /\ state' = "main" /\ lifo' = lifo
    BY <1>4 DEF Free
  <2>3. lifo => Stacked'
    BY <1>4, <2>2, FreeKeeps DEF HeapInv, Stacked
  <2> QED
    BY <2>1, <2>2, <2>3 DEF HeapInv
<1>5. CASE \E a \in freed : DoubleFree(a)
  BY <1>5, DoubleFreeKeeps, HeapInvIdle
<1>6. CASE Stopped \/ (\E size \in Requests : MallocFails(size)) \/ UNCHANGED vars
  BY <1>6, HeapInvIdle DEF Stopped, MallocFails
<1> QED
  BY <1>1, <1>2, <1>3, <1>4, <1>5, <1>6 DEF Next

(* The invariant holds in every state the program reaches.                 *)
THEOREM HeapInvariant == Spec => []HeapInv
BY HeapInvInit, HeapInvStep, PTL DEF Spec

(* TypeOK: whatever the program does to the list, every header lies in the *)
(* heap and links into it or to NULL, and every block it gets has its      *)
(* header there.                                                           *)
THEOREM HeapTypes == Spec => []TypeOK
<1>1. HeapInv => TypeOK
  BY DEF HeapInv
<1> QED
  BY <1>1, HeapInvariant, PTL

(* FreedSaysSo: a header that crt_free marked stays marked while it is     *)
(* intact, on the list or merged away, so line 22 of malloc.c finds every  *)
(* second free of a block.                                                 *)
THEOREM FreedBlocksSaySo == Spec => []FreedSaysSo
<1>1. HeapInv => FreedSaysSo
  BY DEF HeapInv
<1> QED
  BY <1>1, HeapInvariant, PTL

(* AlwaysSound: with frees in the reverse order of the allocations the     *)
(* list always describes the heap, free neighbours are merged and prev     *)
(* undoes next.                                                            *)
THEOREM SoundWhenStacked == Spec => []AlwaysSound
<1>1. HeapInv => AlwaysSound
  <2> SUFFICES ASSUME HeapInv, lifo, state = "main" PROVE Sound /\ Coalesced /\ DoublyLinked
    BY DEF AlwaysSound
  <2>1. Sound /\ DoublyLinked /\ LastFree(hdr, List) /\ DOMAIN hdr \subseteq Address
    BY DEF HeapInv, Stacked, TypeOK
  <2>2. Coalesced
    BY <2>1 DEF Coalesced, LastFree, Address, NULL
  <2> QED
    BY <2>1, <2>2
<1> QED
  BY <1>1, HeapInvariant, PTL

(* NothingLost: when a program that frees in reverse order holds no block, *)
(* the first block is the whole heap again.                                *)
THEOREM WholeAgain == Spec => []NothingLost
<1>1. HeapInv => NothingLost
  <2> SUFFICES ASSUME HeapInv, lifo, state = "main", live = <<>> PROVE hdr[list_head].size = HeapSize
    BY DEF NothingLost
  <2>1. Sound /\ Heap(hdr) /\ Tiling(hdr, List) /\ LastFree(hdr, List)
    BY HeapIs, SoundIsTiling DEF HeapInv, Stacked
  <2>2. list_head \in List /\ hdr[list_head].type = "FREE"
    <3>1. {b \in List : hdr[b].type = "USED"} = {}
      BY <2>1 DEF Sound, UsedIsLive, Live
    <3>2. list_head \in List /\ list_head \in DOMAIN hdr /\ hdr[list_head] \in Header
      BY <2>1 DEF Tiling, Heap
    <3> QED
      BY <3>1, <3>2 DEF Header
  <2>3. hdr[list_head].next = NULL
    BY <2>1, <2>2 DEF LastFree
  <2>4. hdr[list_head].size \in Nat
    BY <2>1, <2>2, Fields
  <2> QED
    BY <2>1, <2>2, <2>3, <2>4 DEF Tiling, list_head, NULL
<1> QED
  BY <1>1, HeapInvariant, PTL

(* KeepsSound: no crt_malloc makes a sound heap unsound, and crt_free does *)
(* exactly when prev names a free block that is not the one before.        *)
THEOREM SoundIsKept == Spec => KeepsSound
<1> DEFINE Step1 == Len(live') > Len(live) => Sound'
           Step2 == \A i \in DOMAIN live : Free(i) => (Sound' <=> ~MergesAcross(live[i].header))
<1>1. HeapInv /\ [Next]_vars => [Sound => Step1 /\ Step2]_vars
  <2> SUFFICES ASSUME HeapInv, [Next]_vars, Sound PROVE Step1 /\ Step2
    OBVIOUS
  <2>0. Len(live) \in Nat /\ TypeOK /\ live \in Seq(Block)
    BY DEF HeapInv, TypeOK
  <2>1. ASSUME NEW size \in Requests, Malloc(size) PROVE Sound'
    BY <2>0, <2>1, MallocKeeps
  <2>2. ASSUME NEW i \in DOMAIN live, Free(i) PROVE Len(live') = Len(live) - 1
    <3>1. live' = [j \in 1..(Len(live) - 1) |-> IF j < i THEN live[j] ELSE live[j + 1]]
      BY <2>2 DEF Free
    <3> QED
      BY <2>0, <3>1, Removal DEF Without
  <2>3. \/ \E size \in Requests : Malloc(size)
        \/ \E i \in DOMAIN live : Free(i)
        \/ live' = live
    BY DEF Next, HeapInit, Exit, Astray, Stopped, MallocFails, DoubleFree, vars
  <2>4. Step1
    BY <2>0, <2>1, <2>2, <2>3
  <2>5. Step2
    BY <2>0, FreeKeeps
  <2> QED
    BY <2>4, <2>5
<1> QED
  BY <1>1, HeapInvariant, PTL DEF Spec, KeepsSound

-----------------------------------------------------------------------------
(* The key-value server. *)
Critical(c) == handler[c] \in {"access", "unlock"}

(* One handler at most is between its Lock and its Unlock. *)
Exclusive == \A c, d \in Client : Critical(c) /\ Critical(d) => c = d

(* Handlers run only while the server is up; it comes up with kv.mu free. *)
Quiet == /\ server # "up" => \A c \in Client : handler[c] \in {"none", "sent"}
         /\ server = "down" => ~mu

(* A handler runs for a call, and has its reply when it reaches Unlock. *)
Asked == \A c \in Client :
           handler[c] \in {"lock", "access", "unlock", "sent"} => call[c] # NoCall
Replied == \A c \in Client : handler[c] \in {"unlock", "sent"} => reply[c] # NoReply
NotBefore == \A c \in Client :
               reply[c] # NoReply => handler[c] \in {"unlock", "sent"} \/ server = "dead"
Fresh == \A c \in Client :
           pc[c] \in {"idle", "connected"} => call[c] = NoCall /\ reply[c] = NoReply

ServerInv == /\ ServerTypeOK
        /\ Exclusive /\ MutexHeldInHandler /\ Quiet
        /\ Asked /\ Replied /\ NotBefore /\ Fresh

-----------------------------------------------------------------------------
(* What a call and a reply can be. *)
LEMMA CallsAre == ASSUME NEW r \in GetArgs \cup PutArgs
               PROVE  /\ r # NoCall
                      /\ r.key \in Key
                      /\ r.op = "get" \/ r.op = "put"
                      /\ r.op = "put" => r.value \in Value
BY DEF GetArgs, PutArgs, NoCall

LEMMA Replies == /\ \A v : OK(v) # NoReply
                 /\ Stored # NoReply
                 /\ ErrNoKey # NoReply
                 /\ \A v \in Value : OK(v) \in Reply
                 /\ Stored \in Reply
                 /\ ErrNoKey \in Reply
BY DEF OK, Stored, ErrNoKey, NoReply, Reply

LEMMA ArgsTyped == ASSUME NEW c \in Client PROVE Args(c) \subseteq GetArgs \cup PutArgs
BY MainPutsIsTyped DEF Args, GetArgs, PutArgs

(* The map after a put. *)
LEMMA PutTyped ==
  ASSUME NEW f, DOMAIN f \subseteq Key, f \in [DOMAIN f -> Value], NEW k \in Key, NEW v \in Value
  PROVE  LET g == [x \in DOMAIN f \cup {k} |-> IF x = k THEN v ELSE f[x]]
         IN DOMAIN g \subseteq Key /\ g \in [DOMAIN g -> Value]
OBVIOUS

-----------------------------------------------------------------------------
LEMMA InitServerTyped == ServerInit => ServerTypeOK
<1> SUFFICES ASSUME ServerInit PROVE ServerTypeOK
  OBVIOUS
<1>1. data \in [DOMAIN data -> Value] /\ DOMAIN data \subseteq Key
  BY DEF ServerInit
<1> QED
  BY <1>1 DEF ServerInit, ServerTypeOK

LEMMA GetTyped == ASSUME ServerTypeOK, Asked, NEW c \in Client, Get(c) PROVE ServerTypeOK'
<1>1. call[c] \in GetArgs \cup PutArgs
  BY DEF ServerTypeOK, Asked, Get
<1> DEFINE r == IF call[c].key \in DOMAIN data THEN OK(data[call[c].key]) ELSE ErrNoKey
<1>2. call[c].key \in DOMAIN data => data[call[c].key] \in Value
  BY DEF ServerTypeOK
<1>3. r \in Reply
  BY <1>2, Replies
<1>4. reply' = [reply EXCEPT ![c] = r]
  BY DEF Get
<1> HIDE DEF r
<1>5. reply' \in [Client -> Reply \cup {NoReply}]
  BY <1>3, <1>4 DEF ServerTypeOK
<1> QED
  BY <1>5 DEF Get, ServerTypeOK, client

LEMMA PutTypedStep == ASSUME ServerTypeOK, Asked, NEW c \in Client, Put(c) PROVE ServerTypeOK'
<1>1. call[c] \in GetArgs \cup PutArgs
  BY DEF ServerTypeOK, Asked, Put
<1>2. call[c].key \in Key /\ call[c].value \in Value
  BY <1>1, CallsAre DEF Put
<1>3. DOMAIN data' \subseteq Key /\ data' \in [DOMAIN data' -> Value]
  BY <1>2, PutTyped DEF Put, ServerTypeOK
<1>4. reply' \in [Client -> Reply \cup {NoReply}]
  BY Replies DEF Put, ServerTypeOK
<1> QED
  BY <1>3, <1>4 DEF Put, ServerTypeOK, client

LEMMA StepServerTyped == ASSUME ServerTypeOK, Asked, [ServerNext]_serverVars PROVE ServerTypeOK'
<1>1. CASE Listen
  BY <1>1 DEF Listen, ServerTypeOK
<1>2. CASE ServerExit
  BY <1>2 DEF ServerExit, Down, ServerTypeOK, client
<1>3. CASE Terminated \/ UNCHANGED serverVars
  BY <1>3 DEF Terminated, serverVars, client, ServerTypeOK
<1>4. ASSUME NEW c \in Client, Connect(c) PROVE ServerTypeOK'
  BY <1>4 DEF Connect, ServerTypeOK
<1>5. ASSUME NEW c \in Client, Accept(c) \/ Serve(c) \/ Unlock(c) \/ Lock(c) PROVE ServerTypeOK'
  BY <1>5 DEF Accept, Serve, Unlock, Lock, ServerTypeOK, client
<1>6. ASSUME NEW c \in Client, Get(c) PROVE ServerTypeOK'
  BY <1>6, GetTyped
<1>7. ASSUME NEW c \in Client, Put(c) PROVE ServerTypeOK'
  BY <1>7, PutTypedStep
<1>8. ASSUME NEW c \in Client, Return(c) PROVE ServerTypeOK'
  BY <1>8 DEF Return, ServerTypeOK
<1>9. ASSUME NEW c \in Client, Fatal(c) PROVE ServerTypeOK'
  BY <1>9 DEF Fatal, Down, ServerTypeOK
<1>10. ASSUME NEW c \in Client, NEW args \in Args(c), Call(c, args) PROVE ServerTypeOK'
  <2>1. args \in GetArgs \cup PutArgs
    BY ArgsTyped
  <2> QED
    BY <1>10, <2>1 DEF Call, ServerTypeOK
<1> QED
  BY <1>1, <1>2, <1>3, <1>4, <1>5, <1>6, <1>7, <1>8, <1>9, <1>10 DEF ServerNext, Serving

-----------------------------------------------------------------------------
(* The handlers and the mutex. *)
Locking == Exclusive /\ MutexHeldInHandler /\ Quiet

LEMMA StepLocking == ASSUME ServerTypeOK, Asked, Fresh, Locking, [ServerNext]_serverVars PROVE Locking'
<1> USE DEF ServerTypeOK, Locking, Exclusive, MutexHeldInHandler, Quiet, Critical
<1>1. CASE Listen
  BY <1>1 DEF Listen
<1>2. CASE Down
  <2>1. server' = "dead" /\ \A c \in Client : handler'[c] = "none" \/ handler'[c] = "sent"
    BY <1>2 DEF Down
  <2>2. Exclusive' /\ Quiet' /\ MutexHeldInHandler'
    BY <2>1
  <2> QED
    BY <2>2
<1>3. CASE Terminated \/ UNCHANGED serverVars
  BY <1>3 DEF Terminated, serverVars, client
<1>4. ASSUME NEW c \in Client, Connect(c) \/ Accept(c) \/ Serve(c) PROVE Locking'
  <2>1. CASE UNCHANGED handler
    BY <1>4, <2>1 DEF Connect, Accept, Serve, client
  <2>2. CASE \E h \in {"backlog", "serve", "lock"} : handler' = [handler EXCEPT ![c] = h]
    <3>1. handler[c] \notin {"access", "unlock"} /\ UNCHANGED mu
      BY <1>4, <2>2 DEF Connect, Accept, Serve, client, Asked, Fresh
    <3>3. server = "up" /\ UNCHANGED server
      BY <1>4, <2>2 DEF Connect, Accept, Serve
    <3>2. /\ handler'[c] \notin {"access", "unlock"}
          /\ \A d \in Client : d # c => handler'[d] = handler[d]
      BY <2>2
    <3> QED
      BY <3>1, <3>2, <3>3
  <2> QED
    BY <1>4, <2>1, <2>2 DEF Connect, Accept, Serve
<1>5. ASSUME NEW c \in Client, Lock(c) PROVE Locking'
  <2>1. server = "up" /\ server' = "up"
    BY <1>5 DEF Lock, client
  <2>2. \A d \in Client : handler[d] \notin {"access", "unlock"}
    BY <1>5, <2>1 DEF Lock
  <2>3. handler'[c] = "access" /\ mu' = TRUE
    BY <1>5 DEF Lock
  <2>4. \A d \in Client : d # c => handler'[d] \notin {"access", "unlock"}
    BY <1>5, <2>2 DEF Lock
  <2> QED
    BY <2>1, <2>3, <2>4
<1>6. ASSUME NEW c \in Client, Get(c) \/ Put(c) PROVE Locking'
  BY <1>6 DEF Get, Put, client
<1>7. ASSUME NEW c \in Client, Unlock(c) PROVE Locking'
  <2>1. server = "up" /\ server' = "up"
    BY <1>7 DEF Unlock, client
  <2>2. \A d \in Client : d # c => handler[d] \notin {"access", "unlock"}
    BY <1>7 DEF Unlock
  <2>3. \A d \in Client : handler'[d] \notin {"access", "unlock"}
    BY <1>7, <2>2 DEF Unlock
  <2>4. mu' = FALSE
    BY <1>7 DEF Unlock
  <2> QED
    BY <2>1, <2>3, <2>4
<1>8. ASSUME NEW c \in Client, Return(c) PROVE Locking'
  BY <1>8 DEF Return
<1>9. ASSUME NEW c \in Client,
             (Fatal(c) /\ c # main) \/ \E args \in Args(c) : Call(c, args)
      PROVE  Locking'
  BY <1>9 DEF Fatal, Call
<1> QED
  BY <1>1, <1>2, <1>3, <1>4, <1>5, <1>6, <1>7, <1>8, <1>9
     DEF ServerNext, Serving, ServerExit, Fatal

(* The calls and their replies. *)
Answering == Asked /\ Replied /\ NotBefore /\ Fresh

LEMMA StepAnswering ==
  ASSUME ServerTypeOK, Quiet, Answering, [ServerNext]_serverVars PROVE Answering'
<1> USE DEF ServerTypeOK, Answering, Asked, Replied, NotBefore, Fresh
<1>1. CASE Listen
  BY <1>1 DEF Listen
<1>2. CASE ServerExit
  BY <1>2 DEF ServerExit, Down, client
<1>3. CASE Terminated \/ UNCHANGED serverVars
  BY <1>3 DEF Terminated, serverVars, client
<1>4. ASSUME NEW c \in Client, Connect(c) PROVE Answering'
  BY <1>4 DEF Connect
<1>5. ASSUME NEW c \in Client, Accept(c) \/ Serve(c) \/ Lock(c) \/ Unlock(c) PROVE Answering'
  BY <1>5 DEF Accept, Serve, Lock, Unlock, client
<1>6. ASSUME NEW c \in Client, Get(c) \/ Put(c) PROVE Answering'
  <2>1. reply'[c] # NoReply /\ reply' = [reply EXCEPT ![c] = reply'[c]]
    BY <1>6, Replies DEF Get, Put
  <2>2. /\ handler[c] = "access"
        /\ handler' = [handler EXCEPT ![c] = "unlock"]
        /\ UNCHANGED <<server, pc, call>>
    BY <1>6 DEF Get, Put, client
  <2>3. pc[c] \notin {"idle", "connected"}
    BY <2>2
  <2> QED
    BY <2>1, <2>2, <2>3
<1>7. ASSUME NEW c \in Client, Return(c) PROVE Answering'
  BY <1>7 DEF Return
<1>8. ASSUME NEW c \in Client, Fatal(c) PROVE Answering'
  BY <1>8 DEF Fatal, Down
<1>9. ASSUME NEW c \in Client, NEW args \in Args(c), Call(c, args) PROVE Answering'
  <2>1. args # NoCall
    BY ArgsTyped, CallsAre
  <2> QED
    BY <1>9, <2>1 DEF Call
<1> QED
  BY <1>1, <1>2, <1>3, <1>4, <1>5, <1>6, <1>7, <1>8, <1>9 DEF ServerNext, Serving

LEMMA InitServerInv == ServerInit => ServerInv
<1> SUFFICES ASSUME ServerInit PROVE ServerInv
  OBVIOUS
<1>1. ServerTypeOK
  BY InitServerTyped
<1> QED
  BY <1>1 DEF ServerInit, ServerInv, Exclusive, MutexHeldInHandler, Quiet, Critical,
              Asked, Replied, NotBefore, Fresh

LEMMA StepServerInv == ServerInv /\ [ServerNext]_serverVars => ServerInv'
BY StepServerTyped, StepLocking, StepAnswering DEF ServerInv, Locking, Answering

(* The inductive invariant holds throughout. *)
LEMMA ServerInvariance == ServerSpec => []ServerInv
<1>1. ServerInv /\ [ServerNext]_serverVars => ServerInv'
  BY StepServerInv
<1> QED
  BY InitServerInv, <1>1, PTL DEF ServerSpec

(* The variables of the server and its clients stay within their types. *)
THEOREM ServerTypeCorrect == ServerSpec => []ServerTypeOK
<1>1. ServerInv => ServerTypeOK
  BY DEF ServerInv
<1> QED
  BY ServerInvariance, <1>1, PTL

(* Two handlers are never at kv.data at once when one of them writes it.   *)
THEOREM HandlersExclude == ServerSpec => []NoMapRace
<1>1. ServerInv => NoMapRace
  BY DEF ServerInv, Exclusive, Critical, NoMapRace
<1> QED
  BY ServerInvariance, <1>1, PTL

(* While the server is up, kv.mu is locked just when a handler is between  *)
(* its Lock and its deferred Unlock: no path leaves it locked.             *)
THEOREM MutexReleased == ServerSpec => []MutexHeldInHandler
<1>1. ServerInv => MutexHeldInHandler
  BY DEF ServerInv
<1> QED
  BY ServerInvariance, <1>1, PTL

-----------------------------------------------------------------------------
(* The handlers' replies and calls are those of the store. *)
LEMMA SameWords == /\ Abstract!NoCall = NoCall
                   /\ Abstract!NoReply = NoReply
                   /\ Abstract!Request = GetArgs \cup PutArgs
                   /\ \A v : Abstract!OK(v) = OK(v)
                   /\ Abstract!Stored = Stored
                   /\ Abstract!ErrNoKey = ErrNoKey
BY DEF Abstract!NoCall, NoCall, Abstract!NoReply, NoReply, Abstract!Request, GetArgs, PutArgs,
       Abstract!OK, OK, Abstract!Stored, Stored, Abstract!ErrNoKey, ErrNoKey

LEMMA InitRefines == ServerInit => Abstract!Init
BY SameWords DEF ServerInit, Abstract!Init

LEMMA StepRefines == ASSUME ServerInv, [ServerNext]_serverVars PROVE [Abstract!Next]_(Abstract!vars)
<1> USE DEF Abstract!vars
<1>1. CASE Listen
  <2>1. CASE UNCHANGED pc
    BY <1>1, <2>1 DEF Listen
  <2>2. CASE pc' = [pc EXCEPT ![main] = "fatal"]
    <3>1. CASE pc[main] = "fatal"
      BY <1>1, <2>2, <3>1 DEF Listen, ServerInv, ServerTypeOK
    <3>2. CASE pc[main] # "fatal"
      <4>1. Abstract!Fail(main)
        BY <1>1, <2>2, <3>2, MainIsClient DEF Listen, ServerInv, ServerTypeOK, Abstract!Fail
      <4> QED
        BY <4>1, MainIsClient DEF Abstract!Next
    <3> QED
      BY <3>1, <3>2
  <2> QED
    BY <1>1, <2>1, <2>2 DEF Listen
<1>2. CASE ServerExit \/ Terminated \/ UNCHANGED serverVars
  BY <1>2 DEF ServerExit, Terminated, serverVars, client
<1>3. ASSUME NEW c \in Client, Connect(c) \/ Fatal(c) PROVE [Abstract!Next]_(Abstract!vars)
  <2>1. CASE pc' = [pc EXCEPT ![c] = "connected"]
    BY <1>3, <2>1 DEF Connect, Fatal, ServerInv, ServerTypeOK
  <2>2. CASE pc' = [pc EXCEPT ![c] = "fatal"]
    <3>1. Abstract!Fail(c)
      BY <1>3, <2>2 DEF Connect, Fatal, ServerInv, ServerTypeOK, Abstract!Fail
    <3> QED
      BY <3>1 DEF Abstract!Next
  <2> QED
    BY <1>3, <2>1, <2>2 DEF Connect, Fatal
<1>4. ASSUME NEW c \in Client, Accept(c) \/ Serve(c) \/ Lock(c) \/ Unlock(c)
      PROVE  [Abstract!Next]_(Abstract!vars)
  BY <1>4 DEF Accept, Serve, Lock, Unlock, client
<1>5. ASSUME NEW c \in Client, Get(c) \/ Put(c) PROVE [Abstract!Next]_(Abstract!vars)
  <2>1. handler[c] = "access" /\ call[c] # NoCall
    BY <1>5 DEF Get, Put, ServerInv, Asked
  <2>2. reply[c] = NoReply
    BY <2>1 DEF ServerInv, NotBefore, Quiet
  <2>3. Abstract!Apply(c)
    BY <1>5, <2>1, <2>2, SameWords DEF Get, Put, client, Abstract!Apply, Abstract!Put
  <2> QED
    BY <2>3 DEF Abstract!Next
<1>6. ASSUME NEW c \in Client, Return(c) PROVE [Abstract!Next]_(Abstract!vars)
  <2>1. reply[c] # NoReply /\ pc[c] # "fatal"
    BY <1>6 DEF Return, ServerInv, Replied
  <2>2. Abstract!Return(c)
    BY <1>6, <2>1, SameWords DEF Return, ServerInv, ServerTypeOK, Abstract!Return
  <2> QED
    BY <2>2 DEF Abstract!Next
<1>7. ASSUME NEW c \in Client, NEW args \in Args(c), Call(c, args)
      PROVE  [Abstract!Next]_(Abstract!vars)
  <2>1. args \in Abstract!Request
    BY ArgsTyped, SameWords
  <2>2. call[c] = NoCall
    BY <1>7 DEF Call, ServerInv, Fresh
  <2>3. Abstract!Invoke(c, args)
    BY <1>7, <2>2, SameWords DEF Call, ServerInv, ServerTypeOK, Abstract!Invoke
  <2> QED
    BY <2>1, <2>3 DEF Abstract!Next
<1> QED
  BY <1>1, <1>2, <1>3, <1>4, <1>5, <1>6, <1>7 DEF ServerNext, Serving

(* The server implements the store: every call takes effect at one instant *)
(* between its start and its end, and a call that fails took effect once   *)
(* or not at all.                                                          *)
THEOREM ServerImplements == ServerSpec => ImplementsStore
<1>1. ServerInv /\ [ServerNext]_serverVars => [Abstract!Next]_(Abstract!vars)
  BY StepRefines
<1> QED
  BY ServerInvariance, InitRefines, <1>1, PTL DEF ServerSpec, ImplementsStore, Abstract!Spec

-----------------------------------------------------------------------------
(* The shared-memory handoff. *)
Byte(w, i) == IF i = Len(str[w]) + 1 THEN NUL ELSE str[w][i]
Alone(w) == \A v \in Writer \ {w} : copied[v] = {}
Before == {"shmget", "semget", "shmat", "setval", "tell"}
After == {"print", "rmshm", "rmsem", "done"}

(* Writers start when the ids are known, so after SETVAL. *)
NotYet == at[reader] \in Before => \A w \in Writer : at[w] = "start"

(* The one decrement that the semaphore allows is a writer's success. *)
Signals ==
  /\ OneSucceeds
  /\ (\E w \in Writer : at[w] = "done") => semval = 0
  /\ at[reader] \notin {"shmget", "semget", "shmat", "setval", "dead"} /\ semval = 0
       => \E w \in Writer : at[w] = "done"
  /\ at[reader] \in After => \E w \in Writer : at[w] = "done"

(* What a writer has copied, and when it is all of its string. *)
Copies ==
  \A w \in Writer : /\ copied[w] \subseteq 1..(Len(str[w]) + 1)
                    /\ at[w] \in {"start", "shmat"} => copied[w] = {}
                    /\ at[w] \in {"semop", "done"} => copied[w] = 1..(Len(str[w]) + 1)

(* A writer that is alone finds what it copied; the last byte stays NUL.   *)
Contents == /\ \A w \in Writer : Alone(w) => \A i \in copied[w] : mem[i] = Byte(w, i)
            /\ mem[MemSize] = NUL

(* What the reader has printed. *)
Prefix(w) == /\ Len(out) <= Len(str[w])
             /\ \A i \in 1..Len(out) : out[i] = str[w][i]
Printed ==
  /\ at[reader] \in Before \cup {"semop"} => out = <<>>
  /\ at[reader] = "print" => Len(out) < MemSize
  /\ \A w \in Writer :
       at[w] = "done" /\ Alone(w) => /\ at[reader] = "print" => Prefix(w)
                                     /\ at[reader] \in Read => out = str[w]

ShmInv == ShmTypeOK /\ NotYet /\ Signals /\ Copies /\ Contents /\ Printed

-----------------------------------------------------------------------------
LEMMA StringsFit == ASSUME ShmTypeOK, NEW w \in Writer
                    PROVE  str[w] \in Seq(Char) /\ Len(str[w]) \in Nat /\ Len(str[w]) < MemSize
<1>1. str[w] \in Strings \/ str[w] = <<>>
  BY DEF ShmTypeOK
<1>2. CASE str[w] = <<>>
  BY <1>2, MemSizeNat
<1>3. CASE str[w] \in Strings
  <2>1. str[w] \in Seq(Char) /\ Len(str[w]) < MemSize
    BY <1>3, ArgumentsAreStrings DEF Strings
  <2> QED
    BY <2>1, LenProperties
<1> QED
  BY <1>1, <1>2, <1>3

LEMMA InitShmInv == ShmInit => ShmInv
<1> SUFFICES ASSUME ShmInit PROVE ShmInv
  OBVIOUS
<1>1. ShmTypeOK
  BY ReaderIsNoWriter DEF ShmInit, ShmTypeOK, ReaderPC, WriterPC
<1>2. at[reader] = "shmget" /\ \A w \in Writer : at[w] = "start"
  BY ReaderIsNoWriter DEF ShmInit
<1>3. NotYet /\ Signals /\ Printed
  BY <1>2 DEF NotYet, Signals, Printed, OneSucceeds, Read, Before, After, ShmInit
<1>4. Copies /\ Contents
  BY <1>2, MemSizeNat DEF Copies, Contents, ShmInit, Cell
<1> QED
  BY <1>1, <1>3, <1>4 DEF ShmInv

-----------------------------------------------------------------------------
(* Types. *)
LEMMA MemcpyTyped == ASSUME ShmTypeOK, NEW w \in Writer, Memcpy(w) PROVE ShmTypeOK'
<1> DEFINE len == Len(str[w]) + 1
<1>1. PICK i \in 1..len \ copied[w] :
        /\ mem' = [mem EXCEPT ![i] = IF i = len THEN NUL ELSE str[w][i]]
        /\ copied' = [copied EXCEPT ![w] = @ \cup {i}]
  BY DEF Memcpy
<1>2. str[w] \in Seq(Char) /\ len \in Nat /\ len <= MemSize
  BY StringsFit, MemSizeNat
<1>3. i \in Cell
  BY <1>1, <1>2, MemSizeNat DEF Cell
<1>4. (IF i = len THEN NUL ELSE str[w][i]) \in Char \cup {NUL}
  BY <1>1, <1>2, ElementOfSeq
<1>5. mem' \in [Cell -> Char \cup {NUL}]
  BY <1>1, <1>3, <1>4 DEF ShmTypeOK
<1>6. copied' \in [Writer -> SUBSET Cell]
  BY <1>1, <1>3 DEF ShmTypeOK
<1>7. /\ at' \in [Writer \cup {reader} -> ReaderPC \cup WriterPC]
      /\ at'[reader] \in ReaderPC /\ \A v \in Writer : at'[v] \in WriterPC
  BY ReaderIsNoWriter DEF Memcpy, ShmTypeOK, ReaderPC, WriterPC
<1> QED
  BY <1>5, <1>6, <1>7 DEF Memcpy, ShmTypeOK

LEMMA PrintfTyped == ASSUME ShmTypeOK, Printed, Printf PROVE ShmTypeOK'
<1>1. CASE mem[Len(out) + 1] = NUL
  BY <1>1, ReaderIsNoWriter DEF Printf, ShmTypeOK, Go, kernel, ReaderPC, WriterPC
<1>2. CASE mem[Len(out) + 1] # NUL
  <2>1. Len(out) < MemSize /\ Len(out) \in Nat
    BY <1>2 DEF Printf, Printed, ShmTypeOK
  <2>2. mem[Len(out) + 1] \in Char
    BY <1>2, <2>1, MemSizeNat DEF ShmTypeOK, Cell
  <2>3. out' \in Seq(Char)
    BY <1>2, <2>2, AppendProperties DEF Printf, ShmTypeOK
  <2> QED
    BY <1>2, <2>3 DEF Printf, ShmTypeOK, kernel
<1> QED
  BY <1>1, <1>2

LEMMA StepShmTyped == ASSUME ShmTypeOK, Printed, [ShmNext]_shmVars PROVE ShmTypeOK'
<1> USE ReaderIsNoWriter DEF ReaderPC, WriterPC
<1>1. CASE Shmget \/ Semget \/ ReaderShmat \/ Setval \/ Tell
  BY <1>1 DEF Shmget, Semget, ReaderShmat, Setval, Tell, Go, kernel, ShmTypeOK
<1>2. CASE WaitForZero \/ RemoveShm \/ RemoveSem
  BY <1>2 DEF WaitForZero, RemoveShm, RemoveSem, Detach, Go, kernel, ShmTypeOK
<1>3. CASE Printf
  BY <1>3, PrintfTyped
<1>4. ASSUME NEW p \in Writer \cup {reader}, Dies(p) PROVE ShmTypeOK'
  BY <1>4 DEF Dies, Detach, ShmTypeOK
<1>5. ASSUME NEW w \in Writer, Memcpy(w) PROVE ShmTypeOK'
  BY <1>5, MemcpyTyped
<1>6. ASSUME NEW w \in Writer, WriterShmat(w) PROVE ShmTypeOK'
  BY <1>6 DEF WriterShmat, ShmTypeOK
<1>7. ASSUME NEW w \in Writer, Decrement(w) PROVE ShmTypeOK'
  <2>1. semval' \in {0, 1}
    BY <1>7 DEF Decrement, ShmTypeOK
  <2> QED
    BY <1>7, <2>1 DEF Decrement, Detach, Go, ShmTypeOK
<1>8. ASSUME NEW w \in Writer, SemopFails(w) PROVE ShmTypeOK'
  BY <1>8 DEF SemopFails, Detach, Go, ShmTypeOK
<1>9. ASSUME NEW w \in Writer, NEW s \in Argument, Start(w, s) PROVE ShmTypeOK'
  <2>1. StringFits(s) => s \in Strings
    BY ArgumentsAreStrings, MemSizeNat DEF StringFits, Strings
  <2>2. /\ at' \in [Writer \cup {reader} -> ReaderPC \cup WriterPC]
        /\ at'[reader] \in ReaderPC /\ \A v \in Writer : at'[v] \in WriterPC
    BY <1>9 DEF Start, ShmTypeOK
  <2>3. str' \in [Writer -> Strings \cup {<<>>}]
    BY <1>9, <2>1 DEF Start, ShmTypeOK
  <2> QED
    BY <1>9, <2>2, <2>3 DEF Start, kernel, ShmTypeOK
<1>10. CASE Stuck \/ UNCHANGED shmVars
  BY <1>10 DEF Stuck, shmVars, kernel, ShmTypeOK
<1> QED
  BY <1>1, <1>2, <1>3, <1>4, <1>5, <1>6, <1>7, <1>8, <1>9, <1>10 DEF ShmNext, Reading, Writing

-----------------------------------------------------------------------------
(* The order of the processes, and the semaphore. *)
LEMMA StepSignals ==
  ASSUME ShmTypeOK, NotYet, Signals, [ShmNext]_shmVars PROVE NotYet' /\ Signals'
<1> USE ReaderIsNoWriter DEF NotYet, Signals, OneSucceeds, Before, After
<1>1. CASE Shmget \/ Semget \/ ReaderShmat \/ Tell
  BY <1>1 DEF Shmget, Semget, ReaderShmat, Tell, Go, kernel, ShmTypeOK
<1>2. CASE Setval
  BY <1>2 DEF Setval, Go, ShmTypeOK
<1>3. CASE WaitForZero \/ RemoveShm \/ RemoveSem \/ Printf
  BY <1>3 DEF WaitForZero, RemoveShm, RemoveSem, Printf, Go, kernel, ShmTypeOK
<1>4. ASSUME NEW p \in Writer \cup {reader}, Dies(p) PROVE NotYet' /\ Signals'
  BY <1>4 DEF Dies, ShmTypeOK
<1>5. ASSUME NEW w \in Writer, Memcpy(w) \/ WriterShmat(w) \/ SemopFails(w)
      PROVE  NotYet' /\ Signals'
  <2>1. PICK x \in {"dead", "memcpy", "semop"} : at' = [at EXCEPT ![w] = x]
    BY <1>5 DEF Memcpy, WriterShmat, SemopFails, Go
  <2>2. at[w] \notin {"start", "done"} /\ UNCHANGED semval
    BY <1>5 DEF Memcpy, WriterShmat, SemopFails, Go
  <2>3. at'[reader] = at[reader] /\ \A v \in Writer : at'[v] = IF v = w THEN x ELSE at[v]
    BY <2>1 DEF ShmTypeOK
  <2>4. \A v \in Writer : at'[v] = "done" <=> at[v] = "done"
    BY <2>2, <2>3
  <2>5. NotYet'
    BY <2>2, <2>3
  <2> QED
    BY <2>2, <2>3, <2>4, <2>5
<1>6. ASSUME NEW w \in Writer, Decrement(w) PROVE NotYet' /\ Signals'
  <2>1. at[w] = "semop" /\ at' = [at EXCEPT ![w] = "done"] /\ semval = 1 /\ semval' = 0
    BY <1>6 DEF Decrement, Go, ShmTypeOK
  <2>2. at'[w] = "done" /\ at'[reader] = at[reader]
    BY <2>1 DEF ShmTypeOK
  <2>3. \A v \in Writer : at'[v] = "done" => v = w
    BY <2>1 DEF ShmTypeOK
  <2> QED
    BY <2>1, <2>2, <2>3
<1>7. ASSUME NEW w \in Writer, NEW s \in Argument, Start(w, s) PROVE NotYet' /\ Signals'
  <2>1. PICK x \in {"dead", "shmat"} : at' = [at EXCEPT ![w] = x]
    BY <1>7 DEF Start
  <2>2. at[w] = "start" /\ at[reader] \notin Before /\ UNCHANGED semval
    BY <1>7 DEF Start, kernel
  <2>3. at'[reader] = at[reader] /\ \A v \in Writer : at'[v] = "done" <=> at[v] = "done"
    BY <2>1, <2>2 DEF ShmTypeOK
  <2> QED
    BY <2>2, <2>3
<1>8. CASE Stuck \/ UNCHANGED shmVars
  BY <1>8 DEF Stuck, shmVars, kernel
<1> QED
  BY <1>1, <1>2, <1>3, <1>4, <1>5, <1>6, <1>7, <1>8 DEF ShmNext, Reading, Writing

-----------------------------------------------------------------------------
(* The copies. Only Memcpy writes. *)
LEMMA MemcpyCopies ==
  ASSUME ShmTypeOK, Copies, Contents, NEW w \in Writer, Memcpy(w)
  PROVE  Copies' /\ Contents'
<1> DEFINE len == Len(str[w]) + 1
<1>1. PICK i \in 1..len \ copied[w] :
        /\ mem' = [mem EXCEPT ![i] = IF i = len THEN NUL ELSE str[w][i]]
        /\ copied' = [copied EXCEPT ![w] = @ \cup {i}]
  BY DEF Memcpy
<1>2. str[w] \in Seq(Char) /\ len \in Nat /\ len <= MemSize /\ MemSize \in Nat
  BY StringsFit, MemSizeNat
<1>3. i \in Cell
  BY <1>1, <1>2 DEF Cell
<1>4. /\ at' = [at EXCEPT ![w] = IF copied'[w] = 1..len THEN "semop" ELSE "memcpy"]
      /\ str' = str
  BY DEF Memcpy
<1>5. /\ copied'[w] = copied[w] \cup {i}
      /\ \A v \in Writer \ {w} : copied'[v] = copied[v] /\ at'[v] = at[v]
      /\ at'[w] = IF copied'[w] = 1..len THEN "semop" ELSE "memcpy"
  BY <1>1, <1>4 DEF ShmTypeOK
<1>6. Copies'
  <2>1. copied'[w] \subseteq 1..(Len(str'[w]) + 1)
    BY <1>1, <1>4, <1>5 DEF Copies
  <2>2. /\ at'[w] \notin {"start", "shmat"}
        /\ at'[w] \in {"semop", "done"} => copied'[w] = 1..(Len(str'[w]) + 1)
    BY <1>4, <1>5
  <2>3. ASSUME NEW v \in Writer \ {w}
        PROVE  copied'[v] = copied[v] /\ at'[v] = at[v] /\ str'[v] = str[v]
    BY <1>4, <1>5
  <2> HIDE DEF len
  <2> QED
    BY <2>1, <2>2, <2>3 DEF Copies
<1>7. mem'[i] = Byte(w, i) /\ \A j \in Cell \ {i} : mem'[j] = mem[j]
  BY <1>1, <1>3 DEF Byte, ShmTypeOK
<1>8. mem'[MemSize] = NUL
  <2>1. CASE i = MemSize
    BY <1>1, <1>2, <1>3, <2>1 DEF ShmTypeOK
  <2>2. CASE i # MemSize
    BY <1>2, <1>7, <2>2 DEF Contents, Cell
  <2> QED
    BY <2>1, <2>2
<1>9. ASSUME NEW v \in Writer, Alone(v)', NEW j \in copied'[v] PROVE mem'[j] = Byte(v, j)'
  <2>1. v = w
    BY <1>5, <1>9 DEF Alone
  <2>2. Alone(w)
    BY <1>5, <1>9, <2>1 DEF Alone
  <2>3. CASE j = i
    BY <1>4, <1>7, <2>1, <2>3 DEF Byte
  <2>4. CASE j # i
    <3>1. j \in copied[w] /\ mem[j] = Byte(w, j)
      BY <1>5, <1>9, <2>1, <2>2, <2>4 DEF Contents
    <3>2. j \in Cell
      BY <1>2, <3>1 DEF Copies, Cell
    <3> QED
      BY <1>4, <1>7, <2>1, <2>4, <3>1, <3>2 DEF Byte
  <2> QED
    BY <2>3, <2>4
<1> QED
  BY <1>6, <1>8, <1>9 DEF Contents

LEMMA StepCopies ==
  ASSUME ShmTypeOK, Copies, Contents, [ShmNext]_shmVars PROVE Copies' /\ Contents'
<1> USE ReaderIsNoWriter
<1>1. ASSUME UNCHANGED <<mem, copied, str>>,
             \A w \in Writer : \/ at'[w] = at[w]
                               \/ at[w] \in {"semop", "memcpy", "shmat"} /\ at'[w] = "dead"
                               \/ at[w] = "semop" /\ at'[w] = "done"
                               \/ at[w] = "shmat" /\ at'[w] = "memcpy"
      PROVE  Copies' /\ Contents'
  <2>1. Copies'
    BY <1>1 DEF Copies
  <2>2. Contents'
    BY <1>1 DEF Contents, Alone, Byte
  <2> QED
    BY <2>1, <2>2
<1>2. CASE Reading
  <2>1. UNCHANGED <<mem, copied, str>> /\ \A w \in Writer : at'[w] = at[w]
    BY <1>2 DEF Reading, Shmget, Semget, ReaderShmat, Setval, Tell, WaitForZero, Printf,
                RemoveShm, RemoveSem, Go, kernel, ShmTypeOK
  <2> QED
    BY <1>1, <2>1
<1>3. ASSUME NEW p \in Writer \cup {reader}, Dies(p) PROVE Copies' /\ Contents'
  <2>1. UNCHANGED <<mem, copied, str>> /\ at' = [at EXCEPT ![p] = "dead"]
        /\ at[p] \notin {"start", "done", "dead"}
    BY <1>3 DEF Dies
  <2>2. \A w \in Writer : \/ at'[w] = at[w]
                          \/ at[w] \in {"semop", "memcpy", "shmat"} /\ at'[w] = "dead"
    BY <2>1 DEF ShmTypeOK, WriterPC
  <2> QED
    BY <1>1, <2>1, <2>2
<1>4. ASSUME NEW w \in Writer, Memcpy(w) PROVE Copies' /\ Contents'
  BY <1>4, MemcpyCopies
<1>5. ASSUME NEW w \in Writer, WriterShmat(w) \/ Decrement(w) \/ SemopFails(w)
      PROVE  Copies' /\ Contents'
  <2>1. UNCHANGED <<mem, copied, str>>
    BY <1>5 DEF WriterShmat, Decrement, SemopFails
  <2>2. \A v \in Writer : \/ at'[v] = at[v]
                          \/ at[v] \in {"semop", "memcpy", "shmat"} /\ at'[v] = "dead"
                          \/ at[v] = "semop" /\ at'[v] = "done"
                          \/ at[v] = "shmat" /\ at'[v] = "memcpy"
    BY <1>5 DEF WriterShmat, Decrement, SemopFails, Go, ShmTypeOK
  <2> QED
    BY <1>1, <2>1, <2>2
<1>6. ASSUME NEW w \in Writer, NEW s \in Argument, Start(w, s) PROVE Copies' /\ Contents'
  <2>1. copied[w] = {} /\ UNCHANGED <<mem, copied>>
    BY <1>6 DEF Start, Copies, kernel
  <2>2. \A v \in Writer : v # w => at'[v] = at[v] /\ str'[v] = str[v]
    BY <1>6 DEF Start, ShmTypeOK
  <2>3. at'[w] \in {"shmat", "dead"}
    BY <1>6 DEF Start, ShmTypeOK
  <2>4. Copies'
    BY <2>1, <2>2, <2>3 DEF Copies
  <2>5. Contents'
    BY <2>1, <2>2 DEF Contents, Alone, Byte
  <2> QED
    BY <2>4, <2>5
<1>7. CASE Stuck \/ UNCHANGED shmVars
  <2>1. UNCHANGED <<mem, copied, str, at>>
    BY <1>7 DEF Stuck, shmVars, kernel
  <2> QED
    BY <1>1, <2>1
<1> QED
  BY <1>2, <1>3, <1>4, <1>5, <1>6, <1>7 DEF ShmNext, Writing

-----------------------------------------------------------------------------
(* What is printed. *)
LEMMA PrintfPrinted ==
  ASSUME ShmTypeOK, Signals, Copies, Contents, Printed, Printf
  PROVE  Printed'
<1> USE ReaderIsNoWriter
<1> DEFINE n == Len(out) + 1
<1>1. at[reader] = "print" /\ n \in Cell /\ out \in Seq(Char) /\ n \in Nat
  BY MemSizeNat, LenProperties DEF Printf, Go, Printed, ShmTypeOK, Cell
<1>2. UNCHANGED <<mem, copied, str>> /\ \A w \in Writer : at'[w] = at[w]
  BY DEF Printf, Go, kernel, ShmTypeOK
<1>3. ASSUME NEW w \in Writer, at[w] = "done", Alone(w)
      PROVE  /\ mem[n] = NUL => out = str[w]
             /\ mem[n] # NUL => n <= Len(str[w]) /\ mem[n] = str[w][n]
  <2>1. Prefix(w) /\ str[w] \in Seq(Char)
    BY <1>1, <1>3, StringsFit DEF Printed
  <2>2. n \in 1..(Len(str[w]) + 1) /\ Len(str[w]) \in Nat
    BY <1>1, <2>1, LenProperties DEF Prefix
  <2>3. mem[n] = Byte(w, n)
    BY <1>3, <2>2 DEF Copies, Contents
  <2>4. CASE n = Len(str[w]) + 1
    <3>1. Len(out) = Len(str[w]) /\ mem[n] = NUL
      BY <1>1, <2>2, <2>3, <2>4 DEF Byte
    <3>2. out = str[w]
      BY <1>1, <2>1, <3>1, SeqEqual DEF Prefix
    <3> QED
      BY <3>1, <3>2
  <2>5. CASE n # Len(str[w]) + 1
    <3>1. n \in 1..Len(str[w]) /\ mem[n] = str[w][n]
      BY <2>2, <2>3, <2>5 DEF Byte
    <3>2. mem[n] \in Char
      BY <2>1, <3>1, ElementOfSeq
    <3> QED
      BY <3>1, <3>2, ArgumentsAreStrings
  <2> QED
    BY <2>4, <2>5
<1>4. CASE mem[n] = NUL
  <2>1. at'[reader] = "rmshm" /\ out' = out
    BY <1>4 DEF Printf, Go, ShmTypeOK
  <2> QED
    BY <1>2, <1>3, <1>4, <2>1 DEF Printed, Alone, Read, Before
<1>5. CASE mem[n] # NUL
  <2>1. at'[reader] = "print" /\ out' = Append(out, mem[n])
    BY <1>1, <1>5 DEF Printf, Go
  <2>2. mem[n] \in Char
    BY <1>1, <1>5 DEF ShmTypeOK
  <2>3. /\ Len(out') = n
        /\ \A i \in 1..Len(out) : out'[i] = out[i]
        /\ out'[n] = mem[n]
    BY <1>1, <2>1, <2>2, AppendProperties
  <2>4. n < MemSize
    BY <1>1, <1>5, MemSizeNat DEF Contents, Cell
  <2>5. ASSUME NEW w \in Writer, at[w] = "done", Alone(w) PROVE Prefix(w)'
    <3>1. Prefix(w) /\ n <= Len(str[w]) /\ mem[n] = str[w][n]
      BY <1>1, <1>3, <1>5, <2>5 DEF Printed
    <3>2. \A i \in 1..n : out'[i] = str[w][i]
      BY <1>1, <2>3, <3>1 DEF Prefix
    <3> QED
      BY <1>2, <2>3, <3>1, <3>2 DEF Prefix
  <2> QED
    BY <1>2, <2>1, <2>3, <2>4, <2>5 DEF Printed, Alone, Read, Before
<1> QED
  BY <1>4, <1>5

LEMMA StepPrinted ==
  ASSUME ShmTypeOK, NotYet, Signals, Copies, Contents, Printed, [ShmNext]_shmVars
  PROVE  Printed'
<1> USE ReaderIsNoWriter
(* A step that leaves the output alone, and makes no writer succeed while  *)
(* the reader prints.                                                      *)
<1>1. ASSUME out' = out,
             \/ at'[reader] = at[reader]
             \/ at'[reader] = "dead"
             \/ at[reader] \in Before /\ at'[reader] \in Before \cup {"semop"}
             \/ at[reader] \in Read /\ at'[reader] \in Read,
             \A w \in Writer :
               /\ at'[w] = "done" /\ Alone(w)' => at[w] = "done" /\ Alone(w)
               /\ at[w] = "done" => str'[w] = str[w]
      PROVE  Printed'
  BY <1>1 DEF Printed, Prefix, Read, Before
<1>2. CASE Reading /\ ~Printf /\ ~WaitForZero
  <2>1. out' = out /\ UNCHANGED <<copied, str>> /\ \A w \in Writer : at'[w] = at[w]
    BY <1>2 DEF Reading, Shmget, Semget, ReaderShmat, Setval, Tell, RemoveShm, RemoveSem,
                Go, kernel, ShmTypeOK
  <2>2. \/ at[reader] \in Before /\ at'[reader] \in Before \cup {"semop"}
        \/ at[reader] \in Read /\ at'[reader] \in Read
    BY <1>2 DEF Reading, Shmget, Semget, ReaderShmat, Setval, Tell, RemoveShm, RemoveSem,
                Go, ShmTypeOK, Before, Read
  <2>3. \A w \in Writer : Alone(w)' <=> Alone(w)
    BY <2>1 DEF Alone
  <2> QED
    BY <1>1, <2>1, <2>2, <2>3
<1>3. CASE WaitForZero
  <2>1. /\ at[reader] = "semop" /\ at'[reader] = "print" /\ out' = out /\ out = <<>>
        /\ UNCHANGED <<copied, str>> /\ \A w \in Writer : at'[w] = at[w]
    BY <1>3 DEF WaitForZero, Go, kernel, ShmTypeOK, Printed
  <2>2. Len(out') = 0
    BY <2>1
  <2>3. \A w \in Writer : Prefix(w)'
    BY <2>1, <2>2, StringsFit DEF Prefix
  <2> QED
    BY <2>1, <2>2, <2>3, MemSizeNat DEF Printed, Read, Before
<1>4. CASE Printf
  BY <1>4, PrintfPrinted
<1>5. ASSUME NEW p \in Writer \cup {reader}, Dies(p) PROVE Printed'
  <2>1. UNCHANGED <<copied, str, out>> /\ at' = [at EXCEPT ![p] = "dead"]
    BY <1>5 DEF Dies
  <2>2. \A w \in Writer : at'[w] = "done" => at[w] = "done"
    BY <2>1 DEF ShmTypeOK
  <2>3. at'[reader] = at[reader] \/ at'[reader] = "dead"
    BY <2>1 DEF ShmTypeOK
  <2> QED
    BY <1>1, <2>1, <2>2, <2>3 DEF Alone
<1>6. ASSUME NEW w \in Writer, Memcpy(w) PROVE Printed'
  <2>1. PICK i \in 1..(Len(str[w]) + 1) \ copied[w] :
          copied' = [copied EXCEPT ![w] = @ \cup {i}]
    BY <1>6 DEF Memcpy
  <2>2. /\ at'[reader] = at[reader] /\ UNCHANGED <<out, str>>
        /\ \A v \in Writer : at'[v] = "done" => at[v] = "done" /\ v # w
    BY <1>6 DEF Memcpy, ShmTypeOK
  <2>3. copied'[w] # {} /\ \A v \in Writer : v # w => copied'[v] = copied[v]
    BY <2>1 DEF ShmTypeOK
  <2>4. \A v \in Writer : v # w => ~Alone(v)'
    BY <2>3 DEF Alone
  <2> QED
    BY <1>1, <2>2, <2>4
<1>7. ASSUME NEW w \in Writer, WriterShmat(w) \/ SemopFails(w) PROVE Printed'
  <2>1. /\ UNCHANGED <<copied, str, out>> /\ at'[reader] = at[reader]
        /\ \A v \in Writer : at'[v] = "done" => at[v] = "done"
    BY <1>7 DEF WriterShmat, SemopFails, Go, ShmTypeOK
  <2> QED
    BY <1>1, <2>1 DEF Alone
<1>8. ASSUME NEW w \in Writer, Decrement(w) PROVE Printed'
  <2>1. semval # 0 /\ UNCHANGED out /\ at'[reader] = at[reader]
    BY <1>8 DEF Decrement, Go, ShmTypeOK
  <2>2. at[reader] \notin After
    BY <2>1 DEF Signals
  <2> QED
    BY <2>1, <2>2 DEF Printed, After, Read
<1>9. ASSUME NEW w \in Writer, NEW s \in Argument, Start(w, s) PROVE Printed'
  <2>1. /\ UNCHANGED <<copied, out>> /\ at'[reader] = at[reader]
        /\ \A v \in Writer : at'[v] = "done" => at[v] = "done"
        /\ \A v \in Writer : at[v] = "done" => str'[v] = str[v]
    BY <1>9 DEF Start, ShmTypeOK
  <2> QED
    BY <1>1, <2>1 DEF Alone
<1>10. CASE Stuck \/ UNCHANGED shmVars
  BY <1>1, <1>10 DEF Stuck, shmVars, kernel, Alone
<1> QED
  BY <1>2, <1>3, <1>4, <1>5, <1>6, <1>7, <1>8, <1>9, <1>10 DEF ShmNext, Writing, Reading

-----------------------------------------------------------------------------
(* The inductive invariant holds throughout. *)
LEMMA ShmInvariance == ShmSpec => []ShmInv
<1>1. ShmInv /\ [ShmNext]_shmVars => ShmInv'
  BY StepShmTyped, StepSignals, StepCopies, StepPrinted DEF ShmInv
<1> QED
  BY InitShmInv, <1>1, PTL DEF ShmSpec

(* The objects and the processes stay within their types; with it, no      *)
(* writer copies past the end of the segment.                              *)
THEOREM ShmTypeCorrect == ShmSpec => []ShmTypeOK
<1>1. ShmInv => ShmTypeOK
  BY DEF ShmInv
<1> QED
  BY ShmInvariance, <1>1, PTL

(* The reader's printf finds its NUL inside the segment. *)
THEOREM ReaderStays == ShmSpec => []StaysInSegment
<1>1. ASSUME ShmInv, at[reader] = "print" PROVE MemSize > Len(out) /\ mem[MemSize] = NUL
  BY <1>1 DEF ShmInv, Printed, Contents
<1>2. ShmInv => StaysInSegment
  BY <1>1, MemSizeNat DEF StaysInSegment, Cell, ShmInv, ShmTypeOK
<1> QED
  BY ShmInvariance, <1>2, PTL

(* What the reader prints is the whole string of a writer that signalled,  *)
(* as long as no other writer has touched the segment.                     *)
THEOREM HandsOver == ShmSpec => []Handoff
<1>1. ShmInv => Handoff
  BY DEF ShmInv, Signals, Printed, After, Read, Handoff, Alone
<1> QED
  BY ShmInvariance, <1>1, PTL

(* One writer at most exits with success. *)
THEOREM SucceedsOnce == ShmSpec => []OneSucceeds
<1>1. ShmInv => OneSucceeds
  BY DEF ShmInv, Signals
<1> QED
  BY ShmInvariance, <1>1, PTL
=============================================================================
