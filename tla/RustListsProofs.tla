--------------------------- MODULE RustListsProofs ---------------------------
(***************************************************************************)
(* Proofs about the lists of too-many-linked-lists, for every set of       *)
(* nodes, handles and elements. The crate's three kinds of list have an    *)
(* inductive invariant each: the nodes are the path from the head that     *)
(* owns them (BoxInv); a list is a path into a heap without cycles, whose  *)
(* counts are those of the owners (RcInv); the nodes are one path that is  *)
(* linked both ways, but for the node that the statement at work holds     *)
(* (DequeInv). A recursive function over a heap, such as the values of a   *)
(* list, is related to paths by induction on the distance from the end,    *)
(* written as the choice of a last node, or a smallest number, that fails. *)
(* At the end, the lists are shown to implement the abstract ones: what a  *)
(* link leads to stays the same list of elements as long as no node from   *)
(* there on has changed, and a call changes those at one end only.         *)
(***************************************************************************)
EXTENDS RustLists, FiniteSetTheorems, NaturalsInduction, SequenceTheorems, TLAPS

(* A set of numbers that is not empty has a smallest one. *)
LEMMA Smallest ==
  ASSUME NEW T \in SUBSET Nat, T # {}
  PROVE  \E n \in T : \A m \in T : n <= m
<1>1. PICK x \in T : \A y \in T : <<y, x>> \notin OpToRel(<, Nat)
  BY NatLessThanWellFounded, WFMin
<1>2. \A y \in T : y < x => <<y, x>> \in OpToRel(<, Nat)
  BY DEF OpToRel
<1>3. \A y \in T : ~(y < x)
  BY <1>1, <1>2
<1> QED
  BY <1>3

-----------------------------------------------------------------------------
(* Links stay in the heap; every next is closer to the end by some rank,   *)
(* so there is no cycle.                                                   *)
Linked(h) == NULL \notin DOMAIN h /\ \A n \in DOMAIN h : h[n].next \in DOMAIN h \cup {NULL}
Ranked(h, r, b) ==
  /\ r \in [DOMAIN h -> 0..b] /\ b \in Nat
  /\ \A n \in DOMAIN h : h[n].next \in DOMAIN h => r[h[n].next] < r[n]

(* Some node of a part is the last: its next is outside. *)
LEMMA LastOf ==
  ASSUME NEW h, NEW r, NEW b, Ranked(h, r, b), NEW T \in SUBSET DOMAIN h, T # {}
  PROVE  \E n \in T : h[n].next \notin T
<1> DEFINE R == {r[n] : n \in T}
<1>1. R \in SUBSET Nat /\ R # {} /\ \A n \in T : r[n] \in R
  BY DEF Ranked
<1> HIDE DEF R
<1>2. PICK k \in R : \A j \in R : k <= j
  BY <1>1, Smallest
<1>3. PICK n \in T : k = r[n]
  BY <1>2 DEF R
<1>4. \A m \in T : r[n] <= r[m] /\ r[m] \in Nat /\ r[n] \in Nat
  BY <1>1, <1>2, <1>3
<1>5. ASSUME h[n].next \in T PROVE FALSE
  <2>1. r[h[n].next] < r[n]
    BY <1>5 DEF Ranked
  <2> QED
    BY <1>4, <1>5, <2>1
<1> QED
  BY <1>5

(* Some node of a part is the first: no node of it has it as its next. *)
LEMMA FirstOf ==
  ASSUME NEW h, NEW r, NEW b, Ranked(h, r, b), NEW T \in SUBSET DOMAIN h, T # {}
  PROVE  \E n \in T : \A m \in T : h[m].next # n
<1> DEFINE R == {b - r[n] : n \in T}
<1>1. R \in SUBSET Nat /\ R # {} /\ \A n \in T : b - r[n] \in R
  BY DEF Ranked
<1> HIDE DEF R
<1>2. PICK k \in R : \A j \in R : k <= j
  BY <1>1, Smallest
<1>3. PICK n \in T : k = b - r[n]
  BY <1>2 DEF R
<1>4. \A m \in T : b - r[n] <= b - r[m] /\ r[m] \in Nat /\ r[n] \in Nat /\ b \in Nat
  BY <1>1, <1>2, <1>3 DEF Ranked
<1>5. ASSUME NEW m \in T, h[m].next = n PROVE FALSE
  <2>1. r[n] < r[m]
    BY <1>5 DEF Ranked
  <2> QED
    BY <1>4, <2>1
<1> QED
  BY <1>5

(* The nodes from a link to the end. *)
Path(h, l, q) ==
  /\ q \in Seq(DOMAIN h)
  /\ q = <<>> => l = NULL
  /\ q # <<>> => q[1] = l /\ h[q[Len(q)]].next = NULL
  /\ \A i \in 1..Len(q) - 1 : h[q[i]].next = q[i + 1]

(* Nothing comes after NULL. *)
LEMMA PathOfNull ==
  ASSUME NEW h, Linked(h), NEW q
  PROVE  Path(h, NULL, q) <=> q = <<>>
<1>1. Path(h, NULL, <<>>)
  BY DEF Path
<1>2. ASSUME Path(h, NULL, q), q # <<>> PROVE FALSE
  <2>1. q \in Seq(DOMAIN h) /\ q[1] = NULL
    BY <1>2 DEF Path
  <2>2. q[1] \in DOMAIN h
    BY <1>2, <2>1
  <2> QED
    BY <2>1, <2>2 DEF Linked
<1> QED
  BY <1>1, <1>2

(* The path of a node is the node and the path of its next. *)
LEMMA PathOfNode ==
  ASSUME NEW h, Linked(h), NEW n \in DOMAIN h
  PROVE  /\ \A q : Path(h, h[n].next, q) => Path(h, n, <<n>> \o q)
         /\ \A q : Path(h, n, q) => /\ Path(h, h[n].next, Tail(q)) /\ q = <<n>> \o Tail(q)
<1>1. ASSUME NEW q, Path(h, h[n].next, q) PROVE Path(h, n, <<n>> \o q)
  <2> DEFINE s == <<n>> \o q
  <2>1. q \in Seq(DOMAIN h) /\ \A i \in 1..Len(q) - 1 : h[q[i]].next = q[i + 1]
    BY <1>1 DEF Path
  <2>2. /\ s \in Seq(DOMAIN h) /\ Len(s) = Len(q) + 1 /\ s[1] = n /\ Len(q) \in Nat
        /\ \A i \in 1..Len(q) : s[i + 1] = q[i]
    BY <2>1
  <2> HIDE DEF s
  <2>3. CASE q = <<>>
    <3>1. h[n].next = NULL /\ Len(q) = 0
      BY <1>1, <2>3 DEF Path
    <3>2. \A i \in 1..Len(s) - 1 : FALSE
      BY <2>2, <3>1
    <3>3. s # <<>> /\ Len(s) = 1
      BY <2>2, <3>1
    <3> QED
      BY <2>2, <3>1, <3>2, <3>3 DEF Path, s
  <2>4. CASE q # <<>>
    <3>1. q[1] = h[n].next /\ h[q[Len(q)]].next = NULL /\ Len(q) > 0
      BY <1>1, <2>1, <2>4 DEF Path
    <3>2. s # <<>> /\ s[Len(s)] = q[Len(q)]
      BY <2>2, <3>1
    <3>3. ASSUME NEW i \in 1..Len(s) - 1 PROVE h[s[i]].next = s[i + 1]
      <4>1. CASE i = 1
        BY <2>2, <3>1, <4>1
      <4>2. CASE i > 1
        <5>1. i - 1 \in 1..Len(q) - 1 /\ i \in 1..Len(q) /\ (i - 1) + 1 = i /\ i - 1 \in 1..Len(q)
          BY <2>2, <4>2
        <5>2. s[i] = q[i - 1] /\ s[i + 1] = q[i]
          BY <2>2, <5>1
        <5> QED
          BY <2>1, <5>1, <5>2
      <4> QED
        BY <4>1, <4>2
    <3> QED
      BY <2>2, <3>1, <3>2, <3>3 DEF Path, s
  <2> QED
    BY <2>3, <2>4
<1>2. ASSUME NEW q, Path(h, n, q)
      PROVE  Path(h, h[n].next, Tail(q)) /\ q = <<n>> \o Tail(q)
  <2>1. q # <<>>
    BY <1>2 DEF Path, Linked
  <2>2. q \in Seq(DOMAIN h) /\ q[1] = n /\ h[q[Len(q)]].next = NULL
        /\ \A i \in 1..Len(q) - 1 : h[q[i]].next = q[i + 1]
    BY <1>2, <2>1 DEF Path
  <2> DEFINE t == Tail(q)
  <2>3. /\ t \in Seq(DOMAIN h) /\ Len(t) = Len(q) - 1 /\ Len(q) \in Nat /\ Len(q) > 0
        /\ \A i \in 1..Len(t) : t[i] = q[i + 1]
    BY <2>1, <2>2
  <2>4. q = <<n>> \o t
    BY <2>1, <2>2
  <2> HIDE DEF t
  <2>5. ASSUME NEW i \in 1..Len(t) - 1 PROVE h[t[i]].next = t[i + 1]
    <3>1. i + 1 \in 1..Len(q) - 1 /\ i \in 1..Len(t) /\ i + 1 \in 1..Len(t)
      BY <2>3
    <3> QED
      BY <2>2, <2>3, <3>1
  <2>6. CASE t = <<>>
    <3>1. Len(q) = 1
      BY <2>3, <2>6
    <3> QED
      BY <2>2, <2>3, <2>4, <2>5, <2>6, <3>1 DEF Path, t
  <2>7. CASE t # <<>>
    <3>1. Len(t) > 0 /\ 1 \in 1..Len(q) - 1
      BY <2>3, <2>7
    <3>2. t[1] = h[n].next /\ t[Len(t)] = q[Len(q)]
      BY <2>2, <2>3, <3>1
    <3> QED
      BY <2>2, <2>3, <2>4, <2>5, <2>7, <3>2 DEF Path, t
  <2> QED
    BY <2>6, <2>7
<1> QED
  BY <1>1, <1>2

(* From every link there is a path to the end, and no other. *)
LEMMA OnePath ==
  ASSUME NEW h, Linked(h), NEW r, NEW b, Ranked(h, r, b), NEW l \in DOMAIN h \cup {NULL}
  PROVE  /\ \E q : Path(h, l, q)
         /\ \A q, s : Path(h, l, q) /\ Path(h, l, s) => q = s
<1> DEFINE One(n) == /\ \E q : Path(h, n, q)
                     /\ \A q, s : Path(h, n, q) /\ Path(h, n, s) => q = s
           T == {n \in DOMAIN h : ~One(n)}
<1>1. One(NULL)
  BY PathOfNull
<1>2. ASSUME NEW n \in DOMAIN h, One(h[n].next) PROVE One(n)
  <2>1. PICK q : Path(h, h[n].next, q)
    BY <1>2
  <2>2. Path(h, n, <<n>> \o q)
    BY <2>1, PathOfNode
  <2>3. ASSUME NEW s, NEW t, Path(h, n, s), Path(h, n, t) PROVE s = t
    <3>1. /\ Path(h, h[n].next, Tail(s)) /\ s = <<n>> \o Tail(s)
          /\ Path(h, h[n].next, Tail(t)) /\ t = <<n>> \o Tail(t)
      BY <2>3, PathOfNode
    <3>2. Tail(s) = Tail(t)
      BY <1>2, <3>1
    <3> QED
      BY <3>1, <3>2
  <2> QED
    BY <2>2, <2>3
<1> HIDE DEF One
<1>3. ASSUME T # {} PROVE FALSE
  <2>1. PICK n \in T : h[n].next \notin T
    BY <1>3, LastOf
  <2>2. One(h[n].next)
    BY <1>1, <2>1 DEF Linked
  <2> QED
    BY <1>2, <2>2
<1>4. One(l)
  BY <1>1, <1>3
<1> QED
  BY <1>4 DEF One

(* The values on a path, and the values from a link on, as the three       *)
(* modules define them.                                                    *)
Elems(h, q) == [i \in 1..Len(q) |-> h[q[i]].elem]
From(h) == CHOOSE f : f = [n \in DOMAIN h \cup {NULL} |->
                             IF n = NULL THEN <<>> ELSE <<h[n].elem>> \o f[h[n].next]]

(* Values of the three modules is one recursive function over a heap. *)
LEMMA ValuesFrom ==
  /\ \A l : Box!Values(l) = From(boxes)[l]
  /\ \A l : Rc!Values(l) = From(shared)[l]
  /\ \A l : Deque!Values(l) = From(cells)[l]
BY DEF From, Box!Values, Rc!Values, Deque!Values, Box!Link, Rc!Link, Deque!Link

(* That function exists: it maps a link to the values on its path. *)
LEMMA FromUnfolds ==
  ASSUME NEW h, Linked(h), NEW r, NEW b, Ranked(h, r, b)
  PROVE  /\ From(h)[NULL] = <<>>
         /\ \A n \in DOMAIN h : From(h)[n] = <<h[n].elem>> \o From(h)[h[n].next]
<1> DEFINE P(l) == CHOOSE q : Path(h, l, q)
           f == [n \in DOMAIN h \cup {NULL} |-> Elems(h, P(n))]
           Rule(g) == g = [n \in DOMAIN h \cup {NULL} |->
                             IF n = NULL THEN <<>> ELSE <<h[n].elem>> \o g[h[n].next]]
<1>1. \A l \in DOMAIN h \cup {NULL} : Path(h, l, P(l))
  BY OnePath
<1>2. P(NULL) = <<>>
  BY <1>1, PathOfNull
<1>3. ASSUME NEW n \in DOMAIN h
      PROVE  P(n) = <<n>> \o P(h[n].next) /\ P(h[n].next) \in Seq(DOMAIN h)
  <2>1. h[n].next \in DOMAIN h \cup {NULL}
    BY DEF Linked
  <2>2. Path(h, h[n].next, P(h[n].next))
    BY <1>1, <2>1
  <2>3. Path(h, n, <<n>> \o P(h[n].next))
    BY <2>2, PathOfNode
  <2>4. Path(h, n, P(n))
    BY <1>1
  <2> HIDE DEF P
  <2>5. P(n) = <<n>> \o P(h[n].next)
    BY <2>3, <2>4, OnePath
  <2> QED
    BY <2>2, <2>5 DEF Path
<1> HIDE DEF P
<1>4. ASSUME NEW n \in DOMAIN h
      PROVE  Elems(h, P(n)) = <<h[n].elem>> \o Elems(h, P(h[n].next))
  <2> DEFINE q == P(h[n].next)
  <2>1. q \in Seq(DOMAIN h) /\ P(n) = <<n>> \o q
    BY <1>3
  <2> HIDE DEF q
  <2>2. Elems(h, <<n>> \o q) = <<h[n].elem>> \o Elems(h, q)
    BY <2>1 DEF Elems
  <2> QED
    BY <2>1, <2>2 DEF q
<1>5. Rule(f)
  <2>1. Elems(h, <<>>) = <<>>
    BY DEF Elems
  <2>2. \A n \in DOMAIN h \cup {NULL} : f[n] = IF n = NULL THEN <<>> ELSE <<h[n].elem>> \o f[h[n].next]
    BY <1>2, <1>4, <2>1 DEF Linked
  <2> QED
    BY <2>2
<1> HIDE DEF f
<1>6. Rule(From(h))
  BY <1>5, Zenon DEF From
<1> QED
  BY <1>6 DEF Linked

(* What a Box owns, on a heap without cycles, unfolds in the same way.     *)
LEMMA OwnedUnfolds ==
  ASSUME NEW h, Linked(h), NEW r, NEW b, Ranked(h, r, b)
  PROVE  /\ Box!Owned(h, NULL) = <<>>
         /\ \A n \in DOMAIN h : Box!Owned(h, n) = <<n>> \o Box!Owned(h, h[n].next)
<1> DEFINE P(l) == CHOOSE q : Path(h, l, q)
           f == [n \in DOMAIN h \cup {NULL} |-> P(n)]
           Rule(g) == g = [n \in DOMAIN h \cup {NULL} |->
                             IF n = NULL THEN <<>> ELSE <<n>> \o g[h[n].next]]
           from == CHOOSE g : Rule(g)
<1>1. \A l \in DOMAIN h \cup {NULL} : Path(h, l, P(l))
  BY OnePath
<1>2. P(NULL) = <<>>
  BY <1>1, PathOfNull
<1>3. ASSUME NEW n \in DOMAIN h PROVE P(n) = <<n>> \o P(h[n].next)
  <2>1. h[n].next \in DOMAIN h \cup {NULL}
    BY DEF Linked
  <2>2. Path(h, n, <<n>> \o P(h[n].next))
    BY <1>1, <2>1, PathOfNode
  <2>3. Path(h, n, P(n))
    BY <1>1
  <2> HIDE DEF P
  <2> QED
    BY <2>2, <2>3, OnePath
<1> HIDE DEF P
<1>4. Rule(f)
  <2>1. \A n \in DOMAIN h \cup {NULL} : f[n] = IF n = NULL THEN <<>> ELSE <<n>> \o f[h[n].next]
    BY <1>2, <1>3 DEF Linked
  <2> QED
    BY <2>1
<1> HIDE DEF f
<1>5. Rule(from)
  BY <1>4, Zenon
<1>6. \A l : Box!Owned(h, l) = from[l]
  BY DEF Box!Owned
<1> HIDE DEF from
<1>7. from[NULL] = <<>> /\ \A n \in DOMAIN h : from[n] = <<n>> \o from[h[n].next]
  BY <1>5 DEF Linked
<1> HIDE DEF Rule
<1> QED
  BY <1>6, <1>7

(* A Box whose next was taken out owns its own node and no other. *)
LEMMA OwnsItself ==
  ASSUME NEW h, Linked(h), NEW r, NEW b, Ranked(h, r, b),
         NEW n \in DOMAIN h, h[n] \in [elem : Elem, next : DOMAIN h \cup {NULL}]
  PROVE  Box!Owned([h EXCEPT ![n].next = NULL], n) = <<n>>
<1> DEFINE g == [h EXCEPT ![n].next = NULL]
<1>1. DOMAIN g = DOMAIN h /\ g[n].next = NULL /\ \A m \in DOMAIN h : m # n => g[m] = h[m]
  OBVIOUS
<1> HIDE DEF g
<1>2. Linked(g) /\ Ranked(g, r, b)
  BY <1>1 DEF Linked, Ranked
<1>3. Box!Owned(g, NULL) = <<>> /\ Box!Owned(g, n) = <<n>> \o Box!Owned(g, g[n].next)
  BY <1>1, <1>2, OwnedUnfolds
<1>4. Box!Owned(g, n) = <<n>>
  BY <1>1, <1>3
<1> QED
  BY <1>4 DEF g

(* The values of a link are those on its path. *)
LEMMA PathValues ==
  ASSUME NEW h, Linked(h), NEW r, NEW b, Ranked(h, r, b), NEW l \in DOMAIN h \cup {NULL},
         NEW q, Path(h, l, q)
  PROVE  From(h)[l] = Elems(h, q)
<1> DEFINE Good(n) == \A s : Path(h, n, s) => From(h)[n] = Elems(h, s)
           T == {n \in DOMAIN h : ~Good(n)}
<1>1. Good(NULL)
  BY PathOfNull, FromUnfolds DEF Elems
<1>2. ASSUME NEW n \in DOMAIN h, Good(h[n].next) PROVE Good(n)
  <2>1. SUFFICES ASSUME NEW s, Path(h, n, s) PROVE From(h)[n] = Elems(h, s)
    OBVIOUS
  <2>2. Path(h, h[n].next, Tail(s)) /\ s = <<n>> \o Tail(s)
    BY <2>1, PathOfNode
  <2>3. From(h)[h[n].next] = Elems(h, Tail(s))
    BY <1>2, <2>2
  <2>4. From(h)[n] = <<h[n].elem>> \o Elems(h, Tail(s))
    BY <2>3, FromUnfolds
  <2> DEFINE t == Tail(s)
  <2>5. t \in Seq(DOMAIN h) /\ s = <<n>> \o t
    BY <2>2 DEF Path
  <2> HIDE DEF t
  <2>6. Elems(h, <<n>> \o t) = <<h[n].elem>> \o Elems(h, t)
    BY <2>5 DEF Elems
  <2> QED
    BY <2>4, <2>5, <2>6 DEF t
<1> HIDE DEF Good
<1>3. ASSUME T # {} PROVE FALSE
  <2>1. PICK n \in T : h[n].next \notin T
    BY <1>3, LastOf
  <2>2. Good(h[n].next)
    BY <1>1, <2>1 DEF Linked
  <2> QED
    BY <1>2, <2>2
<1> QED
  BY <1>1, <1>3 DEF Good

-----------------------------------------------------------------------------
(* A path over all the nodes, each of them once. *)
Cover(h, l, p) ==
  /\ Path(h, l, p)
  /\ \A i, j \in 1..Len(p) : p[i] = p[j] => i = j
  /\ \A n \in DOMAIN h : \E i \in 1..Len(p) : p[i] = n

(* No node links to the head, and no link leads out of the heap. *)
LEMMA CoverLinks ==
  ASSUME NEW h, NULL \notin DOMAIN h, NEW l, NEW p, Cover(h, l, p)
  PROVE  /\ Linked(h) /\ l \in DOMAIN h \cup {NULL}
         /\ \A m \in DOMAIN h : h[m].next = NULL \/ h[m].next # l
<1>1. /\ p \in Seq(DOMAIN h) /\ Len(p) \in Nat /\ (p # <<>> => h[p[Len(p)]].next = NULL /\ p[1] = l)
      /\ (p = <<>> => l = NULL)
      /\ \A i \in 1..Len(p) - 1 : h[p[i]].next = p[i + 1]
  BY DEF Cover, Path
<1>2. ASSUME NEW m \in DOMAIN h
      PROVE  /\ h[m].next \in DOMAIN h \cup {NULL}
             /\ h[m].next = NULL \/ h[m].next # l
  <2>1. PICK i \in 1..Len(p) : p[i] = m
    BY DEF Cover
  <2>2. p # <<>> /\ Len(p) > 0
    BY <1>1, <2>1
  <2>3. CASE i = Len(p)
    BY <1>1, <2>1, <2>2, <2>3
  <2>4. CASE i # Len(p)
    <3>1. i \in 1..Len(p) - 1 /\ i + 1 \in 1..Len(p) /\ 1 \in 1..Len(p) /\ i + 1 # 1
      BY <1>1, <2>1, <2>4
    <3>2. h[m].next = p[i + 1] /\ p[i + 1] \in DOMAIN h
      BY <1>1, <2>1, <3>1
    <3>3. p[i + 1] # p[1]
      BY <3>1 DEF Cover
    <3> QED
      BY <1>1, <2>2, <3>2, <3>3
  <2> QED
    BY <2>3, <2>4
<1>3. l \in DOMAIN h \cup {NULL}
  <2>1. CASE p # <<>>
    <3>1. p[1] \in DOMAIN h
      BY <1>1, <2>1
    <3> QED
      BY <1>1, <2>1, <3>1
  <2> QED
    BY <1>1, <2>1
<1> QED
  BY <1>2, <1>3 DEF Linked

(* A heap that is one path has no cycle. *)
LEMMA CoverRanked ==
  ASSUME NEW h, NULL \notin DOMAIN h, NEW l, NEW p, Cover(h, l, p)
  PROVE  \E r : Ranked(h, r, Len(p))
<1> DEFINE at(n) == CHOOSE i \in 1..Len(p) : p[i] = n
           r == [n \in DOMAIN h |-> Len(p) - at(n)]
<1>1. p \in Seq(DOMAIN h) /\ Len(p) \in Nat
  BY DEF Cover, Path
<1>2. \A n \in DOMAIN h : at(n) \in 1..Len(p) /\ p[at(n)] = n
  BY DEF Cover
<1> HIDE DEF at
<1>3. r \in [DOMAIN h -> 0..Len(p)]
  BY <1>1, <1>2
<1>4. ASSUME NEW n \in DOMAIN h, h[n].next \in DOMAIN h PROVE r[h[n].next] < r[n]
  <2>1. at(n) # Len(p)
    <3>1. ASSUME at(n) = Len(p) PROVE FALSE
      <4>1. p[Len(p)] = n /\ p # <<>>
        BY <1>1, <1>2, <3>1
      <4> QED
        BY <1>4, <4>1 DEF Cover, Path
    <3> QED
      BY <3>1
  <2>2. at(n) \in 1..Len(p) - 1 /\ at(n) + 1 \in 1..Len(p)
    BY <1>1, <1>2, <2>1
  <2>3. h[n].next = p[at(n) + 1]
    BY <1>2, <2>2 DEF Cover, Path
  <2>4. at(h[n].next) = at(n) + 1
    BY <1>2, <1>4, <2>2, <2>3 DEF Cover
  <2> QED
    BY <1>1, <1>2, <1>4, <2>2, <2>4
<1> QED
  BY <1>1, <1>3, <1>4 DEF Ranked

(* The path has as many nodes as are allocated. *)
LEMMA CoverCounts ==
  ASSUME NEW h, NULL \notin DOMAIN h, NEW l, NEW p, Cover(h, l, p)
  PROVE  /\ IsFiniteSet(DOMAIN h) /\ Len(p) = Cardinality(DOMAIN h)
         /\ From(h)[l] = Elems(h, p) /\ Len(From(h)[l]) = Len(p) /\ Len(p) \in Nat
<1>1. p \in Seq(DOMAIN h) /\ Len(p) \in Nat /\ Path(h, l, p)
  BY DEF Cover, Path
<1>2. p \in Bijection(1..Len(p), DOMAIN h)
  <2>1. p \in [1..Len(p) -> DOMAIN h]
    BY <1>1
  <2> QED
    BY <2>1 DEF Cover, Bijection, Injection, Surjection, IsInjective
<1>3. IsFiniteSet(1..Len(p)) /\ Cardinality(1..Len(p)) = Len(p)
  <2>1. IsFiniteSet(1..Len(p)) /\ Cardinality(1..Len(p)) = IF 1 > Len(p) THEN 0 ELSE Len(p) - 1 + 1
    BY <1>1, FS_Interval
  <2> QED
    BY <1>1, <2>1
<1>4. IsFiniteSet(DOMAIN h) /\ Cardinality(DOMAIN h) = Len(p)
  BY <1>2, <1>3, FS_Bijection DEF ExistsBijection
<1>5. From(h)[l] = Elems(h, p)
  BY <1>1, CoverLinks, CoverRanked, PathValues
<1>6. Len(Elems(h, p)) = Len(p)
  BY <1>1 DEF Elems
<1> QED
  BY <1>1, <1>4, <1>5, <1>6

(* push: a new node before the path. *)
LEMMA CoverPush ==
  ASSUME NEW h, NULL \notin DOMAIN h, NEW l, NEW p, Cover(h, l, p),
         NEW n, n \notin DOMAIN h, n # NULL,
         NEW g, DOMAIN g = DOMAIN h \cup {n}, g[n].next = l, \A m \in DOMAIN h : g[m].next = h[m].next
  PROVE  Cover(g, n, <<n>> \o p)
<1>1. p \in Seq(DOMAIN h) /\ Len(p) \in Nat
  BY DEF Cover, Path
<1>2. Path(g, l, p)
  <2>1. p \in Seq(DOMAIN g) /\ \A i \in 1..Len(p) : g[p[i]].next = h[p[i]].next
    BY <1>1
  <2>2. p # <<>> => Len(p) \in 1..Len(p)
    BY <1>1
  <2> QED
    BY <1>1, <2>1, <2>2 DEF Cover, Path
<1>3. Linked(g)
  BY CoverLinks DEF Linked
<1>4. Path(g, n, <<n>> \o p)
  BY <1>2, <1>3, PathOfNode
<1> DEFINE s == <<n>> \o p
<1>5. Len(s) = Len(p) + 1 /\ s[1] = n /\ \A i \in 1..Len(p) : s[i + 1] = p[i] /\ p[i] \in DOMAIN h
  BY <1>1
<1> HIDE DEF s
<1>6. ASSUME NEW i \in 1..Len(s), NEW j \in 1..Len(s), s[i] = s[j] PROVE i = j
  <2>1. \A k \in 1..Len(s) : k # 1 => k - 1 \in 1..Len(p) /\ s[k] = p[k - 1] /\ s[k] # n
    BY <1>1, <1>5
  <2>2. CASE i = 1 \/ j = 1
    BY <1>5, <1>6, <2>1, <2>2
  <2>3. CASE i # 1 /\ j # 1
    <3>1. i - 1 = j - 1
      BY <1>6, <2>1, <2>3 DEF Cover
    <3> QED
      BY <1>1, <1>5, <3>1
  <2> QED
    BY <2>2, <2>3
<1>7. ASSUME NEW m \in DOMAIN g PROVE \E i \in 1..Len(s) : s[i] = m
  <2>1. CASE m = n
    BY <1>1, <1>5, <2>1
  <2>2. CASE m \in DOMAIN h
    <3>1. PICK i \in 1..Len(p) : p[i] = m
      BY <2>2 DEF Cover
    <3>2. i + 1 \in 1..Len(s) /\ s[i + 1] = m
      BY <1>1, <1>5, <3>1
    <3> QED
      BY <3>2
  <2> QED
    BY <2>1, <2>2
<1> QED
  BY <1>4, <1>6, <1>7 DEF Cover, s

(* pop: the head of the path goes, no link to it is left. *)
LEMMA CoverPop ==
  ASSUME NEW h, NULL \notin DOMAIN h, NEW n \in DOMAIN h, NEW p, Cover(h, n, p),
         NEW g, DOMAIN g = DOMAIN h \ {n}, \A m \in DOMAIN g : g[m].next = h[m].next
  PROVE  Cover(g, h[n].next, Tail(p))
<1> DEFINE t == Tail(p)
<1>1. p \in Seq(DOMAIN h) /\ Len(p) \in Nat /\ p # <<>> /\ p[1] = n
  BY DEF Cover, Path
<1>2. Linked(h) /\ Path(h, h[n].next, t)
  BY CoverLinks, PathOfNode DEF Cover
<1>3. /\ Len(t) = Len(p) - 1 /\ Len(p) > 0 /\ t \in Seq(DOMAIN h)
      /\ \A i \in 1..Len(t) : t[i] = p[i + 1]
  BY <1>1
<1> HIDE DEF t
<1>4. \A i \in 1..Len(t) : t[i] \in DOMAIN g
  <2>1. \A i \in 1..Len(t) : i + 1 \in 1..Len(p) /\ i + 1 # 1 /\ 1 \in 1..Len(p) /\ t[i] \in DOMAIN h
    BY <1>1, <1>3
  <2> QED
    <3>1. \A i \in 1..Len(t) : p[i + 1] # p[1]
      BY <2>1 DEF Cover
    <3> QED
      BY <1>1, <1>3, <2>1, <3>1
<1>5. t \in Seq(DOMAIN g)
  BY <1>3, <1>4
<1>6. Path(g, h[n].next, t)
  <2>1. t # <<>> => Len(t) \in 1..Len(t)
    BY <1>3
  <2>2. \A i \in 1..Len(t) - 1 : i \in 1..Len(t)
    BY <1>1, <1>3
  <2> QED
    BY <1>2, <1>4, <1>5, <2>1, <2>2 DEF Path
<1>7. ASSUME NEW i \in 1..Len(t), NEW j \in 1..Len(t), t[i] = t[j] PROVE i = j
  <2>1. i + 1 \in 1..Len(p) /\ j + 1 \in 1..Len(p)
    BY <1>1, <1>3
  <2>2. p[i + 1] = p[j + 1]
    BY <1>3, <1>7
  <2>3. \A k, m \in 1..Len(p) : p[k] = p[m] => k = m
    BY DEF Cover
  <2>4. i + 1 = j + 1
    BY <2>1, <2>2, <2>3
  <2> QED
    BY <2>4
<1>8. ASSUME NEW m \in DOMAIN g PROVE \E i \in 1..Len(t) : t[i] = m
  <2>1. PICK i \in 1..Len(p) : p[i] = m
    BY DEF Cover
  <2>2. i # 1
    BY <1>1, <2>1
  <2>3. i - 1 \in 1..Len(t) /\ t[i - 1] = m
    BY <1>1, <1>3, <2>1, <2>2
  <2> QED
    BY <2>3
<1> QED
  BY <1>6, <1>7, <1>8 DEF Cover, t

(* A write to an element moves no node. *)
LEMMA CoverSame ==
  ASSUME NEW h, NEW l, NEW p, Cover(h, l, p),
         NEW g, DOMAIN g = DOMAIN h, \A m \in DOMAIN h : g[m].next = h[m].next
  PROVE  Cover(g, l, p)
<1>1. p \in Seq(DOMAIN h) /\ \A i \in 1..Len(p) : p[i] \in DOMAIN h
  BY DEF Cover, Path
<1>2. p # <<>> => Len(p) \in 1..Len(p)
  BY <1>1
<1>3. Path(h, l, p)
  BY DEF Cover
<1>4. Path(g, l, p)
  <2>1. ASSUME NEW i \in 1..Len(p) - 1 PROVE g[p[i]].next = p[i + 1]
    <3>1. i \in 1..Len(p)
      BY <1>1
    <3> QED
      BY <1>1, <1>3, <3>1 DEF Path
  <2>2. p # <<>> => p[1] = l /\ g[p[Len(p)]].next = NULL
    BY <1>1, <1>2, <1>3 DEF Path
  <2> QED
    BY <1>1, <1>3, <2>1, <2>2 DEF Path
<1> QED
  BY <1>4 DEF Cover

-----------------------------------------------------------------------------
(* second_gene.rs. The path starts at the head, or where drop is; an       *)
(* iterator has seen the values up to its place on it.                     *)
BoxStart == IF mode = "dropping" THEN boxCur ELSE boxHead

BoxSeenUpTo(p) ==
  /\ Len(boxSeen) <= Len(p)
  /\ boxCur = IF Len(boxSeen) = Len(p) THEN NULL ELSE p[Len(boxSeen) + 1]
  /\ \A i \in 1..Len(boxSeen) : boxSeen[i] = boxes[p[i]].elem

BoxAt(p) == /\ Cover(boxes, BoxStart, p)
            /\ mode \in {"iter", "iter_mut"} => BoxSeenUpTo(p)

BoxInv == /\ Box!TypeOK
          /\ mode \in {"owned", "into_iter", "dropped"} => boxCur = NULL
          /\ mode \in {"dropping", "dropped"} => boxHead = NULL
          /\ ~Debug => depth <= 1
          /\ \E p : BoxAt(p)

(* There is no list, no node and no drop yet. *)
LEMMA BoxInit == Box!Init => BoxInv
<1> SUFFICES ASSUME Box!Init PROVE BoxInv
  OBVIOUS
<1>1. Cover(boxes, BoxStart, <<>>)
  BY DEF Box!Init, BoxStart, Cover, Path
<1>2. Box!TypeOK
  BY DEF Box!Init, Box!TypeOK, Box!Link
<1> QED
  BY <1>1, <1>2 DEF Box!Init, BoxInv, BoxAt

(* A program that uses another list leaves this one alone. *)
LEMMA BoxIdle == BoxInv /\ UNCHANGED boxVars => BoxInv'
<1> SUFFICES ASSUME BoxInv, UNCHANGED boxVars PROVE BoxInv'
  OBVIOUS
<1>1. boxes' = boxes /\ boxHead' = boxHead /\ mode' = mode /\ boxCur' = boxCur /\ boxOut' = boxOut
      /\ boxSeen' = boxSeen /\ depth' = depth
  BY DEF boxVars
<1>2. Box!TypeOK'
  BY <1>1 DEF BoxInv, Box!TypeOK, Box!Link
<1>3. \A p : BoxAt(p) => BoxAt(p)'
  BY <1>1 DEF BoxAt, BoxStart, BoxSeenUpTo
<1> QED
  BY <1>1, <1>2, <1>3 DEF BoxInv

(* What the invariant says of heap and links, for the steps. *)
LEMMA BoxFacts ==
  ASSUME BoxInv
  PROVE  /\ NULL \notin DOMAIN boxes /\ Box!TypeOK /\ Linked(boxes) /\ boxes = [n \in DOMAIN boxes |-> boxes[n]]
         /\ DOMAIN boxes \subseteq Node
         /\ \A n \in DOMAIN boxes : boxes[n] \in [elem : Elem, next : DOMAIN boxes \cup {NULL}]
<1>1. Box!TypeOK /\ NULL \notin DOMAIN boxes
  BY NullIsNoNode DEF BoxInv, Box!TypeOK
<1>2. Linked(boxes)
  BY <1>1, CoverLinks DEF BoxInv, BoxAt
<1> QED
  BY <1>1, <1>2 DEF Box!TypeOK, Box!Link

(* A round of drop frees one node; only the derived Debug goes deeper than *)
(* its glue.                                                               *)
LEMMA DropFrees ==
  ASSUME BoxInv, Box!DropNext, boxCur # NULL
  PROVE  /\ mode = "dropping" /\ boxCur \in DOMAIN boxes
         /\ boxes' = [m \in DOMAIN boxes \ {boxCur} |-> boxes[m]]
         /\ boxCur' = boxes[boxCur].next /\ boxOut' = None
         /\ mode' = mode /\ boxHead' = boxHead /\ boxSeen' = boxSeen
         /\ depth' \in Nat /\ (~Debug => depth' = 1)
<1> DEFINE n == boxCur
           h == [boxes EXCEPT ![n].next = NULL]
<1>1. mode = "dropping" /\ n \in DOMAIN boxes /\ boxes[n] \in [elem : Elem, next : DOMAIN boxes \cup {NULL}]
  BY BoxFacts DEF Box!DropNext, Box!TypeOK, Box!Link
<1>2. PICK p : Cover(boxes, n, p)
  BY <1>1 DEF BoxInv, BoxAt, BoxStart
<1>3. PICK r : Ranked(boxes, r, Len(p))
  BY <1>2, BoxFacts, CoverRanked
<1>4. Box!Owned(h, n) = <<n>>
  BY <1>1, <1>3, BoxFacts, OwnsItself
<1>5. Len(Box!Values(boxes[n].next)) \in Nat
  <2>1. Path(boxes, boxes[n].next, Tail(p)) /\ boxes[n].next \in DOMAIN boxes \cup {NULL}
    BY <1>1, <1>2, BoxFacts, PathOfNode DEF Cover, Linked
  <2>2. From(boxes)[boxes[n].next] = Elems(boxes, Tail(p))
    BY <1>3, <2>1, BoxFacts, PathValues
  <2>3. Len(Elems(boxes, Tail(p))) \in Nat
    BY <2>1 DEF Elems, Path
  <2> QED
    BY <2>2, <2>3, ValuesFrom
<1>6. /\ boxCur' = boxes[n].next /\ boxOut' = None /\ Box!OutOfScope(h, n)
      /\ mode' = mode /\ boxHead' = boxHead /\ boxSeen' = boxSeen
  BY <1>1 DEF Box!DropNext
<1>7. DOMAIN h = DOMAIN boxes /\ \A m \in DOMAIN boxes : m # n => h[m] = boxes[m]
  OBVIOUS
<1> HIDE DEF h, n
<1>8. {<<n>>[i] : i \in DOMAIN <<n>>} = {n} /\ Len(<<n>>) = 1
  OBVIOUS
<1>9. boxes' = [m \in DOMAIN boxes \ {n} |-> boxes[m]]
  BY <1>4, <1>6, <1>7, <1>8 DEF Box!OutOfScope
<1>10. depth' \in Nat /\ (~Debug => depth' = 1)
  BY <1>4, <1>5, <1>6, <1>8, DebugType DEF Box!OutOfScope
<1> QED
  BY <1>1, <1>6, <1>9, <1>10 DEF n

(* The steps that leave the nodes and the start of the list alone. *)
LEMMA BoxLooks ==
  ASSUME BoxInv,
         \/ Box!New \/ Box!Peek \/ Box!IterNext \/ Box!EndBorrow \/ Box!IntoIter \/ Box!Drop
         \/ \E m \in {"iter", "iter_mut"} : Box!Borrow(m)
         \/ (Box!Pop \/ \E e \in Elem : Box!PeekMut(e)) /\ boxHead = NULL
         \/ (Box!DropNext \/ \E e \in Elem : Box!IterMutNext(e)) /\ boxCur = NULL
  PROVE  BoxInv'
<1>1. Box!TypeOK /\ NULL \notin DOMAIN boxes /\ Linked(boxes)
  BY BoxFacts
<1>2. PICK p : BoxAt(p)
  BY DEF BoxInv
<1>3. boxes' = boxes /\ depth' = 0
  BY DEF Box!New, Box!Peek, Box!IterNext, Box!EndBorrow, Box!IntoIter, Box!Drop, Box!Borrow, Box!Pop,
         Box!PeekMut, Box!DropNext, Box!IterMutNext, Box!Returns
<1>4. p \in Seq(DOMAIN boxes) /\ Path(boxes, BoxStart, p) /\ Len(p) \in Nat
  BY <1>2 DEF BoxAt, Cover, Path
<1>5. ASSUME mode' \notin {"iter", "iter_mut"}, BoxStart' = BoxStart PROVE BoxAt(p)'
  BY <1>2, <1>3, <1>5 DEF BoxAt
<1>6. CASE Box!New
  BY <1>1, <1>3, <1>5, <1>6 DEF Box!New, Box!Returns, Box!TypeOK, Box!Link, BoxInv, BoxStart
<1>7. CASE Box!EndBorrow \/ Box!IntoIter
  <2>1. <<>> \in Seq(Elem)
    OBVIOUS
  <2>2. /\ mode # "dropping" /\ mode' \in {"owned", "into_iter"} /\ boxHead' = boxHead /\ boxCur' = NULL
        /\ boxSeen' \in {boxSeen, <<>>} /\ boxOut' = None
    BY <1>7 DEF Box!EndBorrow, Box!IntoIter, Box!Returns, BoxInv
  <2>3. BoxStart' = BoxStart
    BY <2>2 DEF BoxStart
  <2>4. Box!TypeOK'
    BY <1>1, <1>3, <2>1, <2>2 DEF Box!TypeOK, Box!Link
  <2> QED
    BY <1>3, <1>5, <2>2, <2>3, <2>4 DEF BoxInv
<1>8. CASE Box!Drop
  BY <1>1, <1>3, <1>5, <1>8 DEF Box!Drop, Box!Returns, Box!TypeOK, Box!Link, BoxInv, BoxStart
<1>9. CASE (Box!Pop \/ \E e \in Elem : Box!PeekMut(e)) /\ boxHead = NULL
  <2>1. mode' = mode /\ boxHead' = boxHead /\ boxCur' = boxCur /\ boxSeen' = boxSeen /\ boxOut' = None
        /\ mode \in {"owned", "into_iter"}
    BY <1>9 DEF Box!Pop, Box!PeekMut, Box!Returns
  <2>2. BoxStart' = BoxStart
    BY <2>1 DEF BoxStart
  <2>3. Box!TypeOK'
    BY <1>1, <1>3, <2>1 DEF Box!TypeOK, Box!Link
  <2> QED
    BY <1>3, <1>5, <2>1, <2>2, <2>3 DEF BoxInv
<1>10. CASE Box!DropNext /\ boxCur = NULL
  <2>1. mode = "dropping" /\ mode' = "dropped" /\ boxHead' = boxHead /\ boxCur' = boxCur
        /\ boxSeen' = boxSeen /\ boxOut' = None
    BY <1>10 DEF Box!DropNext, Box!Returns
  <2>2. BoxStart' = BoxStart
    BY <1>10, <2>1 DEF BoxStart, BoxInv
  <2>3. Box!TypeOK'
    BY <1>1, <1>3, <2>1 DEF Box!TypeOK, Box!Link
  <2> QED
    BY <1>3, <1>5, <1>10, <2>1, <2>2, <2>3 DEF BoxInv
<1>11. CASE \E m \in {"iter", "iter_mut"} : Box!Borrow(m)
  <2>1. mode = "owned" /\ mode' \in {"iter", "iter_mut"} /\ boxHead' = boxHead /\ boxCur' = boxHead
        /\ boxSeen' = <<>> /\ boxOut' = None
    BY <1>11 DEF Box!Borrow, Box!Returns
  <2>2. BoxStart' = BoxStart /\ BoxStart = boxHead
    BY <2>1 DEF BoxStart
  <2>3. Box!TypeOK'
    <3>1. <<>> \in Seq(Elem)
      OBVIOUS
    <3> QED
      BY <1>1, <1>3, <2>1, <3>1 DEF Box!TypeOK, Box!Link
  <2>4. boxHead = IF 0 = Len(p) THEN NULL ELSE p[0 + 1]
    BY <1>4, <2>2 DEF Path
  <2>5. BoxSeenUpTo(p)'
    BY <1>4, <2>1, <2>4 DEF BoxSeenUpTo
  <2>6. BoxAt(p)'
    BY <1>2, <1>3, <2>2, <2>5 DEF BoxAt
  <2> QED
    BY <1>3, <2>1, <2>3, <2>6 DEF BoxInv
<1>12. CASE Box!Peek
  <2>1. mode' = mode /\ boxHead' = boxHead /\ boxCur' = boxCur /\ boxSeen' = boxSeen
        /\ boxOut' = IF boxHead = NULL THEN None ELSE boxes[boxHead].elem
    BY <1>12 DEF Box!Peek, Box!Returns
  <2>2. BoxAt(p)'
    BY <1>2, <1>3, <2>1 DEF BoxAt, BoxStart, BoxSeenUpTo
  <2>3. boxOut' \in Elem \cup {None}
    BY <1>1, <2>1, BoxFacts DEF Box!TypeOK, Box!Link
  <2>4. Box!TypeOK'
    BY <1>1, <1>3, <2>1, <2>3 DEF Box!TypeOK, Box!Link
  <2> QED
    BY <1>3, <2>1, <2>2, <2>4 DEF BoxInv
<1>13. CASE (Box!IterNext \/ \E e \in Elem : Box!IterMutNext(e)) /\ boxCur = NULL
  <2>1. mode' = mode /\ boxHead' = boxHead /\ boxCur' = boxCur /\ boxSeen' = boxSeen /\ boxOut' = None
    BY <1>13 DEF Box!IterNext, Box!IterMutNext, Box!Returns
  <2>2. BoxAt(p)'
    BY <1>2, <1>3, <2>1 DEF BoxAt, BoxStart, BoxSeenUpTo
  <2>3. Box!TypeOK'
    BY <1>1, <1>3, <2>1 DEF Box!TypeOK, Box!Link
  <2> QED
    BY <1>3, <2>1, <2>2, <2>3 DEF BoxInv
<1>14. CASE Box!IterNext /\ boxCur # NULL
  <2>1. /\ mode = "iter" /\ mode' = mode /\ boxHead' = boxHead /\ boxCur' = boxes[boxCur].next
        /\ boxSeen' = Append(boxSeen, boxes[boxCur].elem) /\ boxOut' = boxes[boxCur].elem
    BY <1>14 DEF Box!IterNext, Box!Returns
  <2>2. boxCur \in DOMAIN boxes /\ boxSeen \in Seq(Elem)
    BY <1>1, <1>14 DEF Box!TypeOK, Box!Link
  <2>3. boxes[boxCur].elem \in Elem /\ boxes[boxCur].next \in DOMAIN boxes \cup {NULL}
    BY <2>2, BoxFacts
  <2>4. /\ boxSeen' \in Seq(Elem) /\ Len(boxSeen') = Len(boxSeen) + 1 /\ Len(boxSeen) \in Nat
        /\ boxSeen'[Len(boxSeen) + 1] = boxes[boxCur].elem
        /\ \A i \in 1..Len(boxSeen) : boxSeen'[i] = boxSeen[i]
    BY <2>1, <2>2, <2>3
  <2>5. Box!TypeOK'
    BY <1>1, <1>3, <2>1, <2>3, <2>4 DEF Box!TypeOK, Box!Link
  <2>6. BoxSeenUpTo(p)
    BY <1>2, <2>1 DEF BoxAt
  <2>7. Len(boxSeen) < Len(p) /\ boxCur = p[Len(boxSeen) + 1]
    BY <1>4, <1>14, <2>4, <2>6 DEF BoxSeenUpTo
  <2>8. boxes[boxCur].next = IF Len(boxSeen) + 1 = Len(p) THEN NULL ELSE p[Len(boxSeen) + 2]
    BY <1>4, <2>4, <2>7 DEF Path
  <2>9. \A i \in 1..Len(boxSeen') : boxSeen'[i] = boxes[p[i]].elem
    <3>1. \A i \in 1..Len(boxSeen') : i \in 1..Len(boxSeen) \/ i = Len(boxSeen) + 1
      BY <2>4
    <3> QED
      BY <2>4, <2>6, <2>7, <3>1 DEF BoxSeenUpTo
  <2>10. BoxSeenUpTo(p)'
    <3>1. Len(boxSeen) + 2 = Len(boxSeen') + 1 /\ Len(boxSeen') <= Len(p)
      BY <1>4, <2>4, <2>7
    <3> QED
      BY <1>3, <2>1, <2>4, <2>8, <2>9, <3>1 DEF BoxSeenUpTo
  <2>11. BoxAt(p)'
    BY <1>2, <1>3, <2>1, <2>10 DEF BoxAt, BoxStart
  <2> QED
    BY <1>3, <2>1, <2>5, <2>11 DEF BoxInv
<1> QED
  BY <1>6, <1>7, <1>8, <1>9, <1>10, <1>11, <1>12, <1>13, <1>14

(* The steps that write to a node of the list. *)
LEMMA BoxWrites ==
  ASSUME BoxInv, NEW e \in Elem,
         \/ Box!PeekMut(e) /\ boxHead # NULL
         \/ Box!IterMutNext(e) /\ boxCur # NULL
  PROVE  BoxInv'
<1> DEFINE n == IF mode = "owned" THEN boxHead ELSE boxCur
<1>1. Box!TypeOK /\ NULL \notin DOMAIN boxes
  BY BoxFacts
<1>2. PICK p : BoxAt(p)
  BY DEF BoxInv
<1>3. /\ n \in DOMAIN boxes /\ boxes' = [boxes EXCEPT ![n].elem = e] /\ depth' = 0 /\ boxOut' = e
      /\ boxHead' = boxHead /\ mode' = mode
  BY <1>1 DEF Box!PeekMut, Box!IterMutNext, Box!Returns, Box!Write, Box!TypeOK, Box!Link
<1> HIDE DEF n
<1>4. /\ DOMAIN boxes' = DOMAIN boxes /\ boxes'[n].elem = e
      /\ \A m \in DOMAIN boxes : boxes'[m].next = boxes[m].next
      /\ \A m \in DOMAIN boxes \ {n} : boxes'[m] = boxes[m]
      /\ boxes' \in [DOMAIN boxes -> [elem : Elem, next : DOMAIN boxes \cup {NULL}]]
  BY <1>3, BoxFacts
<1>5. p \in Seq(DOMAIN boxes) /\ Path(boxes, BoxStart, p) /\ Len(p) \in Nat /\ Cover(boxes, BoxStart, p)
  BY <1>2 DEF BoxAt, Cover, Path
<1>6. Cover(boxes', BoxStart, p)
  BY <1>4, <1>5, CoverSame
<1>7. CASE Box!PeekMut(e)
  <2>1. mode = "owned" /\ boxCur' = boxCur /\ boxSeen' = boxSeen
    BY <1>7 DEF Box!PeekMut
  <2>2. Box!TypeOK'
    BY <1>1, <1>3, <1>4, <2>1 DEF Box!TypeOK, Box!Link
  <2>3. BoxAt(p)'
    BY <1>3, <1>6, <2>1 DEF BoxAt, BoxStart
  <2> QED
    BY <1>3, <2>1, <2>2, <2>3 DEF BoxInv
<1>8. CASE Box!IterMutNext(e) /\ boxCur # NULL
  <2>1. /\ mode = "iter_mut" /\ n = boxCur /\ boxCur' = boxes[n].next /\ boxSeen' = Append(boxSeen, e)
    BY <1>8 DEF Box!IterMutNext, n
  <2>2. boxSeen \in Seq(Elem) /\ boxes[n].next \in DOMAIN boxes \cup {NULL}
    BY <1>1, <1>3, BoxFacts DEF Box!TypeOK
  <2>4. /\ boxSeen' \in Seq(Elem) /\ Len(boxSeen') = Len(boxSeen) + 1 /\ Len(boxSeen) \in Nat
        /\ boxSeen'[Len(boxSeen) + 1] = e
        /\ \A i \in 1..Len(boxSeen) : boxSeen'[i] = boxSeen[i]
    BY <2>1, <2>2
  <2>5. Box!TypeOK'
    BY <1>1, <1>3, <1>4, <2>1, <2>2, <2>4 DEF Box!TypeOK, Box!Link
  <2>6. BoxSeenUpTo(p)
    BY <1>2, <2>1 DEF BoxAt
  <2>7. Len(boxSeen) < Len(p) /\ n = p[Len(boxSeen) + 1] /\ Len(boxSeen) + 1 \in 1..Len(p)
    BY <1>5, <1>8, <2>1, <2>4, <2>6 DEF BoxSeenUpTo
  <2>8. boxes[n].next = IF Len(boxSeen) + 1 = Len(p) THEN NULL ELSE p[Len(boxSeen) + 2]
    BY <1>5, <2>4, <2>7 DEF Path
  <2>9. ASSUME NEW i \in 1..Len(boxSeen') PROVE boxSeen'[i] = boxes'[p[i]].elem
    <3>1. CASE i = Len(boxSeen) + 1
      BY <1>4, <2>4, <2>7, <3>1
    <3>2. CASE i # Len(boxSeen) + 1
      <4>1. i \in 1..Len(boxSeen) /\ i \in 1..Len(p)
        BY <1>5, <2>4, <2>7, <3>2
      <4>2. p[i] # n /\ p[i] \in DOMAIN boxes
        <5>1. \A k, j \in 1..Len(p) : p[k] = p[j] => k = j
          BY <1>5 DEF Cover
        <5>2. p[i] # p[Len(boxSeen) + 1]
          BY <2>7, <3>2, <4>1, <5>1
        <5> QED
          BY <1>5, <2>7, <4>1, <5>2
      <4> QED
        BY <1>4, <2>4, <2>6, <4>1, <4>2 DEF BoxSeenUpTo
    <3> QED
      BY <3>1, <3>2
  <2>10. BoxSeenUpTo(p)'
    <3>1. Len(boxSeen) + 2 = Len(boxSeen') + 1 /\ Len(boxSeen') <= Len(p)
      BY <1>5, <2>4, <2>7
    <3> QED
      BY <2>1, <2>4, <2>8, <2>9, <3>1 DEF BoxSeenUpTo
  <2>11. BoxAt(p)'
    BY <1>3, <1>6, <2>1, <2>10 DEF BoxAt, BoxStart
  <2> QED
    BY <1>3, <2>1, <2>5, <2>11 DEF BoxInv
<1> QED
  BY <1>7, <1>8

(* The step that allocates a node. *)
LEMMA BoxPush ==
  ASSUME BoxInv, NEW e \in Elem, Box!Push(e)
  PROVE  BoxInv'
<1>1. Box!TypeOK /\ NULL \notin DOMAIN boxes
  BY BoxFacts
<1>2. PICK p : BoxAt(p)
  BY DEF BoxInv
<1>3. PICK n \in Node \ DOMAIN boxes :
        /\ boxes' = [m \in DOMAIN boxes \cup {n} |->
                       IF m = n THEN [elem |-> e, next |-> boxHead] ELSE boxes[m]]
        /\ boxHead' = n
  BY DEF Box!Push
<1>4. mode = "owned" /\ mode' = mode /\ boxCur' = boxCur /\ boxSeen' = boxSeen /\ depth' = 0 /\ boxOut' = None
  BY DEF Box!Push, Box!Returns
<1>5. /\ DOMAIN boxes' = DOMAIN boxes \cup {n} /\ boxes'[n] = [elem |-> e, next |-> boxHead]
      /\ \A m \in DOMAIN boxes : boxes'[m] = boxes[m]
      /\ boxes' \in [DOMAIN boxes' -> [elem : Elem, next : DOMAIN boxes' \cup {NULL}]]
  BY <1>1, <1>3, BoxFacts DEF Box!TypeOK, Box!Link
<1>6. Box!TypeOK'
  BY <1>1, <1>3, <1>4, <1>5 DEF Box!TypeOK, Box!Link
<1>7. Cover(boxes, boxHead, p)
  BY <1>2, <1>4 DEF BoxAt, BoxStart
<1>8. Cover(boxes', n, <<n>> \o p)
  BY <1>1, <1>3, <1>5, <1>7, NullIsNoNode, CoverPush
<1>9. BoxAt(<<n>> \o p)'
  BY <1>3, <1>4, <1>8 DEF BoxAt, BoxStart
<1> QED
  BY <1>4, <1>6, <1>9 DEF BoxInv

(* The steps that free the first node of the list. *)
LEMMA BoxFrees ==
  ASSUME BoxInv, (Box!Pop /\ boxHead # NULL) \/ (Box!DropNext /\ boxCur # NULL)
  PROVE  BoxInv'
<1> DEFINE n == BoxStart
<1>1. Box!TypeOK /\ NULL \notin DOMAIN boxes /\ Linked(boxes)
  BY BoxFacts
<1>2. PICK p : BoxAt(p)
  BY DEF BoxInv
<1>3. /\ n \in DOMAIN boxes /\ boxes' = [m \in DOMAIN boxes \ {n} |-> boxes[m]] /\ mode' = mode
      /\ boxSeen' = boxSeen /\ BoxStart' = boxes[n].next /\ mode \notin {"iter", "iter_mut"}
  BY <1>1, DropFrees DEF Box!Pop, Box!Returns, Box!Free, Box!TypeOK, Box!Link, BoxStart
<1>4. Cover(boxes, n, p)
  BY <1>2 DEF BoxAt
<1> HIDE DEF n
<1>5. /\ DOMAIN boxes' = DOMAIN boxes \ {n} /\ \A m \in DOMAIN boxes' : boxes'[m] = boxes[m]
  BY <1>3
<1>6. Cover(boxes', boxes[n].next, Tail(p))
  BY <1>1, <1>3, <1>4, <1>5, CoverPop
<1>7. \A m \in DOMAIN boxes : boxes[m].next # n
  BY <1>1, <1>3, <1>4, CoverLinks
<1>8. /\ boxes' \in [DOMAIN boxes' -> [elem : Elem, next : DOMAIN boxes' \cup {NULL}]]
      /\ boxes[n].next \in DOMAIN boxes' \cup {NULL} /\ boxes[n].elem \in Elem
  BY <1>3, <1>5, <1>7, BoxFacts
<1>9. BoxAt(Tail(p))'
  BY <1>3, <1>6 DEF BoxAt
<1>10. CASE Box!Pop /\ boxHead # NULL
  <2>1. /\ mode \in {"owned", "into_iter"} /\ n = boxHead /\ boxHead' = boxes[n].next /\ boxCur' = boxCur
        /\ boxOut' = boxes[n].elem /\ depth' = 0 /\ boxCur = NULL
    BY <1>10 DEF Box!Pop, Box!Returns, BoxInv, BoxStart, n
  <2>2. Box!TypeOK'
    BY <1>1, <1>3, <1>5, <1>8, <2>1 DEF Box!TypeOK, Box!Link
  <2> QED
    BY <1>3, <1>9, <2>1, <2>2 DEF BoxInv
<1>11. CASE Box!DropNext /\ boxCur # NULL
  <2>1. /\ mode = "dropping" /\ n = boxCur /\ boxCur' = boxes[n].next /\ boxHead' = boxHead
        /\ boxHead = NULL /\ boxOut' = None /\ depth' \in Nat /\ (~Debug => depth' = 1)
    BY <1>11, DropFrees DEF BoxInv, BoxStart, n
  <2>2. Box!TypeOK'
    BY <1>1, <1>3, <1>5, <1>8, <2>1 DEF Box!TypeOK, Box!Link
  <2> QED
    BY <1>3, <1>9, <2>1, <2>2 DEF BoxInv
<1> QED
  BY <1>10, <1>11

(* Every call of a list of Boxes keeps it one path. *)
LEMMA BoxStep == BoxInv /\ Box!Next => BoxInv'
<1> SUFFICES ASSUME BoxInv, Box!Next PROVE BoxInv'
  OBVIOUS
<1>1. CASE Box!Pop
  <2>1. CASE boxHead = NULL
    BY <1>1, <2>1, BoxLooks
  <2>2. CASE boxHead # NULL
    BY <1>1, <2>2, BoxFrees
  <2> QED
    BY <2>1, <2>2
<1>2. CASE Box!DropNext
  BY <1>2, BoxLooks, BoxFrees
<1>3. CASE \E e \in Elem : Box!Push(e) \/ Box!PeekMut(e) \/ Box!IterMutNext(e)
  BY <1>3, BoxLooks, BoxWrites, BoxPush
<1>4. CASE \/ Box!New \/ Box!Peek \/ Box!IterNext \/ Box!EndBorrow \/ Box!IntoIter \/ Box!Drop
           \/ \E m \in {"iter", "iter_mut"} : Box!Borrow(m)
  BY <1>4, BoxLooks
<1> QED
  BY <1>1, <1>2, <1>3, <1>4 DEF Box!Next

(* What is left of a list from a node of its path on. *)
LEMMA Rest ==
  ASSUME NEW h, NULL \notin DOMAIN h, NEW l, NEW p, Cover(h, l, p), NEW k \in 1..Len(p)
  PROVE  From(h)[p[k]] = Elems(h, SubSeq(p, k, Len(p)))
<1> DEFINE s == SubSeq(p, k, Len(p))
<1>1. p \in Seq(DOMAIN h) /\ Len(p) \in Nat /\ p # <<>>
  BY DEF Cover, Path
<1>2. /\ s \in Seq(DOMAIN h) /\ Len(s) = Len(p) - k + 1 /\ Len(s) > 0
      /\ \A i \in 1..Len(s) : s[i] = p[k + i - 1]
  BY <1>1
<1> HIDE DEF s
<1>3. s # <<>> /\ s[1] = p[k] /\ s[Len(s)] = p[Len(p)]
  BY <1>1, <1>2
<1>4. ASSUME NEW i \in 1..Len(s) - 1 PROVE h[s[i]].next = s[i + 1]
  <2>1. k + i - 1 \in 1..Len(p) - 1 /\ i \in 1..Len(s) /\ i + 1 \in 1..Len(s)
        /\ (k + i - 1) + 1 = k + (i + 1) - 1
    BY <1>1, <1>2
  <2>2. h[p[k + i - 1]].next = p[(k + i - 1) + 1]
    BY <2>1 DEF Cover, Path
  <2> QED
    BY <1>2, <2>1, <2>2
<1>5. Path(h, p[k], s)
  BY <1>1, <1>2, <1>3, <1>4 DEF Path, Cover
<1>6. p[k] \in DOMAIN h
  BY <1>1
<1> QED
  BY <1>5, <1>6, CoverLinks, CoverRanked, PathValues DEF s

(* What a path over all the nodes means for the properties. *)
LEMMA BoxSafe ==
  BoxInv => /\ Box!TypeOK /\ Box!AllOwned /\ Box!IteratesInOrder
            /\ ~Debug => Box!ShallowDrop
<1> SUFFICES ASSUME BoxInv PROVE Box!AllOwned /\ Box!IteratesInOrder
  BY DEF BoxInv, Box!ShallowDrop
<1>1. NULL \notin DOMAIN boxes /\ Box!TypeOK
  BY BoxFacts
<1>2. PICK p : BoxAt(p)
  BY DEF BoxInv
<1>3. Cover(boxes, BoxStart, p) /\ p \in Seq(DOMAIN boxes) /\ Len(p) \in Nat
  BY <1>2 DEF BoxAt, Cover, Path
<1>4. Box!Contents = From(boxes)[BoxStart]
  BY ValuesFrom DEF Box!Contents, BoxStart
<1>5. Box!Contents = Elems(boxes, p) /\ Len(Box!Contents) = Cardinality(DOMAIN boxes)
  BY <1>1, <1>3, <1>4, CoverCounts
<1>6. Box!AllOwned
  BY <1>5 DEF Box!AllOwned, Cardinality, Box!Cardinality
<1>7. ASSUME mode \in {"iter", "iter_mut"} PROVE Elems(boxes, p) = boxSeen \o From(boxes)[boxCur]
  <2> DEFINE k == Len(boxSeen)
  <2>1. BoxSeenUpTo(p) /\ boxSeen \in Seq(Elem) /\ k \in Nat
    BY <1>1, <1>2, <1>7 DEF BoxAt, Box!TypeOK
  <2>2. k <= Len(p) /\ boxCur = (IF k = Len(p) THEN NULL ELSE p[k + 1])
        /\ \A i \in 1..k : boxSeen[i] = boxes[p[i]].elem
    BY <2>1 DEF BoxSeenUpTo
  <2>3. CASE k = Len(p)
    <3>1. From(boxes)[NULL] = <<>>
      BY <1>1, <1>3, CoverLinks, CoverRanked, FromUnfolds
    <3>2. Elems(boxes, p) = boxSeen
      BY <1>3, <2>1, <2>2, <2>3 DEF Elems
    <3> QED
      BY <2>1, <2>2, <2>3, <3>1, <3>2
  <2>4. CASE k # Len(p)
    <3> DEFINE s == SubSeq(p, k + 1, Len(p))
    <3>1. k + 1 \in 1..Len(p) /\ From(boxes)[p[k + 1]] = Elems(boxes, s)
      BY <1>1, <1>3, <2>1, <2>2, <2>4, Rest
    <3>2. Len(s) = Len(p) - k /\ \A i \in 1..Len(s) : s[i] = p[k + i]
      BY <1>3, <2>1, <3>1
    <3> HIDE DEF s
    <3> DEFINE t == Elems(boxes, s)
               x == Elems(boxes, p)
    <3>3. /\ Len(t) = Len(p) - k /\ \A i \in 1..Len(p) - k : t[i] = boxes[p[k + i]].elem
      BY <1>3, <2>1, <2>2, <3>2 DEF Elems
    <3>4. /\ Len(x) = Len(p) /\ \A i \in 1..Len(p) : x[i] = boxes[p[i]].elem
          /\ x \in Seq(Elem) /\ t \in Seq(Elem)
      <4>1. \A n \in DOMAIN boxes : boxes[n].elem \in Elem
        BY BoxFacts
      <4>2. \A i \in 1..Len(s) : s[i] \in DOMAIN boxes
        BY <1>3, <2>1, <2>2, <3>2
      <4>3. Len(s) \in Nat
        BY <1>3, <2>1, <2>2, <3>2
      <4> QED
        BY <1>3, <4>1, <4>2, <4>3 DEF Elems
    <3> HIDE DEF t, x
    <3>5. x = boxSeen \o t
      <4>1. Len(boxSeen \o t) = Len(p)
        BY <1>3, <2>1, <3>3, <3>4
      <4>2. \A i \in 1..Len(p) : (boxSeen \o t)[i] = x[i]
        BY <1>3, <2>1, <2>2, <3>3, <3>4
      <4> QED
        <5>1. boxSeen \o t \in Seq(Elem)
          BY <2>1, <3>4
        <5> QED
          BY <3>4, <4>1, <4>2, <5>1, SeqEqual
    <3> QED
      BY <2>2, <2>4, <3>1, <3>5 DEF t, x
  <2> QED
    BY <2>3, <2>4
<1>8. Box!IteratesInOrder
  BY <1>5, <1>7, ValuesFrom DEF Box!IteratesInOrder
<1> QED
  BY <1>6, <1>8

-----------------------------------------------------------------------------
(* The instances have a cardinality of their own. *)
LEMMA SameCardinality ==
  \A S : Rc!Cardinality(S) = Cardinality(S) /\ Deque!Cardinality(S) = Cardinality(S)
BY DEF Cardinality, Rc!Cardinality, Deque!Cardinality

(* How often a function has a value; the nexts of a heap as one.           *)
CountIn(f, n) == Cardinality({x \in DOMAIN f : f[x] = n})
Nexts(h) == [m \in DOMAIN h |-> h[m].next]

(* A count is 0 when the function never has the value. *)
LEMMA CountIsNat ==
  ASSUME NEW f, IsFiniteSet(DOMAIN f), NEW n
  PROVE  /\ CountIn(f, n) \in Nat
         /\ CountIn(f, n) = 0 <=> \A x \in DOMAIN f : f[x] # n
<1> DEFINE S == {x \in DOMAIN f : f[x] = n}
<1>1. IsFiniteSet(S)
  BY FS_Subset
<1>2. Cardinality(S) \in Nat /\ (Cardinality(S) = 0 <=> S = {})
  BY <1>1, FS_CardinalityType, FS_EmptySet
<1> QED
  BY <1>2 DEF CountIn

(* One more argument adds one to the count of its value. *)
LEMMA CountOneMore ==
  ASSUME NEW f, IsFiniteSet(DOMAIN f), NEW k, k \notin DOMAIN f, NEW g,
         DOMAIN g = DOMAIN f \cup {k}, \A x \in DOMAIN f : g[x] = f[x]
  PROVE  /\ IsFiniteSet(DOMAIN g)
         /\ \A n : CountIn(g, n) = CountIn(f, n) + IF g[k] = n THEN 1 ELSE 0
<1>1. IsFiniteSet(DOMAIN g)
  BY FS_AddElement
<1>2. ASSUME NEW n PROVE CountIn(g, n) = CountIn(f, n) + IF g[k] = n THEN 1 ELSE 0
  <2> DEFINE S == {x \in DOMAIN f : f[x] = n}
             T == {x \in DOMAIN g : g[x] = n}
  <2>1. IsFiniteSet(S) /\ k \notin S /\ Cardinality(S) \in Nat
    BY FS_Subset, FS_CardinalityType
  <2>2. T = IF g[k] = n THEN S \cup {k} ELSE S
    OBVIOUS
  <2> HIDE DEF S, T
  <2>3. Cardinality(S \cup {k}) = Cardinality(S) + 1
    BY <2>1, FS_AddElement
  <2>4. Cardinality(T) = Cardinality(S) + IF g[k] = n THEN 1 ELSE 0
    BY <2>1, <2>2, <2>3
  <2> QED
    BY <2>4 DEF CountIn, S, T
<1> QED
  BY <1>1, <1>2

-----------------------------------------------------------------------------
(* third.rs. A segment is what comes before a link; an iterator has seen   *)
(* the segment before its next. The heap has no cycle, and its counts are  *)
(* those of its owners.                                                    *)
Segment(h, l, q, m) ==
  /\ q \in Seq(DOMAIN h)
  /\ q = <<>> => l = m
  /\ q # <<>> => q[1] = l /\ h[q[Len(q)]].next = m
  /\ \A i \in 1..Len(q) - 1 : h[q[i]].next = q[i + 1]

RcSeen(h) == \E q : /\ Segment(shared, lists[h], q, iters[h].next)
                    /\ iters[h].seen = Elems(shared, q)

RcOwners(n) == CountIn(lists, n) + CountIn(Nexts(shared), n) + IF sharedCur = n THEN 1 ELSE 0
RcCounts == \A n \in DOMAIN shared : shared[n].strong = RcOwners(n)

RcFits == /\ DOMAIN shared \subseteq Node
          /\ shared \in [DOMAIN shared -> [elem : Elem, next : DOMAIN shared \cup {NULL}, strong : Nat \ {0}]]
          /\ IsFiniteSet(DOMAIN shared)
          /\ \E r, b : Ranked(shared, r, b)

RcInv == /\ Rc!TypeOK
         /\ RcFits
         /\ IsFiniteSet(DOMAIN lists)
         /\ RcCounts
         /\ ~sharedDrops => sharedCur = NULL
         /\ \A h \in DOMAIN iters : RcSeen(h)

(* What the invariant says of nodes, lists and counts, for the steps. *)
LEMMA RcFacts ==
  ASSUME RcInv
  PROVE  /\ NULL \notin DOMAIN shared /\ Linked(shared) /\ Rc!TypeOK
         /\ IsFiniteSet(DOMAIN shared) /\ IsFiniteSet(DOMAIN lists)
         /\ \A n \in DOMAIN shared : /\ shared[n].strong = RcOwners(n) /\ n # NULL /\ n \in Node
                                     /\ shared[n] \in [elem : Elem, next : DOMAIN shared \cup {NULL}, strong : Nat \ {0}]
         /\ \A h \in DOMAIN lists : lists[h] \in DOMAIN shared \cup {NULL}
         /\ sharedCur \in DOMAIN shared \cup {NULL}
         /\ \A n : CountIn(lists, n) \in Nat /\ CountIn(Nexts(shared), n) \in Nat
<1>1. NULL \notin DOMAIN shared /\ Rc!TypeOK /\ RcFits /\ RcCounts /\ IsFiniteSet(DOMAIN lists)
  BY NullIsNoNode DEF RcInv, RcFits
<1>2. IsFiniteSet(DOMAIN shared) /\ DOMAIN Nexts(shared) = DOMAIN shared
  BY <1>1 DEF RcFits, Nexts
<1>3. \A n : CountIn(lists, n) \in Nat /\ CountIn(Nexts(shared), n) \in Nat
  BY <1>1, <1>2, CountIsNat
<1>4. \A n \in DOMAIN shared : shared[n] \in [elem : Elem, next : DOMAIN shared \cup {NULL}, strong : Nat \ {0}]
  BY <1>1 DEF RcFits
<1>5. Linked(shared)
  BY <1>1, <1>4 DEF Linked
<1>6. sharedCur \in DOMAIN shared \cup {NULL} /\ \A h \in DOMAIN lists : lists[h] \in DOMAIN shared \cup {NULL}
  BY <1>1 DEF Rc!TypeOK, Rc!Link
<1> QED
  BY <1>1, <1>2, <1>3, <1>4, <1>5, <1>6 DEF RcCounts, RcFits

(* There is no list and no node yet. *)
LEMMA RcInit == Rc!Init => RcInv
<1> SUFFICES ASSUME Rc!Init PROVE RcInv
  OBVIOUS
<1>1. shared = Rc!Empty /\ DOMAIN shared = {} /\ DOMAIN lists = {} /\ DOMAIN iters = {}
      /\ shared = [x \in {} |-> x] /\ lists = [x \in {} |-> x] /\ iters = [x \in {} |-> x]
      /\ sharedDrops = FALSE /\ sharedCur = NULL
  BY DEF Rc!Init, Rc!Empty
<1>2. Ranked(shared, [x \in {} |-> 0], 0)
  BY <1>1 DEF Ranked
<1>3. IsFiniteSet({})
  BY FS_EmptySet
<1>4. RcFits
  BY <1>1, <1>2, <1>3 DEF RcFits
<1>5. Rc!TypeOK
  BY <1>1 DEF Rc!TypeOK, Rc!Link
<1> QED
  BY <1>1, <1>3, <1>4, <1>5 DEF RcInv, RcCounts

(* A program that uses another list leaves these alone. *)
LEMMA RcIdle == RcInv /\ UNCHANGED rcVars => RcInv'
<1> SUFFICES ASSUME RcInv, UNCHANGED rcVars PROVE RcInv'
  OBVIOUS
<1>1. shared' = shared /\ lists' = lists /\ sharedDrops' = sharedDrops /\ sharedCur' = sharedCur
      /\ iters' = iters
  BY DEF rcVars
<1>2. Rc!TypeOK' /\ RcFits' /\ RcCounts' /\ (\A h \in DOMAIN iters : RcSeen(h)')
  BY <1>1 DEF RcInv, Rc!TypeOK, Rc!Link, RcFits, RcCounts, RcOwners, RcSeen
<1> QED
  BY <1>1, <1>2 DEF RcInv

(* What an iterator has seen stays where it is while no node of it goes. *)
LEMMA RcSeenKept ==
  ASSUME NEW h, RcSeen(h), lists'[h] = lists[h], iters'[h] = iters[h],
         \A q : Segment(shared, lists[h], q, iters[h].next) =>
                  \A i \in 1..Len(q) : q[i] \in DOMAIN shared',
         \A n \in DOMAIN shared \cap DOMAIN shared' :
           shared'[n].elem = shared[n].elem /\ shared'[n].next = shared[n].next
  PROVE  RcSeen(h)'
<1>1. PICK q : Segment(shared, lists[h], q, iters[h].next) /\ iters[h].seen = Elems(shared, q)
  BY DEF RcSeen
<1>2. q \in Seq(DOMAIN shared) /\ Len(q) \in Nat /\ \A i \in 1..Len(q) : q[i] \in DOMAIN shared \cap DOMAIN shared'
  BY <1>1 DEF Segment
<1>3. q \in Seq(DOMAIN shared')
  BY <1>2
<1>4. Elems(shared', q) = Elems(shared, q)
  BY <1>2 DEF Elems
<1>5. \A i \in 1..Len(q) : shared'[q[i]].next = shared[q[i]].next
  BY <1>2
<1>6. (q # <<>> => Len(q) \in 1..Len(q)) /\ \A i \in 1..Len(q) - 1 : i \in 1..Len(q)
  BY <1>2
<1>7. /\ q = <<>> => lists[h] = iters[h].next
      /\ q # <<>> => q[1] = lists[h] /\ shared[q[Len(q)]].next = iters[h].next
      /\ \A i \in 1..Len(q) - 1 : shared[q[i]].next = q[i + 1]
  BY <1>1 DEF Segment
<1>8. Segment(shared', lists[h], q, iters[h].next)
  BY <1>3, <1>5, <1>6, <1>7 DEF Segment
<1> QED
  BY <1>1, <1>4, <1>8 DEF RcSeen

(* New, tail, drop's first step, and the calls of an iterator: no node is  *)
(* made or freed.                                                          *)
RcSameNodes == /\ DOMAIN shared' = DOMAIN shared
               /\ \A n \in DOMAIN shared : /\ shared'[n].elem = shared[n].elem
                                           /\ shared'[n].next = shared[n].next

(* A step that only counts keeps the heap free of cycles. *)
LEMMA RcFitsKept ==
  ASSUME RcInv, RcSameNodes,
         shared' \in [DOMAIN shared -> [elem : Elem, next : DOMAIN shared \cup {NULL}, strong : Nat \ {0}]]
  PROVE  RcFits' /\ Nexts(shared') = Nexts(shared)
<1>1. PICK r, b : Ranked(shared, r, b)
  BY DEF RcInv, RcFits
<1>2. Ranked(shared', r, b)
  BY <1>1 DEF Ranked, RcSameNodes
<1>3. Nexts(shared') = Nexts(shared)
  BY DEF Nexts, RcSameNodes
<1> QED
  BY <1>2, <1>3 DEF RcInv, RcFits, RcSameNodes

(* A list that begins at a link, with a count of its own. *)
LEMMA RcBinds ==
  ASSUME RcInv, NEW h \in Handle \ DOMAIN lists, NEW l \in DOMAIN shared \cup {NULL},
         Rc!Bind(h, l), shared' = Rc!Clone(l), ~sharedDrops,
         sharedDrops' = sharedDrops, sharedCur' = sharedCur, iters' = iters
  PROVE  RcInv'
<1>1. /\ lists' = [x \in DOMAIN lists \cup {h} |-> IF x = h THEN l ELSE lists[x]]
      /\ shared' = IF l = NULL THEN shared ELSE [shared EXCEPT ![l].strong = @ + 1]
  BY DEF Rc!Bind, Rc!Clone
<1>2. /\ DOMAIN lists' = DOMAIN lists \cup {h} /\ lists'[h] = l
      /\ \A x \in DOMAIN lists : lists'[x] = lists[x]
  BY <1>1
<1>3. /\ RcSameNodes
      /\ shared' \in [DOMAIN shared -> [elem : Elem, next : DOMAIN shared \cup {NULL}, strong : Nat \ {0}]]
      /\ \A n \in DOMAIN shared : shared'[n].strong = shared[n].strong + IF l = n THEN 1 ELSE 0
  <2>1. shared \in [DOMAIN shared -> [elem : Elem, next : DOMAIN shared \cup {NULL}, strong : Nat \ {0}]]
    BY DEF RcInv, RcFits
  <2>2. CASE l = NULL
    BY <1>1, <2>1, <2>2, RcFacts DEF RcSameNodes
  <2>3. CASE l # NULL
    <3>1. l \in DOMAIN shared /\ shared' = [shared EXCEPT ![l].strong = @ + 1]
      BY <1>1, <2>3
    <3> QED
      BY <2>1, <3>1 DEF RcSameNodes
  <2> QED
    BY <2>2, <2>3
<1>4. RcFits' /\ Nexts(shared') = Nexts(shared)
  BY <1>3, RcFitsKept
<1>5. IsFiniteSet(DOMAIN lists') /\ \A n : CountIn(lists', n) = CountIn(lists, n) + IF l = n THEN 1 ELSE 0
  <2>1. IsFiniteSet(DOMAIN lists) /\ h \notin DOMAIN lists
    BY RcFacts
  <2> QED
    BY <1>2, <2>1, CountOneMore
<1>6. RcCounts'
  <2>1. ASSUME NEW n \in DOMAIN shared' PROVE shared'[n].strong = RcOwners(n)'
    <3>1. n \in DOMAIN shared /\ shared[n].strong = RcOwners(n)
      BY <1>3, RcFacts DEF RcSameNodes
    <3>2. shared'[n].strong = RcOwners(n) + IF l = n THEN 1 ELSE 0
      BY <1>3, <3>1
    <3>3. CountIn(lists, n) \in Nat /\ CountIn(Nexts(shared), n) \in Nat
      BY RcFacts
    <3> QED
      BY <1>4, <1>5, <3>2, <3>3 DEF RcOwners
  <2> QED
    BY <2>1 DEF RcCounts
<1>7. ASSUME NEW x \in DOMAIN iters' PROVE RcSeen(x)'
  <2>1. x \in DOMAIN lists /\ RcSeen(x)
    BY <1>7 DEF RcInv, Rc!TypeOK
  <2>2. \A q : Segment(shared, lists[x], q, iters[x].next) => \A i \in 1..Len(q) : q[i] \in DOMAIN shared'
    BY <1>3 DEF Segment, RcSameNodes
  <2> QED
    BY <1>2, <1>3, <2>1, <2>2, RcSeenKept DEF RcSameNodes
<1>8. Rc!TypeOK'
  <2>1. DOMAIN lists' \subseteq Handle /\ lists' \in [DOMAIN lists' -> DOMAIN shared' \cup {NULL}]
    BY <1>1, <1>2, <1>3, RcFacts DEF Rc!TypeOK, RcSameNodes
  <2> QED
    BY <1>2, <1>3, <2>1 DEF RcInv, Rc!TypeOK, Rc!Link, RcSameNodes
<1> QED
  BY <1>4, <1>5, <1>6, <1>7, <1>8 DEF RcInv

(* A new node before a list. *)
LEMMA RcAppends ==
  ASSUME RcInv, NEW g \in DOMAIN lists, NEW e \in Elem, NEW h \in Handle, Rc!ListAppend(g, e, h)
  PROVE  RcInv'
<1> DEFINE l == lists[g]
<1>1. PICK n \in Node \ DOMAIN shared :
        /\ shared' = [m \in DOMAIN shared \cup {n} |->
                        IF m = n THEN [elem |-> e, next |-> l, strong |-> 1] ELSE Rc!Clone(l)[m]]
        /\ Rc!Bind(h, n)
  BY DEF Rc!ListAppend
<1>2. /\ ~sharedDrops /\ h \notin DOMAIN lists /\ sharedDrops' = sharedDrops /\ sharedCur' = sharedCur
      /\ iters' = iters /\ l \in DOMAIN shared \cup {NULL} /\ sharedCur = NULL /\ n # NULL
  BY RcFacts, NullIsNoNode DEF Rc!ListAppend, RcInv
<1> HIDE DEF l
<1>3. lists' = [x \in DOMAIN lists \cup {h} |-> IF x = h THEN n ELSE lists[x]]
  BY <1>1 DEF Rc!Bind
<1>4. /\ DOMAIN lists' = DOMAIN lists \cup {h} /\ lists'[h] = n
      /\ \A x \in DOMAIN lists : lists'[x] = lists[x]
  BY <1>2, <1>3
<1>5. /\ DOMAIN shared' = DOMAIN shared \cup {n} /\ shared'[n] = [elem |-> e, next |-> l, strong |-> 1]
      /\ \A m \in DOMAIN shared : /\ shared'[m].elem = shared[m].elem /\ shared'[m].next = shared[m].next
                                  /\ shared'[m].strong = shared[m].strong + IF l = m THEN 1 ELSE 0
                                  /\ shared'[m] \in [elem : Elem, next : DOMAIN shared \cup {NULL}, strong : Nat \ {0}]
  <2>1. \A m \in DOMAIN shared : shared'[m] = Rc!Clone(l)[m]
    BY <1>1
  <2>2. Rc!Clone(l) = IF l = NULL THEN shared ELSE [shared EXCEPT ![l].strong = @ + 1]
    BY DEF Rc!Clone
  <2>3. shared \in [DOMAIN shared -> [elem : Elem, next : DOMAIN shared \cup {NULL}, strong : Nat \ {0}]]
    BY DEF RcInv, RcFits
  <2>4. CASE l = NULL
    BY <1>1, <1>2, <2>1, <2>2, <2>3, <2>4, RcFacts
  <2>5. CASE l # NULL
    <3>1. l \in DOMAIN shared /\ \A m \in DOMAIN shared : shared'[m] = [shared EXCEPT ![l].strong = @ + 1][m]
      BY <1>2, <2>1, <2>2, <2>5
    <3> QED
      BY <1>1, <2>3, <3>1
  <2> QED
    BY <2>4, <2>5
<1>6. shared' \in [DOMAIN shared' -> [elem : Elem, next : DOMAIN shared' \cup {NULL}, strong : Nat \ {0}]]
  <2>1. shared' = [m \in DOMAIN shared' |-> shared'[m]]
    BY <1>1
  <2> QED
    BY <1>2, <1>5, <2>1
<1>7. IsFiniteSet(DOMAIN lists') /\ \A m : CountIn(lists', m) = CountIn(lists, m) + IF n = m THEN 1 ELSE 0
  <2>1. IsFiniteSet(DOMAIN lists)
    BY RcFacts
  <2> QED
    BY <1>2, <1>4, <2>1, CountOneMore
<1>8. IsFiniteSet(DOMAIN shared')
      /\ \A m : CountIn(Nexts(shared'), m) = CountIn(Nexts(shared), m) + IF l = m THEN 1 ELSE 0
  <2>1. /\ DOMAIN Nexts(shared) = DOMAIN shared /\ DOMAIN Nexts(shared') = DOMAIN shared \cup {n}
        /\ \A m \in DOMAIN shared : Nexts(shared')[m] = Nexts(shared)[m]
    BY <1>5 DEF Nexts
  <2>2. Nexts(shared')[n] = l
    BY <1>5 DEF Nexts
  <2>3. IsFiniteSet(DOMAIN shared) /\ n \notin DOMAIN shared
    BY <1>1, RcFacts
  <2>4. \A m : CountIn(Nexts(shared'), m) = CountIn(Nexts(shared), m) + IF l = m THEN 1 ELSE 0
    BY <2>1, <2>2, <2>3, CountOneMore
  <2> QED
    BY <1>5, <2>3, <2>4, FS_AddElement
<1>9. RcCounts'
  <2>1. ASSUME NEW m \in DOMAIN shared PROVE shared'[m].strong = RcOwners(m)'
    <3>1. shared'[m].strong = RcOwners(m) + IF l = m THEN 1 ELSE 0
      BY <1>5, RcFacts
    <3>2. CountIn(lists, m) \in Nat /\ CountIn(Nexts(shared), m) \in Nat /\ m # n
      BY <1>1, RcFacts
    <3> QED
      BY <1>2, <1>7, <1>8, <3>1, <3>2 DEF RcOwners
  <2>2. shared'[n].strong = RcOwners(n)'
    <3>1. \A x \in DOMAIN lists : lists[x] # n
      BY <1>1, <1>2, RcFacts
    <3>2. \A x \in DOMAIN Nexts(shared) : Nexts(shared)[x] # n
      BY <1>1, <1>2, RcFacts DEF Linked, Nexts
    <3>3. DOMAIN Nexts(shared) = DOMAIN shared
      BY DEF Nexts
    <3>4. CountIn(lists, n) = 0 /\ CountIn(Nexts(shared), n) = 0
      BY <3>1, <3>2, <3>3, RcFacts, CountIsNat
    <3>5. l # n
      BY <1>1, <1>2
    <3> QED
      BY <1>2, <1>5, <1>7, <1>8, <3>4, <3>5 DEF RcOwners
  <2> QED
    BY <1>5, <2>1, <2>2 DEF RcCounts
<1>10. RcFits'
  <2>1. PICK r, b : Ranked(shared, r, b)
    BY DEF RcInv, RcFits
  <2> DEFINE s == [m \in DOMAIN shared \cup {n} |-> IF m = n THEN b + 1 ELSE r[m]]
  <2>2. Ranked(shared', s, b + 1)
    <3>1. s \in [DOMAIN shared' -> 0..(b + 1)] /\ b + 1 \in Nat
      BY <1>5, <2>1 DEF Ranked
    <3>2. ASSUME NEW m \in DOMAIN shared', shared'[m].next \in DOMAIN shared'
          PROVE  s[shared'[m].next] < s[m]
      <4>1. CASE m = n
        <5>1. l \in DOMAIN shared /\ l # n /\ shared'[m].next = l
          BY <1>1, <1>2, <1>5, <3>2, <4>1, NullIsNoNode
        <5>2. s[l] = r[l] /\ s[m] = b + 1 /\ r[l] \in 0..b /\ b \in Nat
          BY <1>5, <2>1, <4>1, <5>1 DEF Ranked
        <5> QED
          BY <5>1, <5>2
      <4>2. CASE m # n
        <5>1. m \in DOMAIN shared /\ shared'[m].next = shared[m].next
          BY <1>5, <4>2
        <5>2. shared[m].next \in DOMAIN shared
          BY <1>2, <1>5, <3>2, <5>1, RcFacts DEF Linked
        <5> QED
          BY <1>1, <1>5, <2>1, <4>2, <5>1, <5>2 DEF Ranked
      <4> QED
        BY <4>1, <4>2
    <3> QED
      BY <3>1, <3>2 DEF Ranked
  <2>3. DOMAIN shared' \subseteq Node
    BY <1>5 DEF RcInv, RcFits
  <2> QED
    BY <1>6, <1>8, <2>2, <2>3 DEF RcFits
<1>11. ASSUME NEW x \in DOMAIN iters' PROVE RcSeen(x)'
  <2>1. x \in DOMAIN lists /\ RcSeen(x)
    BY <1>2, <1>11 DEF RcInv, Rc!TypeOK
  <2>2. \A q : Segment(shared, lists[x], q, iters[x].next) => \A i \in 1..Len(q) : q[i] \in DOMAIN shared'
    BY <1>5 DEF Segment
  <2> QED
    BY <1>2, <1>4, <1>5, <2>1, <2>2, RcSeenKept
<1>12. Rc!TypeOK'
  <2>1. DOMAIN lists' \subseteq Handle /\ lists' \in [DOMAIN lists' -> DOMAIN shared' \cup {NULL}]
    BY <1>3, <1>4, <1>5, RcFacts DEF Rc!TypeOK
  <2>2. iters \in [DOMAIN iters -> [seen : Seq(Elem), next : DOMAIN shared' \cup {NULL}]]
        /\ DOMAIN iters \subseteq DOMAIN lists'
    BY <1>4, <1>5, RcFacts DEF Rc!TypeOK, Rc!Link
  <2> QED
    BY <1>2, <1>6, <1>10, <2>1, <2>2, RcFacts DEF RcFits, Rc!TypeOK, Rc!Link
<1> QED
  BY <1>2, <1>7, <1>9, <1>10, <1>11, <1>12 DEF RcInv

(* new and tail: the new list owns one more link. *)
LEMMA RcTails ==
  ASSUME RcInv, NEW h \in Handle,
         Rc!New(h) \/ \E g \in DOMAIN lists : Rc!ListTail(g, h)
  PROVE  RcInv'
<1>1. CASE Rc!New(h)
  <2>1. /\ h \in Handle \ DOMAIN lists /\ Rc!Bind(h, NULL) /\ shared' = Rc!Clone(NULL) /\ ~sharedDrops
        /\ sharedDrops' = sharedDrops /\ sharedCur' = sharedCur /\ iters' = iters
    BY <1>1 DEF Rc!New, Rc!Clone
  <2> QED
    BY <2>1, RcBinds
<1>2. CASE \E g \in DOMAIN lists : Rc!ListTail(g, h)
  <2>1. PICK g \in DOMAIN lists : Rc!ListTail(g, h)
    BY <1>2
  <2> DEFINE l == IF lists[g] = NULL THEN NULL ELSE shared[lists[g]].next
  <2>2. l \in DOMAIN shared \cup {NULL}
    BY RcFacts DEF Linked
  <2>3. /\ h \in Handle \ DOMAIN lists /\ Rc!Bind(h, l) /\ shared' = Rc!Clone(l) /\ ~sharedDrops
        /\ sharedDrops' = sharedDrops /\ sharedCur' = sharedCur /\ iters' = iters
    BY <2>1 DEF Rc!ListTail
  <2> HIDE DEF l
  <2> QED
    BY <2>2, <2>3, RcBinds
<1> QED
  BY <1>1, <1>2

(* A list goes: the drop that runs for it owns its head. *)
LEMMA RcDrops ==
  ASSUME RcInv, NEW h \in DOMAIN lists, Rc!Drop(h)
  PROVE  RcInv'
<1>1. /\ lists' = [x \in DOMAIN lists \ {h} |-> lists[x]] /\ sharedCur' = lists[h] /\ sharedCur = NULL
      /\ h \notin DOMAIN iters /\ shared' = shared /\ iters' = iters /\ sharedDrops' = TRUE
  BY DEF Rc!Drop, RcInv
<1>2. /\ DOMAIN lists' = DOMAIN lists \ {h} /\ DOMAIN lists = DOMAIN lists' \cup {h} /\ h \notin DOMAIN lists'
      /\ \A x \in DOMAIN lists' : lists[x] = lists'[x]
  BY <1>1
<1>3. IsFiniteSet(DOMAIN lists')
  <2>1. DOMAIN lists' \subseteq DOMAIN lists /\ IsFiniteSet(DOMAIN lists)
    BY <1>2, RcFacts
  <2> QED
    BY <2>1, FS_Subset
<1>4. \A n : CountIn(lists', n) \in Nat
             /\ CountIn(lists, n) = CountIn(lists', n) + IF lists[h] = n THEN 1 ELSE 0
  <2>1. \A n : CountIn(lists, n) = CountIn(lists', n) + IF lists[h] = n THEN 1 ELSE 0
    <3>1. /\ DOMAIN lists = DOMAIN lists' \cup {h} /\ h \notin DOMAIN lists'
          /\ \A x \in DOMAIN lists' : lists[x] = lists'[x]
      BY <1>2
    <3> QED
      BY <1>3, <3>1, CountOneMore
  <2>2. \A n : CountIn(lists', n) \in Nat
    BY <1>3, CountIsNat
  <2> QED
    BY <2>1, <2>2
<1>5. RcCounts'
  <2>1. ASSUME NEW n \in DOMAIN shared PROVE shared[n].strong = RcOwners(n)'
    <3>1. shared[n].strong = RcOwners(n) /\ CountIn(Nexts(shared), n) \in Nat /\ n # NULL
      BY RcFacts
    <3>2. RcOwners(n)' = CountIn(lists', n) + CountIn(Nexts(shared), n) + IF lists[h] = n THEN 1 ELSE 0
      BY <1>1 DEF RcOwners
    <3>3. RcOwners(n) = CountIn(lists, n) + CountIn(Nexts(shared), n)
      BY <1>1, <3>1, RcFacts DEF RcOwners
    <3> QED
      BY <1>4, <3>1, <3>2, <3>3
  <2> QED
    BY <1>1, <2>1 DEF RcCounts
<1>6. RcFits'
  BY <1>1 DEF RcInv, RcFits
<1>7. ASSUME NEW x \in DOMAIN iters' PROVE RcSeen(x)'
  <2>1. x \in DOMAIN lists' /\ RcSeen(x)
    BY <1>1, <1>2, <1>7 DEF RcInv, Rc!TypeOK
  <2>2. lists'[x] = lists[x]
    BY <1>2, <2>1
  <2> QED
    BY <1>1, <2>1, <2>2 DEF RcSeen
<1>8. Rc!TypeOK'
  <2>1. lists[h] \in DOMAIN shared \cup {NULL} /\ \A x \in DOMAIN lists : lists[x] \in DOMAIN shared \cup {NULL}
    BY RcFacts
  <2>2. lists' \in [DOMAIN lists' -> DOMAIN shared \cup {NULL}]
    BY <1>1, <1>2, <2>1
  <2> QED
    BY <1>1, <1>2, <2>1, <2>2 DEF RcInv, Rc!TypeOK, Rc!Link
<1> QED
  BY <1>1, <1>3, <1>5, <1>6, <1>7, <1>8 DEF RcInv

(* A step of a drop: only a node without other owners is freed, and no     *)
(* iterator has come by such a node or will.                               *)
LEMMA RcFrees ==
  ASSUME RcInv, Rc!DropNext, sharedCur # NULL, shared[sharedCur].strong = 1
  PROVE  RcInv'
<1> DEFINE n == sharedCur
<1>1. /\ n \in DOMAIN shared /\ shared' = [m \in DOMAIN shared \ {n} |-> shared[m]]
      /\ sharedCur' = shared[n].next /\ sharedDrops' = sharedDrops /\ lists' = lists /\ iters' = iters
      /\ sharedDrops
  BY RcFacts DEF Rc!DropNext
<1>2. CountIn(lists, n) = 0 /\ CountIn(Nexts(shared), n) = 0
  <2>1. RcOwners(n) = 1 /\ CountIn(lists, n) \in Nat /\ CountIn(Nexts(shared), n) \in Nat
    BY <1>1, RcFacts
  <2> QED
    BY <2>1 DEF RcOwners
<1>3. DOMAIN Nexts(shared) = DOMAIN shared /\ \A m \in DOMAIN shared : Nexts(shared)[m] = shared[m].next
  BY DEF Nexts
<1>4. \A x \in DOMAIN lists : lists[x] # n
  BY <1>2, RcFacts, CountIsNat
<1>5. \A m \in DOMAIN shared : shared[m].next # n
  BY <1>2, <1>3, RcFacts, CountIsNat
<1>6. ASSUME NEW x \in DOMAIN lists, NEW q, NEW l, Segment(shared, lists[x], q, l)
      PROVE  l # n /\ \A i \in 1..Len(q) : q[i] # n
  <2>1. /\ q \in Seq(DOMAIN shared) /\ Len(q) \in Nat
        /\ q = <<>> => lists[x] = l
        /\ q # <<>> => q[1] = lists[x] /\ shared[q[Len(q)]].next = l
        /\ \A i \in 1..Len(q) - 1 : shared[q[i]].next = q[i + 1]
    BY <1>6 DEF Segment
  <2>2. l # n
    <3>1. CASE q = <<>>
      BY <1>4, <2>1, <3>1
    <3>2. CASE q # <<>>
      <4>1. q[Len(q)] \in DOMAIN shared
        BY <2>1, <3>2
      <4> QED
        BY <1>5, <2>1, <3>2, <4>1
    <3> QED
      BY <3>1, <3>2
  <2>3. ASSUME NEW i \in 1..Len(q) PROVE q[i] # n
    <3>1. CASE i = 1
      <4>1. q # <<>>
        BY <2>1
      <4> QED
        BY <1>4, <2>1, <3>1, <4>1
    <3>2. CASE i # 1
      <4>1. i - 1 \in 1..Len(q) - 1 /\ i - 1 \in 1..Len(q) /\ (i - 1) + 1 = i
        BY <2>1, <3>2
      <4>2. q[i] = shared[q[i - 1]].next /\ q[i - 1] \in DOMAIN shared
        BY <2>1, <4>1
      <4> QED
        BY <1>5, <4>2
    <3> QED
      BY <3>1, <3>2
  <2> QED
    BY <2>2, <2>3
<1>7. \A x \in DOMAIN iters : x \in DOMAIN lists /\ RcSeen(x)
  BY DEF RcInv, Rc!TypeOK
<1> HIDE DEF n
<1>8. /\ DOMAIN shared' = DOMAIN shared \ {n} /\ DOMAIN shared = DOMAIN shared' \cup {n}
      /\ \A m \in DOMAIN shared' : shared'[m] = shared[m]
  BY <1>1
<1>9. shared' \in [DOMAIN shared' -> [elem : Elem, next : DOMAIN shared' \cup {NULL}, strong : Nat \ {0}]]
  <2>1. ASSUME NEW m \in DOMAIN shared \ {n}
        PROVE  shared[m] \in [elem : Elem, next : DOMAIN shared' \cup {NULL}, strong : Nat \ {0}]
    <3>1. shared[m] \in [elem : Elem, next : DOMAIN shared \cup {NULL}, strong : Nat \ {0}] /\ shared[m].next # n
      BY <1>5, RcFacts
    <3> QED
      BY <1>8, <3>1
  <2> QED
    BY <1>1, <1>8, <2>1
<1>10. RcFits'
  <2>1. PICK r, b : Ranked(shared, r, b)
    BY DEF RcInv, RcFits
  <2>2. Ranked(shared', [m \in DOMAIN shared' |-> r[m]], b)
    BY <1>8, <2>1 DEF Ranked
  <2>3. IsFiniteSet(DOMAIN shared')
    <3>1. DOMAIN shared' \subseteq DOMAIN shared /\ IsFiniteSet(DOMAIN shared)
      BY <1>8, RcFacts
    <3> QED
      BY <3>1, FS_Subset
  <2>4. DOMAIN shared' \subseteq Node
    BY <1>8 DEF RcInv, RcFits
  <2> QED
    BY <1>9, <2>2, <2>3, <2>4 DEF RcFits
<1>11. RcCounts'
  <2>1. /\ DOMAIN Nexts(shared') = DOMAIN shared' /\ DOMAIN Nexts(shared) = DOMAIN Nexts(shared') \cup {n}
        /\ \A m \in DOMAIN Nexts(shared') : Nexts(shared)[m] = Nexts(shared')[m]
        /\ Nexts(shared)[n] = shared[n].next
    BY <1>1, <1>8 DEF Nexts
  <2>2. IsFiniteSet(DOMAIN Nexts(shared')) /\ n \notin DOMAIN Nexts(shared')
    BY <1>8, <1>10, <2>1 DEF RcFits
  <2>3. \A m : CountIn(Nexts(shared'), m) \in Nat
               /\ CountIn(Nexts(shared), m) = CountIn(Nexts(shared'), m) + IF shared[n].next = m THEN 1 ELSE 0
    BY <2>1, <2>2, CountOneMore, CountIsNat
  <2>4. ASSUME NEW m \in DOMAIN shared' PROVE shared'[m].strong = RcOwners(m)'
    <3>1. m \in DOMAIN shared /\ m # n /\ shared'[m] = shared[m] /\ shared[m].strong = RcOwners(m)
          /\ CountIn(lists, m) \in Nat
      BY <1>8, RcFacts
    <3>2. RcOwners(m)' = CountIn(lists, m) + CountIn(Nexts(shared'), m) + IF shared[n].next = m THEN 1 ELSE 0
      BY <1>1 DEF RcOwners
    <3>3. RcOwners(m) = CountIn(lists, m) + CountIn(Nexts(shared), m)
      BY <2>3, <3>1, RcFacts DEF RcOwners, n
    <3> QED
      BY <2>3, <3>1, <3>2, <3>3
  <2> QED
    BY <2>4 DEF RcCounts
<1>12. ASSUME NEW x \in DOMAIN iters' PROVE RcSeen(x)'
  <2>1. x \in DOMAIN lists /\ RcSeen(x)
    BY <1>1, <1>7, <1>12
  <2>2. \A q : Segment(shared, lists[x], q, iters[x].next) => \A i \in 1..Len(q) : q[i] \in DOMAIN shared'
    <3>1. \A q : Segment(shared, lists[x], q, iters[x].next) => \A i \in 1..Len(q) : q[i] \in DOMAIN shared
      BY DEF Segment
    <3> QED
      BY <1>6, <1>8, <2>1, <3>1
  <2> QED
    BY <1>1, <1>8, <2>1, <2>2, RcSeenKept
<1>13. Rc!TypeOK'
  <2>1. lists \in [DOMAIN lists -> DOMAIN shared' \cup {NULL}] /\ DOMAIN lists \subseteq Handle
    BY <1>4, <1>8, RcFacts DEF Rc!TypeOK, Rc!Link
  <2>2. shared[n].next \in DOMAIN shared' \cup {NULL}
    BY <1>1, <1>5, <1>8, RcFacts DEF Linked
  <2>3. ASSUME NEW x \in DOMAIN iters PROVE iters[x].next # n
    <3>1. PICK q : Segment(shared, lists[x], q, iters[x].next)
      BY <1>7 DEF RcSeen
    <3> QED
      BY <1>6, <1>7, <3>1
  <2>4. iters \in [DOMAIN iters -> [seen : Seq(Elem), next : DOMAIN shared' \cup {NULL}]]
        /\ DOMAIN iters \subseteq DOMAIN lists /\ sharedDrops \in BOOLEAN
    BY <1>8, <2>3, RcFacts DEF Rc!TypeOK, Rc!Link
  <2> QED
    BY <1>1, <1>9, <1>10, <2>1, <2>2, <2>4 DEF RcFits, Rc!TypeOK, Rc!Link
<1> QED
  BY <1>1, <1>10, <1>11, <1>12, <1>13, RcFacts DEF RcInv

(* Every step of a drop keeps counts and iterators right. *)
LEMMA RcDropsOn ==
  ASSUME RcInv, Rc!DropNext
  PROVE  RcInv'
<1>1. sharedDrops /\ lists' = lists /\ iters' = iters
  BY DEF Rc!DropNext
<1>2. CASE sharedCur = NULL
  <2>1. sharedDrops' = FALSE /\ shared' = shared /\ sharedCur' = NULL
    BY <1>2 DEF Rc!DropNext
  <2>2. RcFits' /\ RcCounts' /\ (\A x \in DOMAIN iters : RcSeen(x)') /\ Rc!TypeOK'
    BY <1>1, <1>2, <2>1 DEF RcInv, RcFits, RcCounts, RcOwners, RcSeen, Rc!TypeOK, Rc!Link
  <2> QED
    BY <1>1, <2>1, <2>2 DEF RcInv
<1>3. CASE sharedCur # NULL /\ shared[sharedCur].strong = 1
  BY <1>3, RcFrees
<1>4. CASE sharedCur # NULL /\ shared[sharedCur].strong # 1
  <2> DEFINE n == sharedCur
  <2>1. /\ n \in DOMAIN shared /\ shared' = [shared EXCEPT ![n].strong = @ - 1] /\ sharedCur' = NULL
        /\ sharedDrops' = sharedDrops
    BY <1>4, RcFacts DEF Rc!DropNext
  <2>2. shared \in [DOMAIN shared -> [elem : Elem, next : DOMAIN shared \cup {NULL}, strong : Nat \ {0}]]
        /\ shared[n].strong \in Nat /\ shared[n].strong # 0 /\ shared[n].strong # 1
    BY <1>4, <2>1 DEF RcInv, RcFits
  <2> HIDE DEF n
  <2>3. /\ RcSameNodes
        /\ shared' \in [DOMAIN shared -> [elem : Elem, next : DOMAIN shared \cup {NULL}, strong : Nat \ {0}]]
        /\ \A m \in DOMAIN shared : shared[m].strong = shared'[m].strong + IF n = m THEN 1 ELSE 0
    BY <2>1, <2>2 DEF RcSameNodes
  <2>4. RcFits' /\ Nexts(shared') = Nexts(shared)
    BY <2>3, RcFitsKept
  <2>5. RcCounts'
    <3>1. ASSUME NEW m \in DOMAIN shared' PROVE shared'[m].strong = RcOwners(m)'
      <4>1. m \in DOMAIN shared /\ shared[m].strong = RcOwners(m) /\ m # NULL
            /\ CountIn(lists, m) \in Nat /\ CountIn(Nexts(shared), m) \in Nat
        BY <2>3, RcFacts DEF RcSameNodes
      <4>2. RcOwners(m)' = CountIn(lists, m) + CountIn(Nexts(shared), m)
        BY <1>1, <2>1, <2>4, <4>1 DEF RcOwners
      <4>3. RcOwners(m) = CountIn(lists, m) + CountIn(Nexts(shared), m) + IF n = m THEN 1 ELSE 0
        BY DEF RcOwners, n
      <4>4. shared'[m].strong \in Nat
        BY <2>3, <4>1
      <4> QED
        BY <2>3, <4>1, <4>2, <4>3, <4>4
    <3> QED
      BY <3>1 DEF RcCounts
  <2>6. ASSUME NEW x \in DOMAIN iters' PROVE RcSeen(x)'
    <3>1. RcSeen(x)
      BY <1>1, <2>6 DEF RcInv
    <3>2. \A q : Segment(shared, lists[x], q, iters[x].next) => \A i \in 1..Len(q) : q[i] \in DOMAIN shared'
      BY <2>3 DEF Segment, RcSameNodes
    <3> QED
      BY <1>1, <2>3, <3>1, <3>2, RcSeenKept DEF RcSameNodes
  <2>7. Rc!TypeOK'
    BY <1>1, <2>1, <2>3 DEF RcInv, Rc!TypeOK, Rc!Link, RcSameNodes
  <2> QED
    BY <1>1, <2>1, <2>4, <2>5, <2>6, <2>7 DEF RcInv
<1> QED
  BY <1>2, <1>3, <1>4

(* The calls of an iterator. *)
LEMMA RcIterates ==
  ASSUME RcInv, UNCHANGED <<shared, lists, sharedDrops, sharedCur>>, NEW h \in DOMAIN lists,
         NEW q, NEW l \in DOMAIN shared \cup {NULL}, Segment(shared, lists[h], q, l),
         Rc!SetIter(h, [seen |-> Elems(shared, q), next |-> l])
  PROVE  RcInv'
<1> DEFINE it == [seen |-> Elems(shared, q), next |-> l]
<1>1. q \in Seq(DOMAIN shared) /\ Len(q) \in Nat
  BY DEF Segment
<1>2. Elems(shared, q) \in Seq(Elem)
  <2>1. \A i \in 1..Len(q) : shared[q[i]].elem \in Elem
    BY <1>1, RcFacts
  <2> QED
    BY <1>1, <2>1 DEF Elems
<1>3. it \in [seen : Seq(Elem), next : DOMAIN shared \cup {NULL}] /\ it.next = l /\ it.seen = Elems(shared, q)
  BY <1>2
<1>4. iters' = [x \in DOMAIN iters \cup {h} |-> IF x = h THEN it ELSE iters[x]]
  BY DEF Rc!SetIter
<1> HIDE DEF it
<1>5. /\ DOMAIN iters' = DOMAIN iters \cup {h} /\ iters'[h] = it
      /\ \A x \in DOMAIN iters \ {h} : iters'[x] = iters[x]
  BY <1>4
<1>6. RcFits' /\ RcCounts'
  BY DEF RcInv, RcFits, RcCounts, RcOwners
<1>7. ASSUME NEW x \in DOMAIN iters' PROVE RcSeen(x)'
  <2>1. CASE x = h
    BY <1>3, <1>5, <2>1 DEF RcSeen
  <2>2. CASE x # h
    <3>1. x \in DOMAIN iters \ {h} /\ RcSeen(x)
      BY <1>5, <1>7, <2>2 DEF RcInv
    <3>2. iters'[x] = iters[x]
      BY <1>5, <3>1
    <3> QED
      BY <3>1, <3>2 DEF RcSeen
  <2> QED
    BY <2>1, <2>2
<1>8. Rc!TypeOK'
  <2>1. iters \in [DOMAIN iters -> [seen : Seq(Elem), next : DOMAIN shared \cup {NULL}]]
        /\ DOMAIN iters \subseteq DOMAIN lists
    BY DEF RcInv, Rc!TypeOK, Rc!Link
  <2>2. iters' \in [DOMAIN iters' -> [seen : Seq(Elem), next : DOMAIN shared \cup {NULL}]]
        /\ DOMAIN iters' \subseteq DOMAIN lists
    BY <1>3, <1>4, <1>5, <2>1
  <2> QED
    BY <2>2 DEF RcInv, Rc!TypeOK, Rc!Link
<1> QED
  BY <1>6, <1>7, <1>8 DEF RcInv

(* iter, next and the end of an iterator. *)
LEMMA RcCalls ==
  ASSUME RcInv, \/ \E h \in DOMAIN lists : Rc!Iter(h)
                \/ \E h \in DOMAIN iters : Rc!IterNext(h) \/ Rc!EndIter(h)
  PROVE  RcInv'
<1>1. ASSUME NEW h \in DOMAIN lists, Rc!Iter(h) PROVE RcInv'
  <2>1. Elems(shared, <<>>) = <<>> /\ Segment(shared, lists[h], <<>>, lists[h])
    BY DEF Elems, Segment
  <2>2. UNCHANGED <<shared, lists, sharedDrops, sharedCur>>
        /\ Rc!SetIter(h, [seen |-> Elems(shared, <<>>), next |-> lists[h]])
    BY <1>1, <2>1 DEF Rc!Iter
  <2>3. lists[h] \in DOMAIN shared \cup {NULL}
    BY RcFacts
  <2> QED
    BY <2>1, <2>2, <2>3, RcIterates
<1>2. ASSUME NEW h \in DOMAIN iters, Rc!IterNext(h) PROVE RcInv'
  <2> DEFINE n == iters[h].next
  <2>1. h \in DOMAIN lists /\ n \in DOMAIN shared
    BY <1>2 DEF Rc!IterNext, RcInv, Rc!TypeOK, Rc!Link
  <2>2. PICK q : Segment(shared, lists[h], q, n) /\ iters[h].seen = Elems(shared, q)
    BY DEF RcInv, RcSeen
  <2>3. /\ UNCHANGED <<shared, lists, sharedDrops, sharedCur>>
        /\ Rc!SetIter(h, [seen |-> Append(iters[h].seen, shared[n].elem), next |-> shared[n].next])
    BY <1>2 DEF Rc!IterNext
  <2>4. shared[n].next \in DOMAIN shared \cup {NULL}
    BY <2>1, RcFacts DEF Linked
  <2> HIDE DEF n
  <2> DEFINE s == Append(q, n)
  <2>5. /\ q \in Seq(DOMAIN shared) /\ Len(q) \in Nat
        /\ q = <<>> => lists[h] = n
        /\ q # <<>> => q[1] = lists[h] /\ shared[q[Len(q)]].next = n
        /\ \A i \in 1..Len(q) - 1 : shared[q[i]].next = q[i + 1]
    BY <2>2 DEF Segment
  <2>6. /\ s \in Seq(DOMAIN shared) /\ Len(s) = Len(q) + 1 /\ s[Len(q) + 1] = n
        /\ \A i \in 1..Len(q) : s[i] = q[i]
    BY <2>1, <2>5
  <2>7. Elems(shared, s) = Append(Elems(shared, q), shared[n].elem)
    <3>1. Len(Elems(shared, q)) = Len(q) /\ DOMAIN Elems(shared, q) = 1..Len(q)
      BY <2>5 DEF Elems
    <3> QED
      BY <2>5, <2>6 DEF Elems
  <2> HIDE DEF s
  <2>8. Segment(shared, lists[h], s, shared[n].next)
    <3>1. s # <<>> /\ Len(q) + 1 \in 1..Len(s)
      BY <2>5, <2>6
    <3>2. s[1] = lists[h]
      <4>1. CASE q = <<>>
        BY <2>5, <2>6, <4>1
      <4>2. CASE q # <<>>
        <5>1. 1 \in 1..Len(q)
          BY <2>5, <4>2
        <5> QED
          BY <2>5, <2>6, <4>2, <5>1
      <4> QED
        BY <4>1, <4>2
    <3>3. ASSUME NEW i \in 1..Len(s) - 1 PROVE shared[s[i]].next = s[i + 1]
      <4>1. CASE i = Len(q)
        <5>1. q # <<>> /\ s[i] = q[i] /\ s[i + 1] = n
          BY <2>5, <2>6, <4>1
        <5> QED
          BY <2>5, <4>1, <5>1
      <4>2. CASE i # Len(q)
        <5>1. i \in 1..Len(q) - 1 /\ i \in 1..Len(q) /\ i + 1 \in 1..Len(q)
          BY <2>5, <2>6, <4>2
        <5> QED
          BY <2>5, <2>6, <5>1
      <4> QED
        BY <4>1, <4>2
    <3> QED
      BY <2>6, <3>1, <3>2, <3>3 DEF Segment
  <2>9. Rc!SetIter(h, [seen |-> Elems(shared, s), next |-> shared[n].next])
    BY <2>2, <2>3, <2>7
  <2> QED
    BY <2>1, <2>3, <2>4, <2>8, <2>9, RcIterates
<1>3. ASSUME NEW h \in DOMAIN iters, Rc!EndIter(h) PROVE RcInv'
  <2>1. /\ UNCHANGED <<shared, lists, sharedDrops, sharedCur>>
        /\ iters' = [x \in DOMAIN iters \ {h} |-> iters[x]]
    BY <1>3 DEF Rc!EndIter
  <2>2. DOMAIN iters' \subseteq DOMAIN iters /\ \A x \in DOMAIN iters' : iters'[x] = iters[x]
    BY <2>1
  <2>3. RcFits' /\ RcCounts'
    BY <2>1 DEF RcInv, RcFits, RcCounts, RcOwners
  <2>4. \A x \in DOMAIN iters' : RcSeen(x)'
    BY <2>1, <2>2 DEF RcInv, RcSeen
  <2>5. Rc!TypeOK'
    <3>1. iters \in [DOMAIN iters -> [seen : Seq(Elem), next : DOMAIN shared \cup {NULL}]]
          /\ DOMAIN iters \subseteq DOMAIN lists
      BY DEF RcInv, Rc!TypeOK, Rc!Link
    <3>2. iters' \in [DOMAIN iters' -> [seen : Seq(Elem), next : DOMAIN shared \cup {NULL}]]
          /\ DOMAIN iters' \subseteq DOMAIN lists
      BY <2>1, <2>2, <3>1
    <3> QED
      BY <2>1, <3>2 DEF RcInv, Rc!TypeOK, Rc!Link
  <2> QED
    BY <2>1, <2>3, <2>4, <2>5 DEF RcInv
<1> QED
  BY <1>1, <1>2, <1>3

(* Every step keeps the invariant of the shared lists. *)
LEMMA RcStep == RcInv /\ Rc!Next => RcInv'
<1> SUFFICES ASSUME RcInv, Rc!Next PROVE RcInv'
  OBVIOUS
<1>1. CASE Rc!DropNext
  BY <1>1, RcDropsOn
<1>2. CASE \E h \in Handle : Rc!New(h)
  BY <1>2, RcTails
<1>3. CASE \E g \in DOMAIN lists, h \in Handle :
             Rc!ListTail(g, h) \/ \E e \in Elem : Rc!ListAppend(g, e, h)
  BY <1>3, RcTails, RcAppends
<1>4. CASE \E h \in DOMAIN lists : Rc!Drop(h) \/ Rc!Iter(h)
  BY <1>4, RcDrops, RcCalls
<1>5. CASE \E h \in DOMAIN iters : Rc!IterNext(h) \/ Rc!EndIter(h)
  BY <1>5, RcCalls
<1> QED
  BY <1>1, <1>2, <1>3, <1>4, <1>5 DEF Rc!Next

(* A list is what comes before a node of it, and what begins there. *)
LEMMA SegmentValues ==
  ASSUME NEW h, Linked(h), NEW r, NEW b, Ranked(h, r, b), NEW l \in DOMAIN h \cup {NULL},
         NEW m \in DOMAIN h \cup {NULL}, NEW q, Segment(h, l, q, m)
  PROVE  From(h)[l] = Elems(h, q) \o From(h)[m]
<1>1. PICK p : Path(h, m, p)
  BY OnePath
<1>2. /\ p \in Seq(DOMAIN h) /\ Len(p) \in Nat
      /\ p = <<>> => m = NULL
      /\ p # <<>> => p[1] = m /\ h[p[Len(p)]].next = NULL
      /\ \A i \in 1..Len(p) - 1 : h[p[i]].next = p[i + 1]
  BY <1>1 DEF Path
<1>3. /\ q \in Seq(DOMAIN h) /\ Len(q) \in Nat
      /\ q = <<>> => l = m
      /\ q # <<>> => q[1] = l /\ h[q[Len(q)]].next = m
      /\ \A i \in 1..Len(q) - 1 : h[q[i]].next = q[i + 1]
  BY DEF Segment
<1> DEFINE s == q \o p
<1>4. /\ s \in Seq(DOMAIN h) /\ Len(s) = Len(q) + Len(p)
      /\ \A i \in 1..Len(q) : s[i] = q[i]
      /\ \A i \in 1..Len(p) : s[Len(q) + i] = p[i]
  BY <1>2, <1>3
<1>5. Elems(h, s) = Elems(h, q) \o Elems(h, p)
  <2> DEFINE x == Elems(h, q)
             y == Elems(h, p)
             V == {h[n].elem : n \in DOMAIN h}
  <2>1. /\ x \in Seq(V) /\ Len(x) = Len(q)
        /\ \A i \in 1..Len(q) : x[i] = h[q[i]].elem
    BY <1>3 DEF Elems
  <2>2. /\ y \in Seq(V) /\ Len(y) = Len(p)
        /\ \A i \in 1..Len(p) : y[i] = h[p[i]].elem
    BY <1>2 DEF Elems
  <2> DEFINE z == Elems(h, s)
  <2> HIDE DEF s
  <2>3. /\ z \in Seq(V) /\ Len(z) = Len(q) + Len(p)
        /\ \A i \in 1..Len(q) + Len(p) : z[i] = h[s[i]].elem
    BY <1>2, <1>3, <1>4 DEF Elems
  <2> HIDE DEF x, y, z, V
  <2>4. x \o y \in Seq(V) /\ Len(x \o y) = Len(q) + Len(p)
    <3>1. x \in Seq(V) /\ y \in Seq(V) /\ Len(x) = Len(q) /\ Len(y) = Len(p)
      BY <2>1, <2>2
    <3>2. x \o y \in Seq(V) /\ Len(x \o y) = Len(x) + Len(y)
      BY <3>1, ConcatProperties, Zenon
    <3> QED
      BY <3>1, <3>2, Zenon
  <2>5. ASSUME NEW i \in 1..Len(q) + Len(p) PROVE (x \o y)[i] = z[i]
    <3>1. CASE i <= Len(q)
      <4>1. i \in 1..Len(q) /\ (x \o y)[i] = x[i]
        BY <1>2, <1>3, <2>1, <2>2, <3>1
      <4> QED
        BY <1>4, <2>1, <2>3, <4>1
    <3>2. CASE i > Len(q)
      <4>1. i - Len(q) \in 1..Len(p) /\ Len(q) + (i - Len(q)) = i
        BY <1>2, <1>3, <3>2
      <4>3. (x \o y)[i] = y[i - Len(q)]
        <5>1. x \in Seq(V) /\ y \in Seq(V) /\ Len(x) = Len(q) /\ Len(y) = Len(p) /\ i > Len(x)
              /\ i \in 1..Len(x) + Len(y)
          BY <2>1, <2>2, <3>2
        <5>2. (x \o y)[i] = y[i - Len(x)]
          BY <5>1
        <5> QED
          BY <5>1, <5>2
      <4>2. s[i] = p[i - Len(q)]
        BY <1>4, <4>1
      <4> QED
        BY <2>2, <2>3, <4>1, <4>2, <4>3
    <3>3. i <= Len(q) \/ i > Len(q)
      BY <1>3
    <3> QED
      BY <3>1, <3>2, <3>3, Zenon
  <2> QED
    BY <2>3, <2>4, <2>5, SeqEqual DEF x, y, z
<1>6. Path(h, l, s)
  <2>1. CASE q = <<>>
    BY <1>1, <1>2, <1>3, <2>1
  <2>2. CASE q # <<>>
    <3> HIDE DEF s
    <3>1. s # <<>> /\ s[1] = l
      <4>1. 1 \in 1..Len(q) /\ Len(s) > 0
        BY <1>2, <1>3, <1>4, <2>2
      <4> QED
        BY <1>3, <1>4, <2>2, <4>1
    <3>2. h[s[Len(s)]].next = NULL
      <4>1. CASE p = <<>>
        <5>1. Len(q) \in 1..Len(q) /\ Len(s) = Len(q) /\ m = NULL
          BY <1>2, <1>3, <1>4, <2>2, <4>1
        <5> QED
          BY <1>3, <1>4, <2>2, <5>1
      <4>2. CASE p # <<>>
        <5>1. Len(p) \in 1..Len(p)
          BY <1>2, <4>2
        <5> QED
          BY <1>2, <1>4, <4>2, <5>1
      <4> QED
        BY <4>1, <4>2
    <3>3. ASSUME NEW i \in 1..Len(s) - 1 PROVE h[s[i]].next = s[i + 1]
      <4>1. CASE i < Len(q)
        <5>1. i \in 1..Len(q) - 1 /\ i \in 1..Len(q) /\ i + 1 \in 1..Len(q)
          BY <1>3, <4>1
        <5> QED
          BY <1>3, <1>4, <5>1
      <4>2. CASE i = Len(q)
        <5>1. i \in 1..Len(q) /\ 1 \in 1..Len(p) /\ p # <<>>
          BY <1>2, <1>3, <1>4, <4>2
        <5> QED
          BY <1>2, <1>3, <1>4, <2>2, <4>2, <5>1
      <4>3. CASE i > Len(q)
        <5> DEFINE j == i - Len(q)
        <5>1. j \in 1..Len(p) - 1 /\ j \in 1..Len(p) /\ j + 1 \in 1..Len(p) /\ Len(q) + j = i
              /\ Len(q) + (j + 1) = i + 1
          BY <1>2, <1>3, <1>4, <4>3
        <5> HIDE DEF j
        <5>2. s[i] = p[j] /\ s[i + 1] = p[j + 1]
          BY <1>4, <5>1
        <5> QED
          BY <1>2, <5>1, <5>2
      <4> QED
        BY <1>3, <4>1, <4>2, <4>3
    <3> QED
      BY <1>4, <3>1, <3>2, <3>3 DEF Path
  <2> QED
    BY <2>1, <2>2
<1>7. From(h)[l] = Elems(h, s) /\ From(h)[m] = Elems(h, p)
  <2> HIDE DEF s
  <2> QED
    BY <1>1, <1>6, PathValues
<1> QED
  BY <1>5, <1>7

(* The nodes that are reached in some number of steps. *)
RcRoots == ({lists[h] : h \in DOMAIN lists} \cup {sharedCur}) \ {NULL}
RcAfter == [n \in DOMAIN shared |-> {shared[n].next} \ {NULL}]
RcReached == CHOOSE f : f = [k \in Nat |-> IF k = 0 THEN RcRoots
                                           ELSE f[k - 1] \cup UNION {RcAfter[n] : n \in f[k - 1]}]

(* The recursive function of NoLeak exists: chains from the roots. *)
LEMMA RcReaches ==
  ASSUME RcInv
  PROVE  /\ RcReached[0] = RcRoots
         /\ \A k \in Nat : RcReached[k + 1] = RcReached[k] \cup UNION {RcAfter[n] : n \in RcReached[k]}
<1> DEFINE Chain(s) == /\ s \in Seq(DOMAIN shared) /\ s # <<>> /\ s[1] \in RcRoots
                       /\ \A i \in 1..Len(s) - 1 : shared[s[i]].next = s[i + 1]
           R(k) == {n \in DOMAIN shared : \E s : Chain(s) /\ Len(s) <= k + 1 /\ s[Len(s)] = n}
           f == [k \in Nat |-> R(k)]
           Rule(g) == g = [k \in Nat |-> IF k = 0 THEN RcRoots
                                         ELSE g[k - 1] \cup UNION {RcAfter[n] : n \in g[k - 1]}]
<1>1. RcRoots \subseteq DOMAIN shared
  BY RcFacts DEF RcRoots
<1>2. R(0) = RcRoots
  <2>1. ASSUME NEW n \in RcRoots PROVE n \in R(0)
    <3>1. Chain(<<n>>) /\ Len(<<n>>) <= 0 + 1 /\ <<n>>[Len(<<n>>)] = n
      BY <1>1, <2>1
    <3> QED
      BY <1>1, <2>1, <3>1
  <2>2. ASSUME NEW s, Chain(s), Len(s) <= 0 + 1 PROVE s[Len(s)] \in RcRoots
    <3>1. s \in Seq(DOMAIN shared) /\ s # <<>> /\ s[1] \in RcRoots /\ Len(s) <= 1
      BY <2>2
    <3>2. Len(s) = 1
      <4>1. Len(s) \in Nat /\ Len(s) # 0
        BY <3>1, EmptySeq
      <4>2. Len(s) <= 1
        BY <3>1
      <4>3. \A k \in Nat : k # 0 /\ k <= 1 => k = 1
        OBVIOUS
      <4> QED
        BY <4>1, <4>2, <4>3, Zenon
    <3> QED
      BY <3>1, <3>2
  <2> QED
    BY <2>1, <2>2
<1>3. ASSUME NEW k \in Nat PROVE R(k + 1) = R(k) \cup UNION {RcAfter[n] : n \in R(k)}
  <2>1. ASSUME NEW n \in R(k) PROVE n \in R(k + 1)
    <3>1. PICK s : Chain(s) /\ Len(s) <= k + 1 /\ s[Len(s)] = n
      BY <2>1
    <3>2. Len(s) \in Nat
      BY <3>1
    <3>3. Len(s) <= (k + 1) + 1
      BY <3>1, <3>2
    <3> QED
      BY <2>1, <3>1, <3>3
  <2>2. ASSUME NEW n \in R(k), NEW m \in RcAfter[n] PROVE m \in R(k + 1)
    <3>1. PICK s : Chain(s) /\ Len(s) <= k + 1 /\ s[Len(s)] = n
      BY <2>2
    <3>2. n \in DOMAIN shared /\ m = shared[n].next /\ m \in DOMAIN shared
      BY <2>2, RcFacts DEF RcAfter, Linked
    <3> DEFINE t == Append(s, m)
    <3>3. s \in Seq(DOMAIN shared) /\ Len(s) \in Nat /\ Len(s) > 0 /\ s[1] \in RcRoots
          /\ \A i \in 1..Len(s) - 1 : shared[s[i]].next = s[i + 1]
      BY <3>1
    <3>4. /\ t \in Seq(DOMAIN shared) /\ Len(t) = Len(s) + 1 /\ t[Len(s) + 1] = m
          /\ \A i \in 1..Len(s) : t[i] = s[i]
      BY <3>2, <3>3
    <3> HIDE DEF t
    <3>5. ASSUME NEW i \in 1..Len(t) - 1 PROVE shared[t[i]].next = t[i + 1]
      <4>1. CASE i = Len(s)
        BY <3>1, <3>2, <3>3, <3>4, <4>1
      <4>2. CASE i # Len(s)
        <5>1. i \in 1..Len(s) - 1 /\ i \in 1..Len(s) /\ i + 1 \in 1..Len(s)
          BY <3>3, <3>4, <4>2
        <5> QED
          BY <3>3, <3>4, <5>1
      <4> QED
        BY <4>1, <4>2
    <3>6. t # <<>> /\ t[1] \in RcRoots /\ Len(t) <= (k + 1) + 1
      <4>1. 1 \in 1..Len(s)
        BY <3>3
      <4> QED
        BY <3>1, <3>3, <3>4, <4>1
    <3>7. Chain(t) /\ t[Len(t)] = m
      BY <3>4, <3>5, <3>6
    <3> HIDE DEF Chain
    <3> QED
      BY <3>2, <3>6, <3>7
  <2>3. ASSUME NEW m \in R(k + 1) PROVE m \in R(k) \/ \E n \in R(k) : m \in RcAfter[n]
    <3>1. PICK t : Chain(t) /\ Len(t) <= (k + 1) + 1 /\ t[Len(t)] = m
      BY <2>3
    <3>2. /\ t \in Seq(DOMAIN shared) /\ Len(t) \in Nat /\ Len(t) > 0 /\ t[1] \in RcRoots
          /\ \A i \in 1..Len(t) - 1 : shared[t[i]].next = t[i + 1]
      BY <3>1
    <3>3. CASE Len(t) <= k + 1
      <4> HIDE DEF Chain
      <4> QED
        BY <2>3, <3>1, <3>3
    <3>4. CASE Len(t) > k + 1
      <4> DEFINE s == SubSeq(t, 1, Len(t) - 1)
                 j == Len(t) - 1
                 n == t[j]
      <4>1. Len(t) = (k + 1) + 1 /\ j = k + 1 /\ j \in 1..Len(t) - 1 /\ j \in 1..Len(t) /\ j + 1 = Len(t)
        BY <3>1, <3>2, <3>4
      <4>2. s \in Seq(DOMAIN shared) /\ Len(s) = j /\ \A i \in 1..j : s[i] = t[i]
        BY <3>2, <4>1
      <4>3. n \in DOMAIN shared /\ shared[n].next = m
        BY <3>1, <3>2, <4>1
      <4> HIDE DEF s
      <4>4. s # <<>> /\ s[1] \in RcRoots /\ s[Len(s)] = n
        <5>1. 1 \in 1..j /\ j \in 1..j
          BY <4>1
        <5> QED
          BY <3>2, <4>2, <5>1
      <4>5. ASSUME NEW i \in 1..Len(s) - 1 PROVE shared[s[i]].next = s[i + 1]
        <5>1. i \in 1..j /\ i + 1 \in 1..j /\ i \in 1..Len(t) - 1
          BY <4>1, <4>2
        <5> QED
          BY <3>2, <4>2, <5>1
      <4>6. Chain(s) /\ Len(s) <= k + 1
        BY <4>1, <4>2, <4>4, <4>5
      <4> HIDE DEF n, j, Chain
      <4>7. n \in R(k)
        BY <4>3, <4>4, <4>6
      <4>8. m \in RcAfter[n]
        <5>1. m # NULL
          BY <2>3, RcFacts
        <5> QED
          BY <4>3, <5>1 DEF RcAfter
      <4> QED
        BY <4>7, <4>8
    <3> QED
      BY <3>2, <3>3, <3>4
  <2> HIDE DEF R
  <2> QED
    BY <2>1, <2>2, <2>3
<1> HIDE DEF R
<1>4. Rule(f)
  <2>1. ASSUME NEW k \in Nat
        PROVE  f[k] = IF k = 0 THEN RcRoots ELSE f[k - 1] \cup UNION {RcAfter[n] : n \in f[k - 1]}
    <3>1. CASE k = 0
      BY <1>2, <3>1
    <3>2. CASE k # 0
      <4>1. k - 1 \in Nat /\ (k - 1) + 1 = k
        BY <3>2
      <4>2. R((k - 1) + 1) = R(k - 1) \cup UNION {RcAfter[n] : n \in R(k - 1)}
        BY <1>3, <4>1
      <4>3. f[k] = R(k) /\ f[k - 1] = R(k - 1)
        BY <4>1
      <4> HIDE DEF f
      <4> QED
        BY <3>2, <4>1, <4>2, <4>3
    <3> QED
      BY <3>1, <3>2
  <2> QED
    BY <2>1
<1> HIDE DEF f
<1>5. Rule(RcReached)
  BY <1>4, Zenon DEF RcReached
<1> DEFINE g == RcReached
<1>6. g = [k \in Nat |-> IF k = 0 THEN RcRoots ELSE g[k - 1] \cup UNION {RcAfter[n] : n \in g[k - 1]}]
  BY <1>5
<1> HIDE DEF g
<1>7. g[0] = RcRoots
  BY <1>6
<1>8. ASSUME NEW k \in Nat PROVE g[k + 1] = g[k] \cup UNION {RcAfter[n] : n \in g[k]}
  <2>1. k + 1 \in Nat /\ k + 1 # 0 /\ (k + 1) - 1 = k
    OBVIOUS
  <2>2. g[k + 1] = g[(k + 1) - 1] \cup UNION {RcAfter[n] : n \in g[(k + 1) - 1]}
    BY <1>6, <2>1
  <2> QED
    BY <2>1, <2>2
<1> QED
  BY <1>7, <1>8 DEF g

(* Every step of it reaches a node more, or has reached them all. *)
LEMMA RcNoLeak == RcInv => Rc!NoLeak
<1> SUFFICES ASSUME RcInv PROVE Rc!NoLeak
  OBVIOUS
<1> DEFINE D == DOMAIN shared
           A(k) == D \ RcReached[k]
<1>1. IsFiniteSet(D) /\ Cardinality(D) \in Nat
  BY RcFacts, FS_CardinalityType
<1>2. PICK r, b : Ranked(shared, r, b)
  BY DEF RcInv, RcFits
<1>3. /\ RcReached[0] = RcRoots
      /\ \A k \in Nat : RcReached[k + 1] = RcReached[k] \cup UNION {RcAfter[n] : n \in RcReached[k]}
  BY RcReaches
<1>4. \A k \in Nat : RcRoots \subseteq RcReached[k] /\ RcReached[k] \subseteq D
  <2> DEFINE Good(k) == RcRoots \subseteq RcReached[k] /\ RcReached[k] \subseteq D
             T == {k \in Nat : ~Good(k)}
  <2>1. Good(0)
    BY <1>3, RcFacts DEF RcRoots
  <2>2. ASSUME NEW k \in Nat, Good(k) PROVE Good(k + 1)
    <3>1. \A n \in RcReached[k] : RcAfter[n] \subseteq D
      BY <2>2, RcFacts DEF RcAfter, Linked
    <3> QED
      BY <1>3, <2>2, <3>1
  <2> HIDE DEF Good
  <2>3. ASSUME T # {} PROVE FALSE
    <3>1. PICK k \in T : \A j \in T : k <= j
      BY <2>3, Smallest
    <3>2. k \in Nat /\ k # 0
      BY <2>1, <3>1
    <3>3. k - 1 \in Nat /\ (k - 1) + 1 = k /\ ~(k <= k - 1)
      BY <3>2
    <3>4. Good(k - 1)
      BY <3>1, <3>3
    <3>5. Good((k - 1) + 1)
      BY <2>2, <3>3, <3>4
    <3> QED
      BY <3>1, <3>3, <3>5
  <2> QED
    BY <2>3 DEF Good
<1>5. \A k \in Nat : /\ IsFiniteSet(A(k)) /\ Cardinality(A(k)) \in Nat
                     /\ A(k) # {} => Cardinality(A(k)) + k <= Cardinality(D)
  <2>1. ASSUME NEW k \in Nat PROVE IsFiniteSet(A(k)) /\ Cardinality(A(k)) \in Nat /\ Cardinality(A(k)) <= Cardinality(D)
    BY <1>1, FS_Subset, FS_CardinalityType
  <2> DEFINE Good(k) == A(k) # {} => Cardinality(A(k)) + k <= Cardinality(D)
             T == {k \in Nat : ~Good(k)}
  <2>2. Good(0)
    BY <1>1, <2>1
  <2>3. ASSUME NEW k \in Nat, Good(k) PROVE Good(k + 1)
    <3> SUFFICES ASSUME A(k + 1) # {} PROVE Cardinality(A(k + 1)) + (k + 1) <= Cardinality(D)
      OBVIOUS
    <3>1. A(k + 1) \subseteq A(k) /\ A(k) # {} /\ A(k) \subseteq D
      BY <1>3
    <3>2. PICK n \in A(k) : \A m \in A(k) : shared[m].next # n
      <4>1. A(k) \in SUBSET DOMAIN shared /\ A(k) # {}
        BY <3>1
      <4> HIDE DEF A
      <4> QED
        BY <1>2, <4>1, FirstOf
    <3>3. n \notin A(k + 1)
      <4>1. n \in D /\ RcOwners(n) # 0 /\ n # NULL /\ CountIn(lists, n) \in Nat /\ CountIn(Nexts(shared), n) \in Nat
        <5>1. n \in D
          BY <3>1, <3>2
        <5> QED
          BY <5>1, RcFacts
      <4>2. n \notin RcRoots
        BY <1>4, <3>2
      <4>3. sharedCur # n /\ CountIn(lists, n) = 0
        <5>1. sharedCur # n /\ \A x \in DOMAIN lists : lists[x] # n
          BY <4>1, <4>2 DEF RcRoots
        <5> QED
          BY <5>1, RcFacts, CountIsNat
      <4>4. CountIn(Nexts(shared), n) # 0
        BY <4>1, <4>3 DEF RcOwners
      <4>5. DOMAIN Nexts(shared) = D /\ \A m \in D : Nexts(shared)[m] = shared[m].next
        BY DEF Nexts
      <4>6. PICK m \in D : shared[m].next = n
        BY <1>1, <4>4, <4>5, CountIsNat
      <4>7. m \in RcReached[k] /\ n \in RcAfter[m]
        BY <3>2, <4>1, <4>6 DEF RcAfter
      <4> QED
        BY <1>3, <4>7
    <3>4. Cardinality(A(k + 1)) <= Cardinality(A(k)) - 1
      <4>1. IsFiniteSet(A(k)) /\ Cardinality(A(k) \ {n}) = Cardinality(A(k)) - 1
        BY <2>1, <3>2, FS_RemoveElement
      <4>2. A(k + 1) \subseteq A(k) \ {n} /\ IsFiniteSet(A(k) \ {n})
        BY <3>1, <3>3, <4>1, FS_RemoveElement
      <4> HIDE DEF A
      <4> QED
        BY <4>1, <4>2, FS_Subset
    <3> HIDE DEF A, D
    <3>5. Cardinality(A(k + 1)) \in Nat /\ Cardinality(A(k)) \in Nat /\ Cardinality(A(k)) + k <= Cardinality(D)
      BY <2>1, <2>3, <3>1
    <3> QED
      BY <1>1, <3>4, <3>5
  <2> HIDE DEF Good
  <2>4. ASSUME T # {} PROVE FALSE
    <3>1. PICK k \in T : \A j \in T : k <= j
      BY <2>4, Smallest
    <3>2. k \in Nat /\ k # 0
      BY <2>2, <3>1
    <3>3. k - 1 \in Nat /\ (k - 1) + 1 = k /\ ~(k <= k - 1)
      BY <3>2
    <3>4. Good(k - 1)
      BY <3>1, <3>3
    <3>5. Good((k - 1) + 1)
      BY <2>3, <3>3, <3>4
    <3> QED
      BY <3>1, <3>3, <3>5
  <2> QED
    BY <2>1, <2>4 DEF Good
<1>6. A(Cardinality(D)) = {}
  <2> DEFINE k == Cardinality(D)
  <2>1. ASSUME A(k) # {} PROVE FALSE
    <3>1. IsFiniteSet(A(k)) /\ Cardinality(A(k)) \in Nat /\ Cardinality(A(k)) + k <= k /\ k \in Nat
      BY <1>1, <1>5, <2>1
    <3> HIDE DEF A, k
    <3>2. Cardinality(A(k)) = 0
      BY <3>1
    <3> QED
      BY <2>1, <3>1, <3>2, FS_EmptySet
  <2> QED
    BY <2>1
<1>7. RcReached[Cardinality(D)] = D
  BY <1>1, <1>4, <1>6
<1>8. Rc!NoLeak <=> RcReached[Rc!Cardinality(DOMAIN shared)] = DOMAIN shared
  BY DEF Rc!NoLeak, RcReached, RcRoots, RcAfter
<1> QED
  BY <1>7, <1>8, SameCardinality

(* What counts that fit mean for the properties. *)
LEMMA RcSafe ==
  RcInv => Rc!TypeOK /\ Rc!CountsExact /\ Rc!IteratesInOrder /\ Rc!NoLeak
<1> SUFFICES ASSUME RcInv PROVE Rc!CountsExact /\ Rc!IteratesInOrder
  BY RcNoLeak DEF RcInv
<1>1. Rc!CountsExact
  <2>1. ASSUME NEW n \in DOMAIN shared PROVE shared[n].strong = Rc!Owners(n)
    <3>1. {m \in DOMAIN shared : shared[m].next = n} = {m \in DOMAIN Nexts(shared) : Nexts(shared)[m] = n}
      BY DEF Nexts
    <3>2. Rc!Owners(n) = RcOwners(n)
      BY <3>1, SameCardinality DEF Rc!Owners, RcOwners, CountIn
    <3> QED
      BY <3>2, RcFacts
  <2> QED
    BY <2>1 DEF Rc!CountsExact
<1>2. ASSUME NEW h \in DOMAIN iters
      PROVE  Rc!Values(lists[h]) = iters[h].seen \o Rc!Values(iters[h].next)
  <2>1. PICK q : Segment(shared, lists[h], q, iters[h].next) /\ iters[h].seen = Elems(shared, q)
    BY DEF RcInv, RcSeen
  <2>2. PICK r, b : Ranked(shared, r, b)
    BY DEF RcInv, RcFits
  <2>3. lists[h] \in DOMAIN shared \cup {NULL} /\ iters[h].next \in DOMAIN shared \cup {NULL}
    BY DEF RcInv, Rc!TypeOK, Rc!Link
  <2>4. From(shared)[lists[h]] = Elems(shared, q) \o From(shared)[iters[h].next]
    BY <2>1, <2>2, <2>3, RcFacts, SegmentValues
  <2> QED
    BY <2>1, <2>4, ValuesFrom
<1> QED
  BY <1>1, <1>2 DEF Rc!IteratesInOrder

-----------------------------------------------------------------------------
(* fourth.rs: a doubly linked path p over all the nodes but one, x, which  *)
(* has no neighbours; the prev of the first node is f.                     *)
Shape(c, p, x, f) ==
  /\ p \in Seq(DOMAIN c \ {x})
  /\ \A i, j \in 1..Len(p) : p[i] = p[j] => i = j
  /\ \A n \in DOMAIN c : n = x \/ \E i \in 1..Len(p) : p[i] = n
  /\ x # NULL => x \in DOMAIN c /\ c[x].next = NULL /\ c[x].prev = NULL
  /\ \A i \in 1..Len(p) : /\ c[p[i]].strong = 2
                          /\ c[p[i]].next = IF i = Len(p) THEN NULL ELSE p[i + 1]
                          /\ c[p[i]].prev = IF i = 1 THEN f ELSE p[i - 1]

(* What a RefCell holds. *)
CellType(c) == c \in [DOMAIN c -> [elem : Elem, prev : DOMAIN c \cup {NULL},
                                   next : DOMAIN c \cup {NULL}, strong : Nat \ {0}]]

(* The nodes of the path are allocated, and are not the lone one. *)
LEMMA ShapeFacts ==
  ASSUME NEW c, NULL \notin DOMAIN c, NEW p, NEW x, NEW f, Shape(c, p, x, f)
  PROVE  /\ Len(p) \in Nat /\ \A i \in 1..Len(p) : p[i] \in DOMAIN c /\ p[i] # x /\ p[i] # NULL
         /\ p # <<>> => 1 \in 1..Len(p) /\ Len(p) \in 1..Len(p)
<1>1. p \in Seq(DOMAIN c \ {x})
  BY DEF Shape
<1> QED
  BY <1>1

(* A node that nothing points to yet. *)
LEMMA ShapeAdd ==
  ASSUME NEW c, NULL \notin DOMAIN c, NEW p, Shape(c, p, NULL, NULL),
         NEW n, n \notin DOMAIN c, n # NULL, NEW d, DOMAIN d = DOMAIN c \cup {n},
         d[n].next = NULL, d[n].prev = NULL, \A m \in DOMAIN c : d[m] = c[m]
  PROVE  Shape(d, p, n, NULL)
<1>1. p \in Seq(DOMAIN d \ {n})
  BY DEF Shape
<1>2. \A i \in 1..Len(p) : d[p[i]] = c[p[i]]
  BY ShapeFacts
<1> QED
  BY <1>1, <1>2 DEF Shape

(* The prev of the first node, and counts of the lone one, change. *)
LEMMA ShapeTurns ==
  ASSUME NEW c, NULL \notin DOMAIN c, NEW p, NEW x, NEW f, Shape(c, p, x, f), p # <<>>,
         NEW d, NEW g, DOMAIN d = DOMAIN c,
         d[p[1]].prev = g, d[p[1]].next = c[p[1]].next, d[p[1]].strong = 2,
         d[x].prev = c[x].prev, d[x].next = c[x].next,
         \A m \in DOMAIN c : m # x /\ m # p[1] => d[m] = c[m]
  PROVE  Shape(d, p, x, g)
<1>1. p \in Seq(DOMAIN d \ {x}) /\ 1 \in 1..Len(p)
  BY ShapeFacts DEF Shape
<1>2. ASSUME NEW i \in 1..Len(p)
      PROVE  /\ d[p[i]].strong = 2
             /\ d[p[i]].next = IF i = Len(p) THEN NULL ELSE p[i + 1]
             /\ d[p[i]].prev = IF i = 1 THEN g ELSE p[i - 1]
  <2>1. CASE i = 1
    BY <2>1 DEF Shape
  <2>2. CASE i # 1
    <3>1. p[i] # p[1] /\ p[i] # x /\ p[i] \in DOMAIN c
      BY <1>1, <2>2, ShapeFacts DEF Shape
    <3>2. d[p[i]] = c[p[i]]
      BY <3>1
    <3>3. /\ c[p[i]].strong = 2 /\ c[p[i]].next = (IF i = Len(p) THEN NULL ELSE p[i + 1])
          /\ c[p[i]].prev = p[i - 1]
      BY <2>2 DEF Shape
    <3> QED
      BY <2>2, <3>2, <3>3
  <2> QED
    BY <2>1, <2>2
<1> QED
  BY <1>1, <1>2 DEF Shape

(* The lone node goes before the first. *)
LEMMA ShapePush ==
  ASSUME NEW c, NULL \notin DOMAIN c, NEW p, NEW x, Shape(c, p, x, x), p # <<>>, x # NULL, c[x].strong = 2,
         NEW d, DOMAIN d = DOMAIN c, d[x].next = p[1], d[x].prev = c[x].prev, d[x].strong = 2,
         \A m \in DOMAIN c : m # x => d[m] = c[m]
  PROVE  Shape(d, <<x>> \o p, NULL, NULL)
<1> DEFINE s == <<x>> \o p
<1>1. p \in Seq(DOMAIN c) /\ Len(p) \in Nat /\ x \in DOMAIN c /\ 1 \in 1..Len(p) /\ c[x].prev = NULL
  BY ShapeFacts DEF Shape
<1>2. /\ s \in Seq(DOMAIN c) /\ Len(s) = Len(p) + 1 /\ s[1] = x /\ \A i \in 1..Len(p) : s[i + 1] = p[i]
      /\ \A i \in 1..Len(s) : i # 1 => i - 1 \in 1..Len(p) /\ s[i] = p[i - 1]
  BY <1>1
<1> HIDE DEF s
<1>3. s \in Seq(DOMAIN d \ {NULL})
  BY <1>2
<1>4. ASSUME NEW i \in 1..Len(s), NEW j \in 1..Len(s), s[i] = s[j] PROVE i = j
  <2>1. \A k \in 1..Len(p) : p[k] # x
    BY ShapeFacts
  <2>2. i \in Int /\ j \in Int
    BY <1>2
  <2>3. CASE i = 1 \/ j = 1
    BY <1>2, <1>4, <2>1, <2>3
  <2>4. CASE i # 1 /\ j # 1
    <3>1. i - 1 = j - 1
      BY <1>2, <1>4, <2>4 DEF Shape
    <3> QED
      BY <2>2, <3>1
  <2> QED
    BY <2>3, <2>4
<1>5. ASSUME NEW n \in DOMAIN d PROVE \E i \in 1..Len(s) : s[i] = n
  <2>1. CASE n = x
    BY <1>1, <1>2, <2>1
  <2>2. CASE n # x
    <3>1. PICK i \in 1..Len(p) : p[i] = n
      BY <1>5, <2>2 DEF Shape
    <3>2. i + 1 \in 1..Len(s) /\ s[i + 1] = n
      BY <1>1, <1>2, <3>1
    <3> QED
      BY <3>2
  <2> QED
    BY <2>1, <2>2
<1>6. ASSUME NEW i \in 1..Len(s)
      PROVE  /\ d[s[i]].strong = 2
             /\ d[s[i]].next = IF i = Len(s) THEN NULL ELSE s[i + 1]
             /\ d[s[i]].prev = IF i = 1 THEN NULL ELSE s[i - 1]
  <2>1. CASE i = 1
    <3>1. s[i] = x /\ i # Len(s) /\ s[i + 1] = p[1]
      BY <1>1, <1>2, <2>1
    <3> QED
      BY <1>1, <2>1, <3>1
  <2>2. CASE i # 1
    <3> DEFINE k == i - 1
    <3>1. k \in 1..Len(p) /\ s[i] = p[k] /\ k + 1 = i /\ (i = Len(s) <=> k = Len(p))
      BY <1>1, <1>2, <2>2
    <3> HIDE DEF k
    <3>2. d[p[k]] = c[p[k]]
      BY <3>1, ShapeFacts
    <3>3. /\ c[p[k]].strong = 2 /\ c[p[k]].next = (IF k = Len(p) THEN NULL ELSE p[k + 1])
          /\ c[p[k]].prev = (IF k = 1 THEN x ELSE p[k - 1])
      BY <3>1 DEF Shape
    <3>4. i # Len(s) => s[i + 1] = p[k + 1]
      <4>1. i # Len(s) => k + 1 \in 1..Len(p) /\ (k + 1) + 1 = i + 1
        BY <1>1, <3>1
      <4> QED
        BY <1>2, <4>1
    <3>5. s[i - 1] = IF k = 1 THEN x ELSE p[k - 1]
      <4>1. k = i - 1
        BY <3>1
      <4>2. k # 1 => k - 1 \in 1..Len(p) /\ (k - 1) + 1 = k
        BY <1>1, <3>1
      <4> QED
        BY <1>2, <4>1, <4>2
    <3> QED
      BY <2>2, <3>1, <3>2, <3>3, <3>4, <3>5
  <2> QED
    BY <2>1, <2>2
<1> QED
  BY <1>3, <1>4, <1>5, <1>6 DEF Shape, s

(* The first node leaves: it has no next any more, the second still has a  *)
(* prev.                                                                   *)
LEMMA ShapePop ==
  ASSUME NEW c, NULL \notin DOMAIN c, NEW p, Shape(c, p, NULL, NULL), p # <<>>,
         NEW d, DOMAIN d = DOMAIN c, d[p[1]].next = NULL, d[p[1]].prev = c[p[1]].prev,
         d[p[1]].strong = c[p[1]].strong,
         \A m \in DOMAIN c : m # p[1] => d[m] = c[m]
  PROVE  /\ Shape(d, Tail(p), p[1], p[1]) /\ p[1] \in DOMAIN c
         /\ d[p[1]].strong = 2
         /\ c[p[1]].next = IF Tail(p) = <<>> THEN NULL ELSE Tail(p)[1]
         /\ Tail(p) # <<>> => Tail(p)[Len(Tail(p))] = p[Len(p)]
<1> DEFINE t == Tail(p)
           x == p[1]
<1>1. p \in Seq(DOMAIN c) /\ Len(p) \in Nat /\ x \in DOMAIN c /\ 1 \in 1..Len(p) /\ Len(p) \in 1..Len(p)
  BY ShapeFacts DEF Shape
<1>2. /\ t \in Seq(DOMAIN c) /\ Len(t) = Len(p) - 1 /\ \A i \in 1..Len(t) : t[i] = p[i + 1] /\ i + 1 \in 1..Len(p)
      /\ t = <<>> <=> Len(p) = 1
  <2>1. t \in Seq(DOMAIN c) /\ Len(t) = Len(p) - 1 /\ \A i \in 1..Len(t) : t[i] = p[i + 1]
    BY <1>1
  <2> HIDE DEF t
  <2>2. \A i \in 1..Len(t) : i + 1 \in 1..Len(p)
    BY <1>1, <2>1
  <2>3. t = <<>> <=> Len(t) = 0
    BY <2>1, EmptySeq
  <2> QED
    BY <1>1, <2>1, <2>2, <2>3
<1> HIDE DEF t, x
<1>3. \A i, j \in 1..Len(p) : p[i] = p[j] => i = j
  BY DEF Shape
<1>4. \A i \in 1..Len(t) : t[i] # x
  <2>1. ASSUME NEW i \in 1..Len(t), t[i] = x PROVE FALSE
    <3>1. i + 1 \in 1..Len(p) /\ p[i + 1] = p[1]
      BY <1>2, <2>1 DEF x
    <3>2. i + 1 = 1
      BY <1>1, <1>3, <3>1
    <3>3. i \in 1..(Len(p) - 1)
      BY <1>2
    <3> QED
      BY <1>1, <3>2, <3>3
  <2> QED
    BY <2>1
<1>5. t \in Seq(DOMAIN d \ {x})
  BY <1>2, <1>4
<1>6. ASSUME NEW i \in 1..Len(t), NEW j \in 1..Len(t), t[i] = t[j] PROVE i = j
  <2>1. i + 1 = j + 1 /\ i \in Int /\ j \in Int
    BY <1>2, <1>3, <1>6
  <2> QED
    BY <2>1
<1>7. ASSUME NEW n \in DOMAIN d, n # x PROVE \E i \in 1..Len(t) : t[i] = n
  <2>1. PICK i \in 1..Len(p) : p[i] = n
    BY <1>7 DEF Shape
  <2>2. i # 1
    BY <1>7, <2>1 DEF x
  <2>3. i - 1 \in 1..Len(t) /\ (i - 1) + 1 = i
    BY <1>1, <1>2, <2>2
  <2>4. t[i - 1] = n
    BY <1>2, <2>1, <2>3
  <2> QED
    BY <2>3, <2>4
<1>8. c[x].prev = NULL /\ c[x].strong = 2 /\ c[x].next = IF 1 = Len(p) THEN NULL ELSE p[1 + 1]
  BY <1>1 DEF Shape, x
<1>9. ASSUME NEW i \in 1..Len(t)
      PROVE  /\ d[t[i]].strong = 2
             /\ d[t[i]].next = IF i = Len(t) THEN NULL ELSE t[i + 1]
             /\ d[t[i]].prev = IF i = 1 THEN x ELSE t[i - 1]
  <2> DEFINE k == i + 1
  <2>1. k \in 1..Len(p) /\ t[i] = p[k] /\ k - 1 = i /\ (i = Len(t) <=> k = Len(p)) /\ k # 1 /\ (i = 1 <=> k = 2)
    BY <1>1, <1>2
  <2> HIDE DEF k
  <2>2. d[t[i]] = c[p[k]]
    BY <1>1, <1>4, <2>1 DEF x
  <2>3. /\ c[p[k]].strong = 2 /\ c[p[k]].next = (IF k = Len(p) THEN NULL ELSE p[k + 1])
        /\ c[p[k]].prev = p[k - 1]
    BY <2>1 DEF Shape
  <2>4. i # Len(t) => t[i + 1] = p[k + 1]
    <3>1. i # Len(t) => i + 1 \in 1..Len(t) /\ (i + 1) + 1 = k + 1
      BY <1>1, <1>2, <2>1
    <3> QED
      BY <1>2, <3>1
  <2>5. p[k - 1] = IF i = 1 THEN x ELSE t[i - 1]
    <3>1. i # 1 => i - 1 \in 1..Len(t) /\ (i - 1) + 1 = i
      BY <1>1, <1>2
    <3> QED
      BY <1>2, <2>1, <3>1 DEF x
  <2> QED
    BY <2>1, <2>2, <2>3, <2>4, <2>5
<1>10. x # NULL => x \in DOMAIN d /\ d[x].next = NULL /\ d[x].prev = NULL
  BY <1>1, <1>8 DEF x
<1>11. Shape(d, t, x, x)
  BY <1>5, <1>6, <1>7, <1>9, <1>10 DEF Shape
<1>12. c[x].next = IF t = <<>> THEN NULL ELSE t[1]
  <2>1. t # <<>> => 1 \in 1..Len(t)
    BY <1>1, <1>2
  <2> QED
    BY <1>2, <1>8, <2>1
<1>13. t # <<>> => t[Len(t)] = p[Len(p)]
  <2>1. t # <<>> => Len(t) \in 1..Len(t) /\ Len(t) + 1 = Len(p)
    BY <1>1, <1>2
  <2> QED
    BY <1>2, <2>1
<1> QED
  BY <1>1, <1>8, <1>11, <1>12, <1>13 DEF t, x

(* The lone node goes. *)
LEMMA ShapeFree ==
  ASSUME NEW c, NULL \notin DOMAIN c, NEW p, NEW x, Shape(c, p, x, NULL), NEW d,
         DOMAIN d = DOMAIN c \ {x}, \A m \in DOMAIN d : d[m] = c[m]
  PROVE  Shape(d, p, NULL, NULL)
<1>1. p \in Seq(DOMAIN d \ {NULL})
  <2>1. DOMAIN d \ {NULL} = DOMAIN c \ {x}
    OBVIOUS
  <2> QED
    BY <2>1 DEF Shape
<1>2. \A i \in 1..Len(p) : d[p[i]] = c[p[i]]
  BY ShapeFacts
<1> QED
  BY <1>1, <1>2 DEF Shape

(* With no lone node, links stay on the path. *)
LEMMA ShapeLinks ==
  ASSUME NEW c, NULL \notin DOMAIN c, NEW p, Shape(c, p, NULL, NULL), NEW m \in DOMAIN c
  PROVE  c[m].next \in DOMAIN c \cup {NULL} /\ c[m].prev \in DOMAIN c \cup {NULL}
<1>1. PICK i \in 1..Len(p) : p[i] = m
  BY DEF Shape
<1>2. Len(p) \in Nat /\ \A j \in 1..Len(p) : p[j] \in DOMAIN c
  BY ShapeFacts
<1>3. /\ c[m].next = IF i = Len(p) THEN NULL ELSE p[i + 1]
      /\ c[m].prev = IF i = 1 THEN NULL ELSE p[i - 1]
  BY <1>1 DEF Shape
<1>4. (i # Len(p) => i + 1 \in 1..Len(p)) /\ (i # 1 => i - 1 \in 1..Len(p))
  BY <1>2
<1> QED
  BY <1>2, <1>3, <1>4

-----------------------------------------------------------------------------
(* The ends of the path. *)
First(p) == IF p = <<>> THEN NULL ELSE p[1]
Last(p) == IF p = <<>> THEN NULL ELSE p[Len(p)]

(* The lone node, with its count, and who holds the head of the path. *)
Lone(p, x, f, k) == Shape(cells, p, x, f) /\ (x # NULL => cells[x].strong = k)
Held(h, t, o, n, b) == head = h /\ tail = t /\ old = o /\ new = n /\ borrowed = b

(* At each statement: the path, the lone node, and who holds what. *)
DequeAt(p) ==
  \/ /\ pc = "dropped" /\ p = <<>> /\ Lone(p, NULL, NULL, 0)
     /\ Held(NULL, NULL, NULL, NULL, {})
  \/ /\ pc = "rest" /\ Lone(p, NULL, NULL, 0)
     /\ Held(First(p), Last(p), NULL, NULL, {})
  \/ /\ pc = "push_old" /\ p # <<>> /\ new # NULL /\ Lone(p, new, NULL, 1)
     /\ Held(NULL, Last(p), First(p), new, {})
  \/ /\ pc = "push_new" /\ p # <<>> /\ new # NULL /\ Lone(p, new, new, 2)
     /\ Held(NULL, Last(p), First(p), new, {})
  \/ /\ pc = "push_head" /\ p # <<>> /\ Lone(p, NULL, NULL, 0)
     /\ Held(NULL, Last(p), NULL, First(p), {})
  \/ /\ pc = "pop_next" /\ p # <<>> /\ Lone(p, NULL, NULL, 0)
     /\ Held(NULL, Last(p), First(p), NULL, {})
  \/ /\ pc = "pop_prev" /\ p # <<>> /\ old # NULL /\ Lone(p, old, old, 2)
     /\ Held(NULL, Last(p), old, First(p), {old})
  \/ /\ pc = "pop_head" /\ p # <<>> /\ old # NULL /\ Lone(p, old, NULL, 1)
     /\ Held(NULL, Last(p), old, First(p), {old})
  \/ /\ pc = "pop_tail" /\ p = <<>> /\ old # NULL /\ Lone(p, old, NULL, 2)
     /\ Held(NULL, old, old, NULL, {old})
  \/ /\ pc = "pop_unwrap" /\ old # NULL /\ Lone(p, old, NULL, 1)
     /\ Held(First(p), Last(p), old, NULL, {})

DequeInv == Deque!TypeOK /\ \E p : DequeAt(p)

(* What the invariant says of types, for the steps. *)
LEMMA DequeFacts ==
  ASSUME DequeInv
  PROVE  /\ NULL \notin DOMAIN cells /\ DOMAIN cells \subseteq Node /\ CellType(cells)
         /\ {head, tail, old, new} \subseteq DOMAIN cells \cup {NULL} /\ borrowed \subseteq DOMAIN cells
         /\ cellDrops \in BOOLEAN /\ out \in Elem \cup {None}
BY NullIsNoNode DEF DequeInv, Deque!TypeOK, Deque!Link, CellType

(* A path with the links of its statement is all that a step must show. *)
LEMMA DequeType ==
  ASSUME CellType(cells'), DOMAIN cells' \subseteq Node, NULL \notin DOMAIN cells', NEW p, DequeAt(p)',
         cellDrops' \in BOOLEAN, out' \in Elem \cup {None}
  PROVE  DequeInv'
<1>1. \A x, f : Shape(cells', p, x, f) => (x # NULL => x \in DOMAIN cells')
  BY DEF Shape
<1>2. \A x, f : Shape(cells', p, x, f) => {First(p), Last(p)} \subseteq DOMAIN cells' \cup {NULL}
  BY ShapeFacts DEF First, Last
<1>3. {head', tail', old', new'} \subseteq DOMAIN cells' \cup {NULL} /\ borrowed' \subseteq DOMAIN cells'
      /\ pc' \in {"dropped", "rest", "push_old", "push_new", "push_head", "pop_next",
                  "pop_prev", "pop_head", "pop_tail", "pop_unwrap", "panic"}
  BY <1>1, <1>2 DEF DequeAt, Lone, Held
<1> QED
  BY <1>3 DEF DequeInv, Deque!TypeOK, Deque!Link, CellType

(* There is no deque and no node yet. *)
LEMMA DequeInit == Deque!Init => DequeInv
<1> SUFFICES ASSUME Deque!Init PROVE DequeInv
  OBVIOUS
<1>1. /\ cells = [n \in {} |-> n] /\ borrowed = {} /\ head = NULL /\ tail = NULL /\ old = NULL /\ new = NULL
      /\ cellDrops = FALSE /\ pc = "dropped" /\ out = None
  BY DEF Deque!Init
<1>2. DOMAIN cells = {}
  BY <1>1
<1>3. Shape(cells, <<>>, NULL, NULL)
  BY <1>2 DEF Shape
<1>4. DequeAt(<<>>)
  BY <1>1, <1>3 DEF DequeAt, Lone, Held
<1>5. Deque!TypeOK
  BY <1>1, <1>2 DEF Deque!TypeOK, Deque!Link
<1> QED
  BY <1>4, <1>5 DEF DequeInv

(* A program that uses another list leaves the deque alone. *)
LEMMA DequeIdle == DequeInv /\ UNCHANGED dequeVars => DequeInv'
<1> SUFFICES ASSUME DequeInv, UNCHANGED dequeVars PROVE DequeInv'
  OBVIOUS
<1>1. /\ cells' = cells /\ borrowed' = borrowed /\ head' = head /\ tail' = tail /\ old' = old /\ new' = new
      /\ cellDrops' = cellDrops /\ pc' = pc /\ out' = out
  BY DEF dequeVars
<1>2. PICK p : DequeAt(p)
  BY DEF DequeInv
<1>3. DequeAt(p)'
  BY <1>1, <1>2 DEF DequeAt, Lone, Held
<1>4. Deque!TypeOK'
  BY <1>1 DEF DequeInv, Deque!TypeOK, Deque!Link
<1> QED
  BY <1>3, <1>4 DEF DequeInv

(* A cell is a record, and the cells are a function. *)
LEMMA CellTypeIs ==
  ASSUME NEW c, CellType(c), NEW n \in DOMAIN c
  PROVE  /\ c[n] \in [elem : Elem, prev : DOMAIN c \cup {NULL}, next : DOMAIN c \cup {NULL}, strong : Nat \ {0}]
         /\ c = [m \in DOMAIN c |-> c[m]]
BY DEF CellType

(* The new node of a push; in an empty list it is the tail at once. *)
LEMMA DequePushTake ==
  ASSUME DequeInv, NEW e \in Elem, Deque!PushTake(e)
  PROVE  DequeInv'
<1>1. /\ NULL \notin DOMAIN cells /\ DOMAIN cells \subseteq Node /\ CellType(cells)
      /\ cellDrops \in BOOLEAN /\ head \in DOMAIN cells \cup {NULL}
  BY DequeFacts
<1>2. PICK n \in Node \ DOMAIN cells :
        LET node == [elem |-> e, prev |-> NULL, next |-> NULL, strong |-> 1]
        IN IF head # NULL
             THEN /\ cells' = [m \in DOMAIN cells \cup {n} |-> IF m = n THEN node ELSE cells[m]]
                  /\ old' = head /\ new' = n
                  /\ pc' = "push_old"
                  /\ UNCHANGED tail
             ELSE /\ cells' = [m \in DOMAIN cells \cup {n} |->
                                 IF m = n THEN [node EXCEPT !.strong = 2] ELSE cells[m]]
                  /\ new' = n
                  /\ tail' = n
                  /\ pc' = "push_head"
                  /\ UNCHANGED old
  BY DEF Deque!PushTake
<1>3. pc = "rest" /\ head' = NULL /\ out' = None /\ borrowed' = borrowed /\ cellDrops' = cellDrops
  BY DEF Deque!PushTake
<1>4. PICK p : DequeAt(p)
  BY DEF DequeInv
<1>5. Shape(cells, p, NULL, NULL) /\ Held(First(p), Last(p), NULL, NULL, {})
  BY <1>3, <1>4 DEF DequeAt, Lone
<1>6. n # NULL /\ n \notin DOMAIN cells /\ n \in Node
  BY NullIsNoNode
<1> DEFINE k == IF head # NULL THEN 1 ELSE 2
           node == [elem |-> e, prev |-> NULL, next |-> NULL, strong |-> k]
<1>7. cells' = [m \in DOMAIN cells \cup {n} |-> IF m = n THEN node ELSE cells[m]]
  BY <1>2
<1>8. /\ DOMAIN cells' = DOMAIN cells \cup {n} /\ cells'[n] = node
      /\ \A m \in DOMAIN cells : cells'[m] = cells[m]
  BY <1>6, <1>7
<1>9. node.prev = NULL /\ node.next = NULL /\ node.strong = k
      /\ node \in [elem : Elem, prev : {NULL}, next : {NULL}, strong : Nat \ {0}]
  OBVIOUS
<1> HIDE DEF node
<1>10. CellType(cells')
  <2>1. \A m \in DOMAIN cells : cells[m] \in [elem : Elem, prev : DOMAIN cells \cup {NULL},
                                              next : DOMAIN cells \cup {NULL}, strong : Nat \ {0}]
    BY <1>1 DEF CellType
  <2> QED
    BY <1>7, <1>8, <1>9, <2>1 DEF CellType
<1>11. DOMAIN cells' \subseteq Node /\ NULL \notin DOMAIN cells'
  BY <1>1, <1>6, <1>8
<1>12. CASE head # NULL
  <2>1. Shape(cells', p, n, NULL)
    BY <1>1, <1>5, <1>6, <1>8, <1>9, ShapeAdd
  <2>2. p # <<>> /\ old' = First(p) /\ new' = n /\ tail' = Last(p) /\ borrowed' = {} /\ pc' = "push_old"
    BY <1>2, <1>3, <1>5, <1>12 DEF Held, First
  <2>3. DequeAt(p)'
    BY <1>3, <1>6, <1>8, <1>9, <1>12, <2>1, <2>2 DEF DequeAt, Lone, Held
  <2> QED
    BY <1>1, <1>3, <1>10, <1>11, <2>3, DequeType
<1>13. CASE head = NULL
  <2>1. p = <<>>
    BY <1>1, <1>5, <1>13, ShapeFacts DEF Held, First
  <2>2. DOMAIN cells = {}
    <3>1. \A m \in DOMAIN cells : FALSE
      BY <1>1, <1>5, <2>1 DEF Shape
    <3> QED
      BY <3>1
  <2> DEFINE q == <<n>>
  <2>3. q \in Seq(DOMAIN cells') /\ Len(q) = 1 /\ q[1] = n /\ q # <<>> /\ DOMAIN cells' = {n}
    BY <1>8, <2>2
  <2> HIDE DEF q
  <2>4. Shape(cells', q, NULL, NULL)
    <3>1. q \in Seq(DOMAIN cells' \ {NULL}) /\ \A i \in 1..Len(q) : i = 1 /\ i = Len(q) /\ q[i] = n
      BY <1>11, <2>3
    <3>2. cells'[n].strong = 2 /\ cells'[n].next = NULL /\ cells'[n].prev = NULL
      BY <1>8, <1>9, <1>13
    <3>3. \A m \in DOMAIN cells' : \E i \in 1..Len(q) : q[i] = m
      BY <2>3
    <3> QED
      BY <3>1, <3>2, <3>3 DEF Shape
  <2>5. old' = NULL /\ new' = First(q) /\ tail' = Last(q) /\ borrowed' = {} /\ pc' = "push_head"
    BY <1>2, <1>3, <1>5, <1>13, <2>3 DEF Held, First, Last
  <2>6. DequeAt(q)'
    BY <1>3, <2>3, <2>4, <2>5 DEF DequeAt, Lone, Held
  <2> QED
    BY <1>1, <1>3, <1>10, <1>11, <2>6, DequeType
<1> QED
  BY <1>12, <1>13

(* The old head takes the lone node as its prev, which counts once more. *)
LEMMA DequePushOld ==
  ASSUME DequeInv, Deque!PushOld
  PROVE  DequeInv'
<1>1. /\ NULL \notin DOMAIN cells /\ DOMAIN cells \subseteq Node /\ CellType(cells)
      /\ cellDrops \in BOOLEAN /\ out \in Elem \cup {None}
  BY DequeFacts
<1>2. PICK p : DequeAt(p)
  BY DEF DequeInv
<1>3. pc = "push_old" /\ cells' = [cells EXCEPT ![old].prev = new, ![new].strong = @ + 1]
      /\ borrowed' = borrowed /\ head' = head /\ tail' = tail /\ old' = old /\ new' = new
      /\ cellDrops' = cellDrops /\ out' = out
  BY DEF Deque!PushOld, Deque!Go, Deque!local
<1>4. /\ p # <<>> /\ new # NULL /\ Shape(cells, p, new, NULL) /\ cells[new].strong = 1
      /\ Held(NULL, Last(p), First(p), new, {})
  BY <1>2, <1>3 DEF DequeAt, Lone
<1>5. pc' = "push_new"
  BY <1>4 DEF Deque!PushOld, Deque!Go, Held
<1>6. old = p[1] /\ old \in DOMAIN cells /\ old # new /\ new \in DOMAIN cells
  BY <1>1, <1>4, ShapeFacts DEF Held, First, Shape
<1>7. /\ cells[old] \in [elem : Elem, prev : DOMAIN cells \cup {NULL}, next : DOMAIN cells \cup {NULL}, strong : Nat \ {0}]
      /\ cells[new] \in [elem : Elem, prev : DOMAIN cells \cup {NULL}, next : DOMAIN cells \cup {NULL}, strong : Nat \ {0}]
      /\ cells = [m \in DOMAIN cells |-> cells[m]]
  BY <1>1, <1>6, CellTypeIs
<1>8. /\ DOMAIN cells' = DOMAIN cells
      /\ cells'[old] = [cells[old] EXCEPT !.prev = new]
      /\ cells'[new] = [cells[new] EXCEPT !.strong = @ + 1]
      /\ \A m \in DOMAIN cells : m # old /\ m # new => cells'[m] = cells[m]
      /\ cells' = [m \in DOMAIN cells |-> cells'[m]]
  BY <1>3, <1>6, <1>7
<1>9. /\ cells'[old].prev = new /\ cells'[old].next = cells[old].next /\ cells'[old].strong = cells[old].strong
      /\ cells'[new].prev = cells[new].prev /\ cells'[new].next = cells[new].next /\ cells'[new].strong = 2
      /\ cells'[old] \in [elem : Elem, prev : DOMAIN cells \cup {NULL}, next : DOMAIN cells \cup {NULL}, strong : Nat \ {0}]
      /\ cells'[new] \in [elem : Elem, prev : DOMAIN cells \cup {NULL}, next : DOMAIN cells \cup {NULL}, strong : Nat \ {0}]
  BY <1>4, <1>6, <1>7, <1>8
<1>10. CellType(cells')
  <2>1. \A m \in DOMAIN cells : cells'[m] \in [elem : Elem, prev : DOMAIN cells \cup {NULL},
                                               next : DOMAIN cells \cup {NULL}, strong : Nat \ {0}]
    BY <1>1, <1>8, <1>9, CellTypeIs
  <2> QED
    BY <1>8, <2>1 DEF CellType
<1>11. cells[old].strong = 2
  BY <1>1, <1>4, <1>6, ShapeFacts DEF Shape
<1>12. Shape(cells', p, new, new)
  <2>1. cells'[p[1]].prev = new /\ cells'[p[1]].next = cells[p[1]].next /\ cells'[p[1]].strong = 2
    BY <1>6, <1>9, <1>11
  <2>2. \A m \in DOMAIN cells : m # new /\ m # p[1] => cells'[m] = cells[m]
    BY <1>6, <1>8
  <2> QED
    BY <1>1, <1>4, <1>8, <1>9, <2>1, <2>2, ShapeTurns
<1>13. DequeAt(p)'
  <2>1. Lone(p, new, new, 2)'
    BY <1>3, <1>9, <1>12 DEF Lone
  <2>2. Held(NULL, Last(p), First(p), new, {})'
    BY <1>3, <1>4 DEF Held
  <2> QED
    BY <1>3, <1>4, <1>5, <2>1, <2>2 DEF DequeAt
<1> QED
  BY <1>1, <1>3, <1>8, <1>10, <1>13, DequeType

(* The lone node takes the old head as its next, and is on the path. *)
LEMMA DequePushNew ==
  ASSUME DequeInv, Deque!PushNew
  PROVE  DequeInv'
<1>1. /\ NULL \notin DOMAIN cells /\ DOMAIN cells \subseteq Node /\ CellType(cells)
      /\ cellDrops \in BOOLEAN /\ out \in Elem \cup {None}
  BY DequeFacts
<1>2. PICK p : DequeAt(p)
  BY DEF DequeInv
<1>3. pc = "push_new" /\ cells' = [cells EXCEPT ![new].next = old]
      /\ borrowed' = borrowed /\ head' = head /\ tail' = tail /\ old' = NULL /\ new' = new
      /\ cellDrops' = cellDrops /\ out' = out
  BY DEF Deque!PushNew, Deque!Go, Deque!local
<1>4. /\ p # <<>> /\ new # NULL /\ Shape(cells, p, new, new) /\ cells[new].strong = 2
      /\ Held(NULL, Last(p), First(p), new, {})
  BY <1>2, <1>3 DEF DequeAt, Lone
<1>5. pc' = "push_head"
  BY <1>4 DEF Deque!PushNew, Deque!Go, Held
<1>6. old = p[1] /\ old \in DOMAIN cells /\ old # new /\ new \in DOMAIN cells
  BY <1>1, <1>4, ShapeFacts DEF Held, First, Shape
<1>7. /\ cells[new] \in [elem : Elem, prev : DOMAIN cells \cup {NULL}, next : DOMAIN cells \cup {NULL}, strong : Nat \ {0}]
      /\ cells = [m \in DOMAIN cells |-> cells[m]]
  BY <1>1, <1>6, CellTypeIs
<1>8. /\ DOMAIN cells' = DOMAIN cells
      /\ cells'[new] = [cells[new] EXCEPT !.next = old]
      /\ \A m \in DOMAIN cells : m # new => cells'[m] = cells[m]
      /\ cells' = [m \in DOMAIN cells |-> cells'[m]]
  BY <1>3, <1>6, <1>7
<1>9. /\ cells'[new].prev = cells[new].prev /\ cells'[new].next = old /\ cells'[new].strong = 2
      /\ cells'[new] \in [elem : Elem, prev : DOMAIN cells \cup {NULL}, next : DOMAIN cells \cup {NULL}, strong : Nat \ {0}]
  BY <1>4, <1>6, <1>7, <1>8
<1>10. CellType(cells')
  <2>1. \A m \in DOMAIN cells : cells'[m] \in [elem : Elem, prev : DOMAIN cells \cup {NULL},
                                               next : DOMAIN cells \cup {NULL}, strong : Nat \ {0}]
    BY <1>1, <1>8, <1>9, CellTypeIs
  <2> QED
    BY <1>8, <2>1 DEF CellType
<1>20. PICK q : q = <<new>> \o p
  OBVIOUS
<1>11. Shape(cells', q, NULL, NULL)
  BY <1>1, <1>4, <1>6, <1>8, <1>9, <1>20, ShapePush
<1>12. q # <<>> /\ First(q) = new /\ Last(q) = Last(p)
  <2>1. Len(p) \in Nat /\ Len(p) \in 1..Len(p) /\ p \in Seq(DOMAIN cells)
    BY <1>1, <1>4, ShapeFacts DEF Shape
  <2>2. Len(q) = Len(p) + 1 /\ q[1] = new /\ q[Len(p) + 1] = p[Len(p)] /\ q # <<>>
    BY <1>20, <2>1
  <2> QED
    BY <1>4, <2>2 DEF First, Last
<1>13. DequeAt(q)'
  <2>1. Lone(q, NULL, NULL, 0)'
    BY <1>11 DEF Lone
  <2>2. Held(NULL, Last(q), NULL, First(q), {})'
    BY <1>3, <1>4, <1>12 DEF Held
  <2> QED
    BY <1>5, <1>12, <2>1, <2>2 DEF DequeAt
<1> QED
  BY <1>1, <1>3, <1>8, <1>10, <1>13, DequeType

(* The statements that write no cell. *)
LEMMA DequeMoves ==
  ASSUME DequeInv, Deque!New \/ Deque!PushHead \/ Deque!PopTake \/ Deque!PopHead \/ Deque!Drop
  PROVE  DequeInv'
<1>1. /\ NULL \notin DOMAIN cells /\ DOMAIN cells \subseteq Node /\ CellType(cells)
      /\ cellDrops \in BOOLEAN /\ out \in Elem \cup {None}
  BY DequeFacts
<1>2. PICK p : DequeAt(p)
  BY DEF DequeInv
<1>3. cells' = cells /\ cellDrops' \in BOOLEAN /\ out' \in Elem \cup {None}
  BY <1>1 DEF Deque!New, Deque!PushHead, Deque!PopTake, Deque!PopHead, Deque!Drop
<1>5. CASE Deque!New
  <2>1. pc = "dropped" /\ pc' = "rest" /\ UNCHANGED <<borrowed, head, tail, old, new>>
    BY <1>5 DEF Deque!New, Deque!Go, Deque!local
  <2>2. p = <<>> /\ Shape(cells, p, NULL, NULL) /\ Held(NULL, NULL, NULL, NULL, {})
    BY <1>2, <2>1 DEF DequeAt, Lone
  <2>3. DequeAt(p)'
    BY <1>3, <2>1, <2>2 DEF DequeAt, Lone, Held, First, Last
  <2> QED
    BY <1>1, <1>3, <2>3, DequeType
<1>6. CASE Deque!PushHead
  <2>1. pc = "push_head" /\ pc' = "rest" /\ head' = new /\ new' = NULL /\ UNCHANGED <<borrowed, tail, old>>
    BY <1>6 DEF Deque!PushHead, Deque!Go
  <2>2. p # <<>> /\ Shape(cells, p, NULL, NULL) /\ Held(NULL, Last(p), NULL, First(p), {})
    BY <1>2, <2>1 DEF DequeAt, Lone
  <2>3. DequeAt(p)'
    BY <1>3, <2>1, <2>2 DEF DequeAt, Lone, Held
  <2> QED
    BY <1>1, <1>3, <2>3, DequeType
<1>7. CASE Deque!PopTake
  <2>1. pc = "rest" /\ UNCHANGED <<borrowed, tail>>
    BY <1>7 DEF Deque!PopTake
  <2>2. Shape(cells, p, NULL, NULL) /\ Held(First(p), Last(p), NULL, NULL, {})
    BY <1>2, <2>1 DEF DequeAt, Lone
  <2>3. CASE head = NULL
    <3>1. p = <<>>
      BY <1>1, <2>2, <2>3, ShapeFacts DEF Held, First
    <3>2. pc' \in {"rest", "dropped"} /\ UNCHANGED <<head, old, new>>
      BY <1>7, <2>3 DEF Deque!PopTake, Deque!local
    <3>3. DequeAt(p)'
      BY <1>3, <2>1, <2>2, <3>1, <3>2 DEF DequeAt, Lone, Held, First, Last
    <3> QED
      BY <1>1, <1>3, <3>3, DequeType
  <2>4. CASE head # NULL
    <3>1. p # <<>>
      BY <2>2, <2>4 DEF Held, First
    <3>2. pc' = "pop_next" /\ old' = head /\ head' = NULL /\ new' = new
      BY <1>7, <2>4 DEF Deque!PopTake
    <3>3. DequeAt(p)'
      BY <1>3, <2>1, <2>2, <3>1, <3>2 DEF DequeAt, Lone, Held
    <3> QED
      BY <1>1, <1>3, <3>3, DequeType
  <2> QED
    BY <2>3, <2>4
<1>8. CASE Deque!PopHead
  <2>1. pc = "pop_head" /\ pc' = "pop_unwrap" /\ head' = new /\ new' = NULL /\ borrowed' = borrowed \ {old}
        /\ UNCHANGED <<tail, old>>
    BY <1>8 DEF Deque!PopHead, Deque!Go
  <2>2. /\ p # <<>> /\ old # NULL /\ Shape(cells, p, old, NULL) /\ cells[old].strong = 1
        /\ Held(NULL, Last(p), old, First(p), {old})
    BY <1>2, <2>1 DEF DequeAt, Lone
  <2>3. DequeAt(p)'
    BY <1>3, <2>1, <2>2 DEF DequeAt, Lone, Held
  <2> QED
    BY <1>1, <1>3, <2>3, DequeType
<1>9. CASE Deque!Drop
  <2>1. pc = "rest" /\ pc' = pc /\ UNCHANGED <<borrowed, head, tail, old, new>>
    BY <1>9 DEF Deque!Drop, Deque!local
  <2>2. Shape(cells, p, NULL, NULL) /\ Held(First(p), Last(p), NULL, NULL, {})
    BY <1>2, <2>1 DEF DequeAt, Lone
  <2>3. DequeAt(p)'
    BY <1>3, <2>1, <2>2 DEF DequeAt, Lone, Held
  <2> QED
    BY <1>1, <1>3, <2>3, DequeType
<1> QED
  BY <1>5, <1>6, <1>7, <1>8, <1>9

(* The head leaves the path; if it was all of it, tail still owns it. *)
LEMMA DequePopNext ==
  ASSUME DequeInv, Deque!PopNext
  PROVE  DequeInv'
<1>1. /\ NULL \notin DOMAIN cells /\ DOMAIN cells \subseteq Node /\ CellType(cells)
      /\ cellDrops \in BOOLEAN /\ out \in Elem \cup {None}
  BY DequeFacts
<1>2. PICK p : DequeAt(p)
  BY DEF DequeInv
<1>3. pc = "pop_next" /\ head' = head /\ tail' = tail /\ old' = old /\ cellDrops' = cellDrops /\ out' = out
  BY DEF Deque!PopNext
<1>4. /\ p # <<>> /\ Shape(cells, p, NULL, NULL)
      /\ Held(NULL, Last(p), First(p), NULL, {})
  BY <1>2, <1>3 DEF DequeAt, Lone
<1>5. /\ cells' = [cells EXCEPT ![old].next = NULL] /\ new' = cells[old].next /\ borrowed' = borrowed \cup {old}
      /\ pc' = IF cells[old].next = NULL THEN "pop_tail" ELSE "pop_prev"
  BY <1>4 DEF Deque!PopNext, Held
<1>6. old = p[1] /\ old \in DOMAIN cells /\ old # NULL
  BY <1>1, <1>4, ShapeFacts DEF Held, First
<1>7. /\ cells[old] \in [elem : Elem, prev : DOMAIN cells \cup {NULL}, next : DOMAIN cells \cup {NULL}, strong : Nat \ {0}]
      /\ cells = [m \in DOMAIN cells |-> cells[m]]
  BY <1>1, <1>6, CellTypeIs
<1>8. /\ DOMAIN cells' = DOMAIN cells
      /\ cells'[old] = [cells[old] EXCEPT !.next = NULL]
      /\ \A m \in DOMAIN cells : m # old => cells'[m] = cells[m]
      /\ cells' = [m \in DOMAIN cells |-> cells'[m]]
  BY <1>5, <1>6, <1>7
<1>9. /\ cells'[old].prev = cells[old].prev /\ cells'[old].next = NULL /\ cells'[old].strong = cells[old].strong
      /\ cells'[old] \in [elem : Elem, prev : DOMAIN cells \cup {NULL}, next : DOMAIN cells \cup {NULL}, strong : Nat \ {0}]
  BY <1>7, <1>8
<1>10. CellType(cells')
  <2>1. \A m \in DOMAIN cells : cells'[m] \in [elem : Elem, prev : DOMAIN cells \cup {NULL},
                                               next : DOMAIN cells \cup {NULL}, strong : Nat \ {0}]
    BY <1>1, <1>8, <1>9, CellTypeIs
  <2> QED
    BY <1>8, <2>1 DEF CellType
<1>11. PICK t : t = Tail(p)
  OBVIOUS
<1>12. /\ Shape(cells', t, old, old) /\ cells'[old].strong = 2
       /\ cells[old].next = (IF t = <<>> THEN NULL ELSE t[1])
       /\ t # <<>> => t[Len(t)] = p[Len(p)]
  <2>1. /\ cells'[p[1]].next = NULL /\ cells'[p[1]].prev = cells[p[1]].prev
        /\ cells'[p[1]].strong = cells[p[1]].strong
        /\ \A m \in DOMAIN cells : m # p[1] => cells'[m] = cells[m]
    BY <1>6, <1>8, <1>9
  <2>2. /\ Shape(cells', Tail(p), p[1], p[1]) /\ cells'[p[1]].strong = 2
        /\ cells[p[1]].next = (IF Tail(p) = <<>> THEN NULL ELSE Tail(p)[1])
        /\ Tail(p) # <<>> => Tail(p)[Len(Tail(p))] = p[Len(p)]
    BY <1>1, <1>4, <1>8, <2>1, ShapePop
  <2> QED
    BY <1>6, <1>11, <2>2, Zenon
<1>13. CASE t = <<>>
  <2>1. Len(p) = 1
    <3>1. p \in Seq(DOMAIN cells) /\ Len(p) \in Nat
      BY <1>1, <1>4 DEF Shape
    <3>2. Len(Tail(p)) = Len(p) - 1
      BY <1>4, <3>1
    <3>3. Len(Tail(p)) = 0
      <4>1. Len(t) = 0
        BY <1>13
      <4> QED
        BY <1>11, <4>1, Zenon
    <3> QED
      BY <3>1, <3>2, <3>3
  <2>2. tail = old
    BY <1>4, <1>6, <2>1 DEF Held, Last
  <2>3. Shape(cells', t, old, NULL)
    BY <1>12, <1>13 DEF Shape
  <2>4. Lone(t, old, NULL, 2)'
    BY <1>3, <1>12, <2>3 DEF Lone
  <2>5. Held(NULL, old, old, NULL, {old})'
    BY <1>3, <1>4, <1>5, <1>12, <1>13, <2>2 DEF Held
  <2>6. pc' = "pop_tail" /\ old' # NULL
    BY <1>3, <1>5, <1>6, <1>12, <1>13
  <2>7. DequeAt(t)'
    BY <1>13, <2>4, <2>5, <2>6 DEF DequeAt
  <2> QED
    BY <1>1, <1>3, <1>8, <1>10, <2>7, DequeType
<1>14. CASE t # <<>>
  <2>1. cells[old].next # NULL
    <3>1. t[1] # NULL
      BY <1>1, <1>8, <1>12, <1>14, ShapeFacts
    <3> QED
      BY <1>12, <1>14, <3>1
  <2>2. Lone(t, old, old, 2)'
    BY <1>3, <1>12 DEF Lone
  <2>3. Held(NULL, Last(t), old, First(t), {old})'
    BY <1>3, <1>4, <1>5, <1>12, <1>14 DEF Held, First, Last
  <2>4. pc' = "pop_prev" /\ old' # NULL
    BY <1>3, <1>5, <1>6, <2>1
  <2>5. DequeAt(t)'
    BY <1>14, <2>2, <2>3, <2>4 DEF DequeAt
  <2> QED
    BY <1>1, <1>3, <1>8, <1>10, <2>5, DequeType
<1> QED
  BY <1>13, <1>14

(* The second node lets go of the old head, whose count falls to 1. *)
LEMMA DequePopPrev ==
  ASSUME DequeInv, Deque!PopPrev
  PROVE  DequeInv'
<1>1. /\ NULL \notin DOMAIN cells /\ DOMAIN cells \subseteq Node /\ CellType(cells)
      /\ cellDrops \in BOOLEAN /\ out \in Elem \cup {None}
  BY DequeFacts
<1>2. PICK p : DequeAt(p)
  BY DEF DequeInv
<1>3. pc = "pop_prev" /\ borrowed' = borrowed /\ head' = head /\ tail' = tail /\ old' = old /\ new' = new
      /\ cellDrops' = cellDrops /\ out' = out
  BY DEF Deque!PopPrev, Deque!local
<1>4. /\ p # <<>> /\ old # NULL /\ Shape(cells, p, old, old) /\ cells[old].strong = 2
      /\ Held(NULL, Last(p), old, First(p), {old})
  BY <1>2, <1>3 DEF DequeAt, Lone
<1>5. new = p[1] /\ new \in DOMAIN cells /\ new # old /\ old \in DOMAIN cells
  BY <1>1, <1>4, ShapeFacts DEF Held, First, Shape
<1>6. cells[new].prev = old /\ cells[new].strong = 2
  BY <1>1, <1>4, <1>5, ShapeFacts DEF Shape
<1>7. pc' = "pop_head" /\ cells' = [cells EXCEPT ![old].strong = @ - 1, ![new].prev = NULL]
  BY <1>4, <1>5, <1>6 DEF Deque!PopPrev, Held
<1>8. /\ cells[old] \in [elem : Elem, prev : DOMAIN cells \cup {NULL}, next : DOMAIN cells \cup {NULL}, strong : Nat \ {0}]
      /\ cells[new] \in [elem : Elem, prev : DOMAIN cells \cup {NULL}, next : DOMAIN cells \cup {NULL}, strong : Nat \ {0}]
      /\ cells = [m \in DOMAIN cells |-> cells[m]]
  BY <1>1, <1>5, CellTypeIs
<1>9. /\ DOMAIN cells' = DOMAIN cells
      /\ cells'[old] = [cells[old] EXCEPT !.strong = @ - 1]
      /\ cells'[new] = [cells[new] EXCEPT !.prev = NULL]
      /\ \A m \in DOMAIN cells : m # old /\ m # new => cells'[m] = cells[m]
      /\ cells' = [m \in DOMAIN cells |-> cells'[m]]
  BY <1>5, <1>7, <1>8
<1>10. /\ cells'[new].prev = NULL /\ cells'[new].next = cells[new].next /\ cells'[new].strong = 2
       /\ cells'[old].prev = cells[old].prev /\ cells'[old].next = cells[old].next /\ cells'[old].strong = 1
       /\ cells'[old] \in [elem : Elem, prev : DOMAIN cells \cup {NULL}, next : DOMAIN cells \cup {NULL}, strong : Nat \ {0}]
       /\ cells'[new] \in [elem : Elem, prev : DOMAIN cells \cup {NULL}, next : DOMAIN cells \cup {NULL}, strong : Nat \ {0}]
  BY <1>4, <1>6, <1>8, <1>9
<1>11. CellType(cells')
  <2>1. \A m \in DOMAIN cells : cells'[m] \in [elem : Elem, prev : DOMAIN cells \cup {NULL},
                                               next : DOMAIN cells \cup {NULL}, strong : Nat \ {0}]
    BY <1>1, <1>9, <1>10, CellTypeIs
  <2> QED
    BY <1>9, <2>1 DEF CellType
<1>12. Shape(cells', p, old, NULL)
  <2>1. cells'[p[1]].prev = NULL /\ cells'[p[1]].next = cells[p[1]].next /\ cells'[p[1]].strong = 2
    BY <1>5, <1>10
  <2>2. \A m \in DOMAIN cells : m # old /\ m # p[1] => cells'[m] = cells[m]
    BY <1>5, <1>9
  <2> QED
    BY <1>1, <1>4, <1>9, <1>10, <2>1, <2>2, ShapeTurns
<1>13. DequeAt(p)'
  <2>1. Lone(p, old, NULL, 1)'
    BY <1>3, <1>10, <1>12 DEF Lone
  <2>2. Held(NULL, Last(p), old, First(p), {old})'
    BY <1>3, <1>4 DEF Held
  <2> QED
    BY <1>3, <1>4, <1>7, <2>1, <2>2 DEF DequeAt
<1> QED
  BY <1>1, <1>3, <1>9, <1>11, <1>13, DequeType

(* tail lets go of the last node, whose count falls to 1. *)
LEMMA DequePopTail ==
  ASSUME DequeInv, Deque!PopTail
  PROVE  DequeInv'
<1>1. /\ NULL \notin DOMAIN cells /\ DOMAIN cells \subseteq Node /\ CellType(cells)
      /\ cellDrops \in BOOLEAN /\ out \in Elem \cup {None}
  BY DequeFacts
<1>2. PICK p : DequeAt(p)
  BY DEF DequeInv
<1>3. pc = "pop_tail" /\ pc' = "pop_unwrap" /\ cells' = [cells EXCEPT ![tail].strong = @ - 1]
      /\ tail' = NULL /\ borrowed' = borrowed \ {old} /\ head' = head /\ old' = old /\ new' = new
      /\ cellDrops' = cellDrops /\ out' = out
  BY DEF Deque!PopTail, Deque!Go, Deque!local
<1>4. /\ p = <<>> /\ old # NULL /\ Shape(cells, p, old, NULL) /\ cells[old].strong = 2
      /\ Held(NULL, old, old, NULL, {old})
  BY <1>2, <1>3 DEF DequeAt, Lone
<1>5. old \in DOMAIN cells /\ tail = old
  BY <1>4 DEF Held, Shape
<1>6. /\ cells[old] \in [elem : Elem, prev : DOMAIN cells \cup {NULL}, next : DOMAIN cells \cup {NULL}, strong : Nat \ {0}]
      /\ cells = [m \in DOMAIN cells |-> cells[m]]
  BY <1>1, <1>5, CellTypeIs
<1>7. /\ DOMAIN cells' = DOMAIN cells
      /\ cells'[old] = [cells[old] EXCEPT !.strong = @ - 1]
      /\ \A m \in DOMAIN cells : m # old => cells'[m] = cells[m]
      /\ cells' = [m \in DOMAIN cells |-> cells'[m]]
  BY <1>3, <1>5, <1>6
<1>8. /\ cells'[old].prev = cells[old].prev /\ cells'[old].next = cells[old].next /\ cells'[old].strong = 1
      /\ cells'[old] \in [elem : Elem, prev : DOMAIN cells \cup {NULL}, next : DOMAIN cells \cup {NULL}, strong : Nat \ {0}]
  BY <1>4, <1>6, <1>7
<1>9. CellType(cells')
  <2>1. \A m \in DOMAIN cells : cells'[m] \in [elem : Elem, prev : DOMAIN cells \cup {NULL},
                                               next : DOMAIN cells \cup {NULL}, strong : Nat \ {0}]
    BY <1>1, <1>7, <1>8, CellTypeIs
  <2> QED
    BY <1>7, <2>1 DEF CellType
<1>10. Shape(cells', p, old, NULL)
  BY <1>4, <1>7, <1>8 DEF Shape
<1>11. DequeAt(p)'
  <2>1. Lone(p, old, NULL, 1)'
    BY <1>3, <1>8, <1>10 DEF Lone
  <2>2. Held(First(p), Last(p), old, NULL, {})'
    BY <1>3, <1>4 DEF Held, First, Last
  <2> QED
    BY <1>3, <1>4, <2>1, <2>2 DEF DequeAt
<1> QED
  BY <1>1, <1>3, <1>7, <1>9, <1>11, DequeType

(* The lone node has one owner, so the unwrap succeeds and frees it. *)
LEMMA DequePopUnwrap ==
  ASSUME DequeInv, Deque!PopUnwrap
  PROVE  DequeInv'
<1>1. /\ NULL \notin DOMAIN cells /\ DOMAIN cells \subseteq Node /\ CellType(cells)
      /\ cellDrops \in BOOLEAN
  BY DequeFacts
<1>2. PICK p : DequeAt(p)
  BY DEF DequeInv
<1>3. pc = "pop_unwrap" /\ borrowed' = borrowed /\ head' = head /\ tail' = tail /\ new' = new
      /\ cellDrops' = cellDrops
  BY DEF Deque!PopUnwrap
<1>4. /\ old # NULL /\ Shape(cells, p, old, NULL) /\ cells[old].strong = 1
      /\ Held(First(p), Last(p), old, NULL, {})
  BY <1>2, <1>3 DEF DequeAt, Lone
<1>5. pc' = "rest" /\ out' = cells[old].elem /\ old' = NULL /\ cells' = [n \in DOMAIN cells \ {old} |-> cells[n]]
  BY <1>4 DEF Deque!PopUnwrap
<1>6. old \in DOMAIN cells
  BY <1>4 DEF Shape
<1>7. out' \in Elem \cup {None}
  BY <1>1, <1>5, <1>6, CellTypeIs
<1>8. DOMAIN cells' = DOMAIN cells \ {old} /\ \A m \in DOMAIN cells' : cells'[m] = cells[m]
  BY <1>5
<1>9. Shape(cells', p, NULL, NULL)
  BY <1>1, <1>4, <1>8, ShapeFree
<1>10. CellType(cells')
  <2>1. NULL \notin DOMAIN cells'
    BY <1>1, <1>8
  <2>2. ASSUME NEW m \in DOMAIN cells'
        PROVE  cells[m] \in [elem : Elem, prev : DOMAIN cells' \cup {NULL},
                             next : DOMAIN cells' \cup {NULL}, strong : Nat \ {0}]
    <3>1. cells'[m].next \in DOMAIN cells' \cup {NULL} /\ cells'[m].prev \in DOMAIN cells' \cup {NULL}
      BY <1>9, <2>1, ShapeLinks
    <3>2. cells[m] \in [elem : Elem, prev : DOMAIN cells \cup {NULL}, next : DOMAIN cells \cup {NULL}, strong : Nat \ {0}]
      BY <1>1, <1>8, CellTypeIs
    <3>3. cells'[m] = cells[m]
      BY <1>8
    <3> QED
      BY <3>1, <3>2, <3>3
  <2> QED
    BY <1>5, <1>8, <2>2 DEF CellType
<1>11. DequeAt(p)'
  <2>1. Lone(p, NULL, NULL, 0)'
    BY <1>9 DEF Lone
  <2>2. Held(First(p), Last(p), NULL, NULL, {})'
    BY <1>3, <1>4, <1>5 DEF Held
  <2> QED
    BY <1>5, <2>1, <2>2 DEF DequeAt
<1> QED
  BY <1>1, <1>3, <1>7, <1>8, <1>10, <1>11, DequeType

(* Every statement keeps the invariant of the deque. *)
LEMMA DequeStep == DequeInv /\ Deque!Next => DequeInv'
BY DequePushTake, DequePushOld, DequePushNew, DequeMoves, DequePopNext, DequePopPrev, DequePopTail, DequePopUnwrap
   DEF Deque!Next, Deque!Push, Deque!Pop

(* Each of the four variables may own a node. *)
LEMMA VariablesCount ==
  ASSUME NEW n
  PROVE  Cardinality({v \in {"head", "tail", "old", "new"} :
                        n = CASE v = "head" -> head [] v = "tail" -> tail
                              [] v = "old" -> old [] v = "new" -> new})
         = (IF head = n THEN 1 ELSE 0) + (IF tail = n THEN 1 ELSE 0)
           + (IF old = n THEN 1 ELSE 0) + (IF new = n THEN 1 ELSE 0)
<1> DEFINE val(v) == CASE v = "head" -> head [] v = "tail" -> tail [] v = "old" -> old [] v = "new" -> new
           e1 == [v \in {"head"} |-> val(v)]
           e2 == [v \in {"head", "tail"} |-> val(v)]
           e3 == [v \in {"head", "tail", "old"} |-> val(v)]
           e4 == [v \in {"head", "tail", "old", "new"} |-> val(v)]
<1>1. val("head") = head
  BY Zenon
<1>2. val("tail") = tail
  <2>1. "tail" # "head"
    OBVIOUS
  <2> QED
    BY <2>1, Zenon
<1>3. val("old") = old
  <2>1. "old" # "head" /\ "old" # "tail"
    OBVIOUS
  <2> QED
    BY <2>1, Zenon
<1>4. val("new") = new
  <2>1. "new" # "head" /\ "new" # "tail" /\ "new" # "old"
    OBVIOUS
  <2> QED
    BY <2>1, Zenon
<1> HIDE DEF val
<1>6. IsFiniteSet(DOMAIN e1) /\ CountIn(e1, n) = IF head = n THEN 1 ELSE 0
  <2>1. DOMAIN e1 = {"head"} /\ e1["head"] = head
    BY <1>1
  <2> HIDE DEF e1
  <2>2. {x \in DOMAIN e1 : e1[x] = n} = IF head = n THEN {"head"} ELSE {}
    BY <2>1
  <2>3. IsFiniteSet({"head"}) /\ Cardinality({"head"}) = 1 /\ Cardinality({}) = 0
    BY FS_Singleton, FS_EmptySet
  <2> QED
    BY <2>1, <2>2, <2>3 DEF CountIn
<1>7. IsFiniteSet(DOMAIN e2) /\ CountIn(e2, n) = CountIn(e1, n) + IF tail = n THEN 1 ELSE 0
  <2>1. DOMAIN e2 = DOMAIN e1 \cup {"tail"} /\ "tail" \notin DOMAIN e1 /\ e2["tail"] = tail
        /\ \A x \in DOMAIN e1 : e2[x] = e1[x]
    BY <1>2
  <2> HIDE DEF e1, e2
  <2> QED
    BY <1>6, <2>1, CountOneMore
<1>8. IsFiniteSet(DOMAIN e3) /\ CountIn(e3, n) = CountIn(e2, n) + IF old = n THEN 1 ELSE 0
  <2>1. DOMAIN e3 = DOMAIN e2 \cup {"old"} /\ "old" \notin DOMAIN e2 /\ e3["old"] = old
        /\ \A x \in DOMAIN e2 : e3[x] = e2[x]
    BY <1>3
  <2> HIDE DEF e2, e3
  <2> QED
    BY <1>7, <2>1, CountOneMore
<1>9. CountIn(e4, n) = CountIn(e3, n) + IF new = n THEN 1 ELSE 0
  <2>1. DOMAIN e4 = DOMAIN e3 \cup {"new"} /\ "new" \notin DOMAIN e3 /\ e4["new"] = new
        /\ \A x \in DOMAIN e3 : e4[x] = e3[x]
    BY <1>4
  <2> HIDE DEF e3, e4
  <2> QED
    BY <1>8, <2>1, CountOneMore
<1>10. {v \in {"head", "tail", "old", "new"} : n = val(v)} = {v \in DOMAIN e4 : e4[v] = n}
  OBVIOUS
<1> HIDE DEF e1, e2, e3, e4
<1>11. Cardinality({v \in {"head", "tail", "old", "new"} : n = val(v)})
       = (IF head = n THEN 1 ELSE 0) + (IF tail = n THEN 1 ELSE 0)
         + (IF old = n THEN 1 ELSE 0) + (IF new = n THEN 1 ELSE 0)
  <2> DEFINE k == Cardinality({v \in {"head", "tail", "old", "new"} : n = val(v)})
  <2>1. k = CountIn(e4, n)
    BY <1>10 DEF CountIn
  <2> HIDE DEF k
  <2>2. k = (IF head = n THEN 1 ELSE 0) + (IF tail = n THEN 1 ELSE 0)
            + (IF old = n THEN 1 ELSE 0) + (IF new = n THEN 1 ELSE 0)
    BY <1>6, <1>7, <1>8, <1>9, <2>1
  <2> QED
    BY <2>2 DEF k
<1> QED
  BY <1>11, Zenon DEF val

(* How many nodes have a node as their next, their prev.                   *)
NextsTo(c, n) == Cardinality({m \in DOMAIN c : c[m].next = n})
PrevsTo(c, n) == Cardinality({m \in DOMAIN c : c[m].prev = n})

(* The neighbours of a node of the path own it, and nobody else's links.   *)
LEMMA NeighboursCount ==
  ASSUME NEW c, NULL \notin DOMAIN c, NEW p, NEW x, NEW f, Shape(c, p, x, f), f = x \/ f = NULL
  PROVE  /\ \A i \in 1..Len(p) : /\ NextsTo(c, p[i]) = IF i = 1 THEN 0 ELSE 1
                                 /\ PrevsTo(c, p[i]) = IF i = Len(p) THEN 0 ELSE 1
         /\ x # NULL => NextsTo(c, x) = 0 /\ PrevsTo(c, x) = IF f = x /\ p # <<>> THEN 1 ELSE 0
<1>1. /\ Len(p) \in Nat /\ \A i \in 1..Len(p) : p[i] \in DOMAIN c /\ p[i] # x /\ p[i] # NULL
      /\ p # <<>> => 1 \in 1..Len(p) /\ Len(p) \in 1..Len(p)
  BY ShapeFacts
<1>2. p = <<>> => Len(p) = 0
  OBVIOUS
<1>3. \A i, j \in 1..Len(p) : p[i] = p[j] => i = j
  BY DEF Shape
<1>4. \A m \in DOMAIN c : m = x \/ \E i \in 1..Len(p) : p[i] = m
  BY DEF Shape
<1>5. x # NULL => x \in DOMAIN c /\ c[x].next = NULL /\ c[x].prev = NULL
  BY DEF Shape
<1>6. \A i \in 1..Len(p) : /\ c[p[i]].next = IF i = Len(p) THEN NULL ELSE p[i + 1]
                           /\ c[p[i]].prev = IF i = 1 THEN f ELSE p[i - 1]
  BY DEF Shape
<1>7. Cardinality({}) = 0 /\ \A s : Cardinality({s}) = 1
  BY FS_EmptySet, FS_Singleton
<1>8. ASSUME NEW i \in 1..Len(p)
      PROVE  {m \in DOMAIN c : c[m].next = p[i]} = IF i = 1 THEN {} ELSE {p[i - 1]}
  <2>1. ASSUME NEW m \in DOMAIN c, c[m].next = p[i] PROVE i # 1 /\ m = p[i - 1]
    <3>1. m # x
      BY <1>1, <1>5, <2>1
    <3>2. PICK j \in 1..Len(p) : p[j] = m
      BY <1>4, <3>1
    <3>3. j # Len(p) /\ p[j + 1] = p[i]
      BY <1>1, <1>6, <2>1, <3>2
    <3>4. j + 1 \in 1..Len(p) /\ j \in Int
      BY <1>1, <3>3
    <3>5. j + 1 = i
      BY <1>3, <3>3, <3>4
    <3>6. i # 1 /\ i - 1 = j
      BY <1>1, <3>4, <3>5
    <3> QED
      BY <3>2, <3>6
  <2>2. ASSUME i # 1 PROVE p[i - 1] \in DOMAIN c /\ c[p[i - 1]].next = p[i]
    <3>1. i - 1 \in 1..Len(p) /\ i - 1 # Len(p) /\ (i - 1) + 1 = i
      BY <1>1, <2>2
    <3> QED
      BY <1>1, <1>6, <3>1
  <2> QED
    BY <2>1, <2>2
<1>9. ASSUME NEW i \in 1..Len(p)
      PROVE  {m \in DOMAIN c : c[m].prev = p[i]} = IF i = Len(p) THEN {} ELSE {p[i + 1]}
  <2>1. ASSUME NEW m \in DOMAIN c, c[m].prev = p[i] PROVE i # Len(p) /\ m = p[i + 1]
    <3>1. m # x
      BY <1>1, <1>5, <2>1
    <3>2. PICK j \in 1..Len(p) : p[j] = m
      BY <1>4, <3>1
    <3>3. j # 1 /\ p[j - 1] = p[i]
      BY <1>1, <1>6, <2>1, <3>2
    <3>4. j - 1 \in 1..Len(p) /\ j \in Int /\ j <= Len(p)
      BY <1>1, <3>3
    <3>5. j - 1 = i
      BY <1>3, <3>3, <3>4
    <3>6. i # Len(p) /\ i + 1 = j
      BY <1>1, <3>4, <3>5
    <3> QED
      BY <3>2, <3>6
  <2>2. ASSUME i # Len(p) PROVE p[i + 1] \in DOMAIN c /\ c[p[i + 1]].prev = p[i]
    <3>1. i + 1 \in 1..Len(p) /\ i + 1 # 1 /\ (i + 1) - 1 = i
      BY <1>1, <2>2
    <3> QED
      BY <1>1, <1>6, <3>1
  <2> QED
    BY <2>1, <2>2
<1>10. ASSUME x # NULL
       PROVE  /\ {m \in DOMAIN c : c[m].next = x} = {}
              /\ {m \in DOMAIN c : c[m].prev = x} = IF f = x /\ p # <<>> THEN {p[1]} ELSE {}
  <2>1. ASSUME NEW m \in DOMAIN c, c[m].next = x PROVE FALSE
    <3>1. PICK j \in 1..Len(p) : p[j] = m
      BY <1>4, <1>5, <1>10, <2>1
    <3>2. j # Len(p) => j + 1 \in 1..Len(p)
      BY <1>1
    <3> QED
      BY <1>1, <1>6, <1>10, <2>1, <3>1, <3>2
  <2>2. ASSUME NEW m \in DOMAIN c, c[m].prev = x PROVE f = x /\ p # <<>> /\ m = p[1]
    <3>1. PICK j \in 1..Len(p) : p[j] = m
      BY <1>4, <1>5, <1>10, <2>2
    <3>2. j # 1 => j - 1 \in 1..Len(p)
      BY <1>1
    <3>3. j = 1 /\ f = x
      BY <1>1, <1>6, <1>10, <2>2, <3>1, <3>2
    <3> QED
      BY <1>1, <1>2, <3>1, <3>3
  <2>3. ASSUME f = x, p # <<>> PROVE p[1] \in DOMAIN c /\ c[p[1]].prev = x
    BY <1>1, <1>6, <2>3
  <2> QED
    BY <2>1, <2>2, <2>3
<1>11. ASSUME NEW i \in 1..Len(p)
       PROVE  /\ NextsTo(c, p[i]) = IF i = 1 THEN 0 ELSE 1
              /\ PrevsTo(c, p[i]) = IF i = Len(p) THEN 0 ELSE 1
  <2>1. NextsTo(c, p[i]) = IF i = 1 THEN 0 ELSE 1
    BY <1>7, <1>8, Zenon DEF NextsTo
  <2>2. PrevsTo(c, p[i]) = IF i = Len(p) THEN 0 ELSE 1
    BY <1>7, <1>9, Zenon DEF PrevsTo
  <2> QED
    BY <2>1, <2>2
<1>12. x # NULL => NextsTo(c, x) = 0 /\ PrevsTo(c, x) = IF f = x /\ p # <<>> THEN 1 ELSE 0
  BY <1>7, <1>10 DEF NextsTo, PrevsTo
<1> QED
  BY <1>11, <1>12

(* How many of the variables own a node. *)
Held4(n) == (IF head = n THEN 1 ELSE 0) + (IF tail = n THEN 1 ELSE 0)
            + (IF old = n THEN 1 ELSE 0) + (IF new = n THEN 1 ELSE 0)

(* Two neighbours, or a neighbour and a variable, own each node. *)
LEMMA DequeCounts == DequeInv => Deque!CountsExact
<1> SUFFICES ASSUME DequeInv, NEW n \in DOMAIN cells PROVE cells[n].strong = Deque!Owners(n)
  BY DEF Deque!CountsExact
<1>1. NULL \notin DOMAIN cells
  BY DequeFacts
<1>2. PICK p : DequeAt(p)
  BY DEF DequeInv
<1> DEFINE nexts == NextsTo(cells, n)
           prevs == PrevsTo(cells, n)
<1>3. Deque!Owners(n) = nexts + prevs + Held4(n)
  BY SameCardinality, VariablesCount, Zenon DEF Deque!Owners, Held4, NextsTo, PrevsTo
<1>4. \A i \in 1..Len(p) : p[i] # NULL
  BY <1>1, <1>2, ShapeFacts DEF DequeAt, Lone
<1>5. ASSUME NEW x, NEW f, Shape(cells, p, x, f), f = x \/ f = NULL, NEW i \in 1..Len(p), p[i] = n
      PROVE  /\ cells[n].strong = 2 /\ nexts = (IF i = 1 THEN 0 ELSE 1) /\ prevs = IF i = Len(p) THEN 0 ELSE 1
             /\ n # x /\ n # NULL
             /\ n = First(p) <=> i = 1
             /\ n = Last(p) <=> i = Len(p)
  <2>1. nexts = (IF i = 1 THEN 0 ELSE 1) /\ prevs = IF i = Len(p) THEN 0 ELSE 1
    BY <1>1, <1>5, NeighboursCount
  <2>2. Len(p) \in Nat /\ p # <<>> /\ n # x /\ n # NULL /\ 1 \in 1..Len(p) /\ Len(p) \in 1..Len(p)
    BY <1>1, <1>5, ShapeFacts
  <2>3. (n = p[1] <=> i = 1) /\ (n = p[Len(p)] <=> i = Len(p))
    BY <1>5, <2>2 DEF Shape
  <2>4. cells[n].strong = 2
    BY <1>5 DEF Shape
  <2> QED
    BY <2>1, <2>2, <2>3, <2>4 DEF First, Last
<1>6. ASSUME NEW x, NEW f, Shape(cells, p, x, f), f = x \/ f = NULL, x # NULL, n = x
      PROVE  /\ nexts = 0 /\ prevs = (IF f = x /\ p # <<>> THEN 1 ELSE 0) /\ n # First(p) /\ n # Last(p) /\ n # NULL
  <2>1. nexts = 0 /\ prevs = IF f = x /\ p # <<>> THEN 1 ELSE 0
    BY <1>1, <1>6, NeighboursCount
  <2>2. n # First(p) /\ n # Last(p) /\ n # NULL
    BY <1>1, <1>6, ShapeFacts DEF First, Last
  <2> QED
    BY <2>1, <2>2
<1>7. ASSUME NEW x, NEW f, Shape(cells, p, x, f), n # x PROVE \E i \in 1..Len(p) : p[i] = n
  BY <1>7 DEF Shape
<1>8. CASE pc \in {"dropped", "rest", "push_head", "pop_next"}
  <2>1. Shape(cells, p, NULL, NULL) /\ Len(p) \in Nat /\ n # NULL
    BY <1>1, <1>2, <1>8, ShapeFacts DEF DequeAt, Lone
  <2>2. PICK i \in 1..Len(p) : p[i] = n
    BY <1>7, <2>1
  <2>3. Held4(n) = (IF i = 1 THEN 1 ELSE 0) + IF i = Len(p) THEN 1 ELSE 0
    <3>1. /\ n = First(p) <=> i = 1
          /\ n = Last(p) <=> i = Len(p)
      BY <1>5, <2>1, <2>2
    <3>2. tail = Last(p) /\ \/ head = First(p) /\ old = NULL /\ new = NULL
                            \/ head = NULL /\ old = First(p) /\ new = NULL
                            \/ head = NULL /\ old = NULL /\ new = First(p)
      BY <1>2, <1>8 DEF DequeAt, Held, First, Last
    <3> HIDE DEF First, Last
    <3> QED
      BY <2>1, <3>1, <3>2 DEF Held4
  <2> QED
    BY <1>3, <1>5, <2>1, <2>2, <2>3
<1>9. CASE pc \in {"push_old", "push_new", "pop_prev", "pop_head", "pop_tail", "pop_unwrap"}
  <2>1. PICK x, f : /\ Shape(cells, p, x, f) /\ (f = x \/ f = NULL) /\ x # NULL
                    /\ \/ /\ p # <<>> /\ cells[x].strong = IF f = x THEN 2 ELSE 1
                          /\ head = NULL /\ tail = Last(p)
                          /\ (old = First(p) /\ new = x) \/ (old = x /\ new = First(p))
                       \/ /\ p = <<>> /\ cells[x].strong = 2
                          /\ head = NULL /\ tail = x /\ old = x /\ new = NULL
                       \/ /\ f = NULL /\ cells[x].strong = 1
                          /\ head = First(p) /\ tail = Last(p) /\ old = x /\ new = NULL
    BY <1>2, <1>9 DEF DequeAt, Lone, Held
  <2>2. CASE n = x
    <3>1. nexts = 0 /\ prevs = (IF f = x /\ p # <<>> THEN 1 ELSE 0) /\ n # First(p) /\ n # Last(p) /\ n # NULL
      BY <1>6, <2>1, <2>2
    <3> QED
      BY <1>3, <2>1, <2>2, <3>1 DEF Held4
  <2>3. CASE n # x
    <3>1. PICK i \in 1..Len(p) : p[i] = n
      BY <1>7, <2>1, <2>3
    <3>2. /\ cells[n].strong = 2 /\ nexts = (IF i = 1 THEN 0 ELSE 1) /\ prevs = (IF i = Len(p) THEN 0 ELSE 1)
          /\ n # x /\ n # NULL
          /\ n = First(p) <=> i = 1
          /\ n = Last(p) <=> i = Len(p)
      BY <1>5, <2>1, <3>1
    <3>3. p # <<>>
      BY <3>1
    <3> QED
      BY <1>3, <2>1, <3>2, <3>3 DEF Held4
  <2> QED
    BY <2>2, <2>3
<1>10. \/ pc \in {"dropped", "rest", "push_head", "pop_next"}
       \/ pc \in {"push_old", "push_new", "pop_prev", "pop_head", "pop_tail", "pop_unwrap"}
  BY <1>2 DEF DequeAt
<1> QED
  BY <1>8, <1>9, <1>10

(* Between calls the path is linked both ways, from head to tail. *)
LEMMA DequeLinks == DequeInv => Deque!Linked
<1> SUFFICES ASSUME DequeInv, pc = "rest"
             PROVE  /\ head = NULL <=> tail = NULL
                    /\ \A m \in DOMAIN cells :
                         /\ cells[m].prev = NULL <=> m = head
                         /\ cells[m].next = NULL <=> m = tail
                         /\ \A n \in DOMAIN cells : cells[m].next = n <=> cells[n].prev = m
  BY DEF Deque!Linked
<1>1. NULL \notin DOMAIN cells
  BY DequeFacts
<1>2. PICK p : DequeAt(p)
  BY DEF DequeInv
<1>3. Shape(cells, p, NULL, NULL) /\ head = First(p) /\ tail = Last(p)
  BY <1>2 DEF DequeAt, Lone, Held
<1>4. /\ Len(p) \in Nat /\ \A i \in 1..Len(p) : p[i] \in DOMAIN cells /\ p[i] # NULL
      /\ p # <<>> => 1 \in 1..Len(p) /\ Len(p) \in 1..Len(p)
  BY <1>1, <1>3, ShapeFacts
<1>5. \A i, j \in 1..Len(p) : p[i] = p[j] => i = j
  BY <1>3 DEF Shape
<1>6. \A i \in 1..Len(p) : /\ cells[p[i]].next = IF i = Len(p) THEN NULL ELSE p[i + 1]
                           /\ cells[p[i]].prev = IF i = 1 THEN NULL ELSE p[i - 1]
  BY <1>3 DEF Shape
<1>7. \A m \in DOMAIN cells : \E i \in 1..Len(p) : p[i] = m
  BY <1>1, <1>3 DEF Shape
<1>8. head = NULL <=> tail = NULL
  BY <1>3, <1>4 DEF First, Last
<1>9. ASSUME NEW m \in DOMAIN cells
      PROVE  /\ cells[m].prev = NULL <=> m = head
             /\ cells[m].next = NULL <=> m = tail
             /\ \A n \in DOMAIN cells : cells[m].next = n <=> cells[n].prev = m
  <2>1. PICK i \in 1..Len(p) : p[i] = m
    BY <1>7
  <2>2. p # <<>> /\ i \in Int /\ (i # Len(p) => i + 1 \in 1..Len(p)) /\ (i # 1 => i - 1 \in 1..Len(p))
    BY <1>4, <2>1
  <2>3. head = p[1] /\ tail = p[Len(p)]
    BY <1>3, <2>2 DEF First, Last
  <2>4. (m = head <=> i = 1) /\ (m = tail <=> i = Len(p))
    BY <1>4, <1>5, <2>1, <2>2, <2>3
  <2>5. (cells[m].prev = NULL <=> i = 1) /\ (cells[m].next = NULL <=> i = Len(p))
    BY <1>4, <1>6, <2>1, <2>2
  <2>6. ASSUME NEW n \in DOMAIN cells PROVE cells[m].next = n <=> cells[n].prev = m
    <3>1. PICK j \in 1..Len(p) : p[j] = n
      BY <1>7
    <3>2. j \in Int /\ (j # 1 => j - 1 \in 1..Len(p))
      BY <1>4, <3>1
    <3>3. cells[m].next = n <=> i # Len(p) /\ i + 1 = j
      BY <1>4, <1>5, <1>6, <2>1, <2>2, <3>1
    <3>4. cells[n].prev = m <=> j # 1 /\ j - 1 = i
      BY <1>4, <1>5, <1>6, <2>1, <3>1, <3>2
    <3>5. (i # Len(p) /\ i + 1 = j) <=> (j # 1 /\ j - 1 = i)
      BY <1>4, <2>2, <3>2
    <3> QED
      BY <3>3, <3>4, <3>5
  <2> QED
    BY <2>4, <2>5, <2>6
<1> QED
  BY <1>8, <1>9

(* What the path of the statement means for the properties. *)
LEMMA DequeSafe ==
  DequeInv => Deque!TypeOK /\ Deque!CountsExact /\ Deque!Linked /\ Deque!NeverPanics /\ Deque!NoLeak
<1> SUFFICES ASSUME DequeInv PROVE Deque!NeverPanics /\ Deque!NoLeak
  BY DequeCounts, DequeLinks DEF DequeInv
<1>1. PICK p : DequeAt(p)
  BY DEF DequeInv
<1>2. Deque!NeverPanics
  BY <1>1 DEF DequeAt, Deque!NeverPanics
<1>3. ASSUME pc = "dropped" PROVE cells = [n \in {} |-> n]
  <2>1. p = <<>> /\ Shape(cells, p, NULL, NULL) /\ NULL \notin DOMAIN cells /\ CellType(cells)
    BY <1>1, <1>3, DequeFacts DEF DequeAt, Lone
  <2>2. \A n \in DOMAIN cells : FALSE
    BY <2>1 DEF Shape
  <2>3. DOMAIN cells = {}
    BY <2>2
  <2>4. cells = [n \in DOMAIN cells |-> cells[n]]
    BY <2>1 DEF CellType
  <2> QED
    BY <2>3, <2>4
<1> QED
  BY <1>2, <1>3 DEF Deque!NoLeak

-----------------------------------------------------------------------------
(* The lists side by side: one of them steps, the others stay as they are. *)
Inv == BoxInv /\ RcInv /\ DequeInv

(* No list exists yet. *)
LEMMA InvInit == Init => Inv
BY BoxInit, RcInit, DequeInit DEF Init, Inv

(* A step of one list keeps the invariants of all. *)
LEMMA InvStep == Inv /\ [Next]_vars => Inv'
<1> SUFFICES ASSUME Inv, [Next]_vars PROVE Inv'
  OBVIOUS
<1>0. BoxInv /\ RcInv /\ DequeInv
  BY DEF Inv
<1>1. CASE UsesBox
  BY <1>0, <1>1, BoxStep, RcIdle, DequeIdle DEF UsesBox, Inv
<1>2. CASE UsesRc
  BY <1>0, <1>2, BoxIdle, RcStep, DequeIdle DEF UsesRc, Inv
<1>3. CASE UsesDeque
  BY <1>0, <1>3, BoxIdle, RcIdle, DequeStep DEF UsesDeque, Inv
<1>4. CASE UNCHANGED vars
  <2>1. UNCHANGED boxVars /\ UNCHANGED rcVars /\ UNCHANGED dequeVars
    BY <1>4 DEF vars
  <2> QED
    BY <1>0, <2>1, BoxIdle, RcIdle, DequeIdle DEF Inv
<1> QED
  BY <1>1, <1>2, <1>3, <1>4 DEF Next

(* The invariant implies every property that the runs check. *)
LEMMA InvSafe ==
  Inv => /\ TypeOK /\ NothingLeaks /\ CountsExact /\ NeverPanics /\ InOrder
         /\ ~Debug => ShallowDrop
BY BoxSafe, RcSafe, DequeSafe
   DEF Inv, TypeOK, NothingLeaks, CountsExact, NeverPanics, InOrder, ShallowDrop

(* The invariants of the three lists hold in every state of a program. *)
THEOREM Invariant == Spec => []Inv
BY InvInit, InvStep, PTL DEF Spec

(* Every link of every list is NULL or a node that is allocated: nothing   *)
(* is used after it was freed.                                             *)
THEOREM TypeCorrect == Spec => []TypeOK
BY Invariant, InvSafe, PTL

(* No sequence of calls leaks a node of second_gene.rs, third.rs or, once  *)
(* the deque was dropped, fourth.rs.                                       *)
THEOREM NoLeaks == Spec => []NothingLeaks
BY Invariant, InvSafe, PTL

(* At every statement of third.rs and fourth.rs the strong count of an Rc  *)
(* is the number of variables, links and drops that own it.                *)
THEOREM Counts == Spec => []CountsExact
BY Invariant, InvSafe, PTL

(* No borrow_mut of fourth.rs meets a borrow that still lasts, and the     *)
(* unwrap of pop_front always has the only Rc.                             *)
THEOREM NoPanic == Spec => []NeverPanics
BY Invariant, InvSafe, PTL

(* Iterators yield what the list has, in its order, whatever happens to    *)
(* lists that share its nodes; the deque's links are mutual between calls. *)
THEOREM Orders == Spec => []InOrder
BY Invariant, InvSafe, PTL

(* Without the derived Debug in its loop (first2.rs), drop is one call     *)
(* deep.                                                                   *)
THEOREM DropIsShallow ==
  ASSUME ~Debug
  PROVE  Spec => []ShallowDrop
BY Invariant, InvSafe, PTL

-----------------------------------------------------------------------------
(* The refinement. The contents of a list are the values from its first    *)
(* node on; a step changes some nodes, and the values from a link on stay  *)
(* as they are when no node after the link was changed.                    *)

(* A heap as every step leaves it: no cycles, and elements in the nodes.   *)
Proper(h) == /\ Linked(h)
             /\ \E r, b : Ranked(h, r, b)
             /\ \A n \in DOMAIN h : h[n].elem \in Elem

(* The values of a list are those of its first node and of the rest.       *)
LEMMA ProperValues ==
  ASSUME NEW h, Proper(h)
  PROVE  /\ From(h)[NULL] = <<>>
         /\ \A n \in DOMAIN h : From(h)[n] = <<h[n].elem>> \o From(h)[h[n].next]
         /\ \A l \in DOMAIN h \cup {NULL} : From(h)[l] \in Seq(Elem)
<1>1. PICK r, b : Ranked(h, r, b)
  BY DEF Proper
<1>2. /\ From(h)[NULL] = <<>>
      /\ \A n \in DOMAIN h : From(h)[n] = <<h[n].elem>> \o From(h)[h[n].next]
  BY <1>1, FromUnfolds DEF Proper
<1> DEFINE T == {n \in DOMAIN h : From(h)[n] \notin Seq(Elem)}
<1>3. ASSUME T # {} PROVE FALSE
  <2>1. PICK n \in T : h[n].next \notin T
    BY <1>1, <1>3, LastOf
  <2>2. h[n].next \in DOMAIN h \cup {NULL} /\ h[n].elem \in Elem /\ <<>> \in Seq(Elem)
    BY DEF Proper, Linked
  <2>3. From(h)[h[n].next] \in Seq(Elem)
    BY <1>2, <2>1, <2>2
  <2>4. <<h[n].elem>> \o From(h)[h[n].next] \in Seq(Elem)
    BY <2>2, <2>3
  <2> QED
    BY <1>2, <2>1, <2>4
<1>4. <<>> \in Seq(Elem)
  OBVIOUS
<1> QED
  BY <1>2, <1>3, <1>4

(* A list keeps its values while its nodes keep theirs.                    *)
LEMMA ValuesKept ==
  ASSUME NEW h, Proper(h), NEW g, Proper(g), NEW S \in SUBSET (DOMAIN h \cap DOMAIN g),
         \A n \in S : /\ g[n].elem = h[n].elem /\ g[n].next = h[n].next
                      /\ h[n].next \in S \cup {NULL}
  PROVE  \A l \in S \cup {NULL} : From(g)[l] = From(h)[l]
<1> DEFINE T == {n \in S : From(g)[n] # From(h)[n]}
<1>1. From(g)[NULL] = From(h)[NULL]
  BY ProperValues
<1>2. PICK r, b : Ranked(h, r, b)
  BY DEF Proper
<1>3. ASSUME T # {} PROVE FALSE
  <2>1. PICK n \in T : h[n].next \notin T
    BY <1>2, <1>3, LastOf
  <2>2. From(g)[h[n].next] = From(h)[h[n].next]
    BY <1>1, <2>1
  <2>3. /\ n \in DOMAIN h /\ n \in DOMAIN g /\ g[n].elem = h[n].elem /\ g[n].next = h[n].next
        /\ From(g)[n] # From(h)[n]
    BY <2>1
  <2>4. /\ From(h)[n] = <<h[n].elem>> \o From(h)[h[n].next]
        /\ From(g)[n] = <<g[n].elem>> \o From(g)[g[n].next]
    BY <2>3, ProperValues
  <2> QED
    BY <2>2, <2>3, <2>4
<1> QED
  BY <1>1, <1>3

(* The path of a list of Boxes has an end. *)
LEMMA BoxProper == BoxInv => Proper(boxes)
<1> SUFFICES ASSUME BoxInv PROVE Proper(boxes)
  OBVIOUS
<1>1. PICK p : BoxAt(p)
  BY DEF BoxInv
<1>2. \E r : Ranked(boxes, r, Len(p))
  BY <1>1, BoxFacts, CoverRanked DEF BoxAt
<1> QED
  BY <1>2, BoxFacts DEF Proper

(* ... after a step, too. *)
LEMMA BoxProperNext == BoxInv' => Proper(boxes')
<1>1. BoxInv' => Proper(boxes)'
  BY BoxProper, PTL
<1> QED
  BY <1>1

(* The contents are the values from where the path starts.                 *)
LEMMA BoxContents ==
  BoxInv => Box!Contents = From(boxes)[BoxStart] /\ BoxStart \in DOMAIN boxes \cup {NULL}
<1> SUFFICES ASSUME BoxInv
             PROVE  Box!Contents = From(boxes)[BoxStart] /\ BoxStart \in DOMAIN boxes \cup {NULL}
  OBVIOUS
<1>1. BoxStart \in DOMAIN boxes \cup {NULL}
  BY BoxFacts DEF BoxStart, Box!TypeOK, Box!Link
<1> QED
  BY <1>1, ValuesFrom DEF Box!Contents, BoxStart

(* Empty contents, or the first node's value and the rest. *)
LEMMA BoxView ==
  ASSUME BoxInv
  PROVE  /\ Proper(boxes)
         /\ Box!Contents = From(boxes)[BoxStart] /\ BoxStart \in DOMAIN boxes \cup {NULL}
         /\ Box!Contents \in Seq(Elem)
         /\ BoxStart = NULL => Box!Contents = <<>>
         /\ BoxStart # NULL => /\ Box!Contents # <<>>
                               /\ Head(Box!Contents) = boxes[BoxStart].elem
                               /\ Box!Contents[1] = boxes[BoxStart].elem
                               /\ 1 \in 1..Len(Box!Contents)
                               /\ Tail(Box!Contents) = From(boxes)[boxes[BoxStart].next]
<1>1. Proper(boxes) /\ Box!Contents = From(boxes)[BoxStart] /\ BoxStart \in DOMAIN boxes \cup {NULL}
  BY BoxProper, BoxContents
<1>2. Box!Contents \in Seq(Elem) /\ (BoxStart = NULL => Box!Contents = <<>>)
  BY <1>1, ProperValues
<1>3. ASSUME BoxStart # NULL
      PROVE  /\ Box!Contents # <<>>
             /\ Head(Box!Contents) = boxes[BoxStart].elem
             /\ Box!Contents[1] = boxes[BoxStart].elem
             /\ 1 \in 1..Len(Box!Contents)
             /\ Tail(Box!Contents) = From(boxes)[boxes[BoxStart].next]
  <2>1. BoxStart \in DOMAIN boxes /\ boxes[BoxStart].elem \in Elem
        /\ boxes[BoxStart].next \in DOMAIN boxes \cup {NULL}
    BY <1>1, <1>3 DEF Proper, Linked
  <2>2. From(boxes)[boxes[BoxStart].next] \in Seq(Elem)
    BY <1>1, <2>1, ProperValues
  <2>3. Box!Contents = <<boxes[BoxStart].elem>> \o From(boxes)[boxes[BoxStart].next]
    BY <1>1, <2>1, ProperValues
  <2> QED
    BY <2>1, <2>2, <2>3
<1> QED
  BY <1>1, <1>2, <1>3

(* The steps that leave the values alone.                                  *)
LEMMA BoxShows ==
  ASSUME BoxInv, BoxInv',
         \/ Box!New \/ Box!Peek \/ Box!IterNext \/ Box!EndBorrow \/ Box!IntoIter \/ Box!Drop
         \/ \E m \in {"iter", "iter_mut"} : Box!Borrow(m)
         \/ (Box!Pop \/ \E e \in Elem : Box!PeekMut(e)) /\ boxHead = NULL
         \/ (Box!DropNext \/ \E e \in Elem : Box!IterMutNext(e)) /\ boxCur = NULL
  PROVE  Box!Abstract!Next
<1>1. boxes' = boxes
  BY DEF Box!New, Box!Peek, Box!IterNext, Box!EndBorrow, Box!IntoIter, Box!Drop, Box!Borrow, Box!Pop,
         Box!PeekMut, Box!DropNext, Box!IterMutNext, Box!Returns
<1>2. BoxStart' = BoxStart
  BY DEF Box!New, Box!Peek, Box!IterNext, Box!EndBorrow, Box!IntoIter, Box!Drop, Box!Borrow, Box!Pop,
         Box!PeekMut, Box!DropNext, Box!IterMutNext, BoxInv, BoxStart
<1>3. Box!Contents' = Box!Contents
  <2>1. Box!Contents' = From(boxes')[BoxStart']
    <3>1. (BoxInv => Box!Contents = From(boxes)[BoxStart])'
      BY BoxContents, PTL
    <3> QED
      BY <3>1
  <2> QED
    BY <1>1, <1>2, <2>1, BoxView
<1>4. CASE Box!New
  <2>1. mode = "dropped" /\ mode' = "owned" /\ boxOut' = None /\ BoxStart = NULL
    BY <1>4 DEF Box!New, Box!Returns, BoxInv, BoxStart
  <2> QED
    BY <1>3, <2>1, BoxView DEF Box!Abstract!Next, Box!Abstract!New
<1>5. CASE \/ Box!EndBorrow \/ Box!IntoIter \/ \E m \in {"iter", "iter_mut"} : Box!Borrow(m)
           \/ (Box!Pop \/ \E e \in Elem : Box!PeekMut(e)) /\ boxHead = NULL
           \/ (Box!IterNext \/ \E e \in Elem : Box!IterMutNext(e)) /\ boxCur = NULL
  <2>1. mode \notin {"dropping", "dropped"} /\ mode' \notin {"dropping", "dropped"} /\ boxOut' = None
    BY <1>5 DEF Box!EndBorrow, Box!IntoIter, Box!Borrow, Box!Pop, Box!PeekMut, Box!IterNext,
                Box!IterMutNext, Box!Returns
  <2>2. Len(Box!Contents) \in Nat
    BY BoxView
  <2>3. Box!Abstract!Look
    BY <1>3, <2>1, <2>2 DEF Box!Abstract!Look
  <2> QED
    BY <2>1, <2>3 DEF Box!Abstract!Next, Box!Abstract!Call
<1>6. CASE Box!Peek
  <2>1. mode \in {"owned", "iter"} /\ mode' = mode /\ BoxStart = boxHead
        /\ boxOut' = IF boxHead = NULL THEN None ELSE boxes[boxHead].elem
    BY <1>6 DEF Box!Peek, Box!Returns, BoxStart
  <2>2. Box!Abstract!Look
    <3>1. Len(Box!Contents) \in Nat
      BY BoxView
    <3>2. CASE boxHead = NULL
      BY <1>3, <2>1, <3>1, <3>2 DEF Box!Abstract!Look
    <3>3. CASE boxHead # NULL
      <4>1. 1 \in 1..Len(Box!Contents) /\ boxOut' = Box!Contents[1]
        BY <2>1, <3>3, BoxView
      <4> QED
        BY <1>3, <3>1, <4>1 DEF Box!Abstract!Look
    <3> QED
      BY <3>2, <3>3
  <2> QED
    BY <2>1, <2>2 DEF Box!Abstract!Next, Box!Abstract!Call
<1>7. CASE Box!IterNext /\ boxCur # NULL
  <2>1. PICK p : BoxAt(p)
    BY DEF BoxInv
  <2>2. mode = "iter" /\ mode' = mode /\ boxOut' = boxes[boxCur].elem /\ BoxSeenUpTo(p)
    BY <1>7, <2>1 DEF Box!IterNext, Box!Returns, BoxAt
  <2>3. /\ Box!Contents = Elems(boxes, p) /\ Len(Box!Contents) = Len(p) /\ Len(p) \in Nat
    BY <2>1, BoxFacts, BoxView, CoverCounts DEF BoxAt
  <2>4. boxSeen \in Seq(Elem) /\ Len(boxSeen) \in Nat
    BY DEF BoxInv, Box!TypeOK
  <2>5. Len(boxSeen) + 1 \in 1..Len(p) /\ boxCur = p[Len(boxSeen) + 1]
    BY <1>7, <2>2, <2>3, <2>4 DEF BoxSeenUpTo
  <2>6. boxOut' = Box!Contents[Len(boxSeen) + 1]
    BY <2>2, <2>3, <2>5 DEF Elems
  <2>7. Box!Abstract!Look
    BY <1>3, <2>3, <2>5, <2>6 DEF Box!Abstract!Look
  <2> QED
    BY <2>2, <2>7 DEF Box!Abstract!Next, Box!Abstract!Call
<1>8. CASE Box!Drop
  <2>1. mode \in {"owned", "into_iter"} /\ mode' = "dropping" /\ boxOut' = None
    BY <1>8 DEF Box!Drop, Box!Returns
  <2> QED
    BY <1>3, <2>1 DEF Box!Abstract!Next, Box!Abstract!Drop
<1>9. CASE Box!DropNext /\ boxCur = NULL
  <2>1. mode = "dropping" /\ mode' = "dropped" /\ boxOut' = None /\ BoxStart = NULL
    BY <1>9 DEF Box!DropNext, Box!Returns, BoxStart
  <2> QED
    BY <1>3, <2>1, BoxView DEF Box!Abstract!Next, Box!Abstract!Discard
<1> QED
  BY <1>4, <1>5, <1>6, <1>7, <1>8, <1>9

(* A write replaces one value.                                             *)
LEMMA BoxSets ==
  ASSUME BoxInv, BoxInv', NEW e \in Elem,
         \/ Box!PeekMut(e) /\ boxHead # NULL
         \/ Box!IterMutNext(e) /\ boxCur # NULL
  PROVE  Box!Abstract!Next
<1> DEFINE n == IF mode = "owned" THEN boxHead ELSE boxCur
<1>1. PICK p : BoxAt(p)
  BY DEF BoxInv
<1>2. Box!TypeOK /\ NULL \notin DOMAIN boxes
  BY BoxFacts
<1>3. /\ n \in DOMAIN boxes /\ boxes' = [boxes EXCEPT ![n].elem = e] /\ boxOut' = e
      /\ BoxStart' = BoxStart /\ mode' = mode /\ mode \in {"owned", "iter_mut"}
  BY <1>2 DEF Box!PeekMut, Box!IterMutNext, Box!Returns, Box!Write, Box!TypeOK, Box!Link, BoxStart
<1>4. Cover(boxes, BoxStart, p) /\ p \in Seq(DOMAIN boxes) /\ Len(p) \in Nat
  BY <1>1 DEF BoxAt, Cover, Path
<1> HIDE DEF n
<1>5. /\ DOMAIN boxes' = DOMAIN boxes /\ boxes'[n].elem = e
      /\ \A m \in DOMAIN boxes : boxes'[m].next = boxes[m].next
      /\ \A m \in DOMAIN boxes \ {n} : boxes'[m] = boxes[m]
  BY <1>3, BoxFacts
<1>6. PICK i \in 1..Len(p) : p[i] = n
  BY <1>3, <1>4 DEF Cover
<1>7. Box!Contents = Elems(boxes, p) /\ Len(Elems(boxes, p)) = Len(p)
  BY <1>2, <1>4, BoxView, CoverCounts
<1>8. Box!Contents' = Elems(boxes', p)
  <2>1. Box!Contents' = From(boxes')[BoxStart']
    <3>1. (BoxInv => Box!Contents = From(boxes)[BoxStart])'
      BY BoxContents, PTL
    <3> QED
      BY <3>1
  <2>2. Cover(boxes', BoxStart, p)
    BY <1>4, <1>5, CoverSame
  <2>3. NULL \notin DOMAIN boxes'
    BY <1>2, <1>5
  <2>4. From(boxes')[BoxStart] = Elems(boxes', p)
    BY <2>2, <2>3, CoverCounts
  <2> QED
    BY <1>3, <2>1, <2>4
<1>9. Elems(boxes', p) = [Elems(boxes, p) EXCEPT ![i] = e]
  <2>1. ASSUME NEW j \in 1..Len(p)
        PROVE  boxes'[p[j]].elem = IF j = i THEN e ELSE boxes[p[j]].elem
    <3>1. CASE j = i
      BY <1>5, <1>6, <3>1
    <3>2. CASE j # i
      <4>1. p[j] # n /\ p[j] \in DOMAIN boxes
        BY <1>4, <1>6, <3>2 DEF Cover
      <4> QED
        BY <1>5, <3>2, <4>1
    <3> QED
      BY <3>1, <3>2
  <2> QED
    BY <1>6, <2>1 DEF Elems
<1>10. i \in DOMAIN Box!Contents
  BY <1>6, <1>7 DEF Elems
<1>11. Box!Abstract!Set
  BY <1>3, <1>7, <1>8, <1>9, <1>10 DEF Box!Abstract!Set
<1> QED
  BY <1>3, <1>11 DEF Box!Abstract!Next, Box!Abstract!Call

(* A new node before the first is a push.                                  *)
LEMMA BoxPushes ==
  ASSUME BoxInv, BoxInv', NEW e \in Elem, Box!Push(e)
  PROVE  Box!Abstract!Next
<1>1. PICK n \in Node \ DOMAIN boxes :
        /\ boxes' = [m \in DOMAIN boxes \cup {n} |->
                       IF m = n THEN [elem |-> e, next |-> boxHead] ELSE boxes[m]]
        /\ boxHead' = n
  BY DEF Box!Push
<1>2. mode = "owned" /\ mode' = mode /\ boxOut' = None /\ BoxStart = boxHead /\ BoxStart' = n
  BY <1>1 DEF Box!Push, Box!Returns, BoxStart
<1>3. Proper(boxes) /\ Proper(boxes') /\ boxHead \in DOMAIN boxes \cup {NULL}
  BY <1>2, BoxView, BoxProperNext
<1>4. From(boxes')[boxHead] = From(boxes)[boxHead]
  <2>1. \A m \in DOMAIN boxes : m \in DOMAIN boxes' /\ boxes'[m] = boxes[m]
                                  /\ boxes[m].next \in DOMAIN boxes \cup {NULL}
    BY <1>1, <1>3 DEF Proper, Linked
  <2> QED
    BY <1>3, <2>1, ValuesKept
<1>5. Box!Contents' = From(boxes')[n]
  <2>1. (BoxInv => Box!Contents = From(boxes)[BoxStart])'
    BY BoxContents, PTL
  <2> QED
    BY <1>2, <2>1
<1>6. n \in DOMAIN boxes' /\ boxes'[n] = [elem |-> e, next |-> boxHead]
  BY <1>1
<1>7. Box!Contents' = <<e>> \o Box!Contents
  BY <1>2, <1>3, <1>4, <1>5, <1>6, ProperValues, BoxView
<1> QED
  BY <1>2, <1>7 DEF Box!Abstract!Next, Box!Abstract!Call, Box!Abstract!Push

(* The first node goes with its value.                                     *)
LEMMA BoxPops ==
  ASSUME BoxInv, BoxInv', (Box!Pop /\ boxHead # NULL) \/ (Box!DropNext /\ boxCur # NULL)
  PROVE  Box!Abstract!Next
<1> DEFINE n == BoxStart
<1>1. Box!TypeOK /\ NULL \notin DOMAIN boxes
  BY BoxFacts
<1>2. /\ n # NULL /\ boxes' = [m \in DOMAIN boxes \ {n} |-> boxes[m]] /\ mode' = mode
      /\ BoxStart' = boxes[n].next
      /\ \/ mode \notin {"dropping", "dropped"} /\ boxOut' = boxes[n].elem
         \/ mode = "dropping" /\ boxOut' = None
  BY <1>1, DropFrees DEF Box!Pop, Box!Returns, Box!Free, BoxStart
<1> HIDE DEF n
<1>3. Proper(boxes) /\ Proper(boxes')
  BY BoxView, BoxProperNext
<1>4. /\ Box!Contents' = From(boxes')[BoxStart']
      /\ BoxStart' \in DOMAIN boxes' \cup {NULL}
  <2>1. (BoxInv => /\ Box!Contents = From(boxes)[BoxStart]
                   /\ BoxStart \in DOMAIN boxes \cup {NULL})'
    BY BoxContents, PTL
  <2> QED
    BY <2>1
<1>5. From(boxes')[BoxStart'] = From(boxes)[BoxStart']
  <2>1. \A m \in DOMAIN boxes' : m \in DOMAIN boxes /\ boxes'[m] = boxes[m]
                                   /\ boxes'[m].next \in DOMAIN boxes' \cup {NULL}
    BY <1>2, <1>3 DEF Proper, Linked
  <2> QED
    BY <1>3, <1>4, <2>1, ValuesKept
<1>6. Box!Contents # <<>> /\ Box!Contents' = Tail(Box!Contents) /\ Head(Box!Contents) = boxes[n].elem
  BY <1>2, <1>4, <1>5, BoxView DEF n
<1> QED
  BY <1>2, <1>6 DEF Box!Abstract!Next, Box!Abstract!Call, Box!Abstract!Pop, Box!Abstract!Discard

(* A list of Boxes is a stack, step by step.                               *)
LEMMA BoxRefines == BoxInv /\ BoxInv' /\ Box!Next => Box!Abstract!Next
<1> SUFFICES ASSUME BoxInv, BoxInv', Box!Next PROVE Box!Abstract!Next
  OBVIOUS
<1>1. CASE Box!Pop
  <2>1. CASE boxHead = NULL
    BY <1>1, <2>1, BoxShows
  <2>2. CASE boxHead # NULL
    BY <1>1, <2>2, BoxPops
  <2> QED
    BY <2>1, <2>2
<1>2. CASE Box!DropNext
  BY <1>2, BoxShows, BoxPops
<1>3. CASE \E e \in Elem : Box!Push(e) \/ Box!PeekMut(e) \/ Box!IterMutNext(e)
  BY <1>3, BoxShows, BoxSets, BoxPushes
<1>4. CASE \/ Box!New \/ Box!Peek \/ Box!IterNext \/ Box!EndBorrow \/ Box!IntoIter \/ Box!Drop
           \/ \E m \in {"iter", "iter_mut"} : Box!Borrow(m)
  BY <1>4, BoxShows
<1> QED
  BY <1>1, <1>2, <1>3, <1>4 DEF Box!Next

(* Before a list of Boxes is made, the stack is empty.                     *)
LEMMA BoxStarts == Box!Init => Box!Abstract!Init
<1> SUFFICES ASSUME Box!Init PROVE Box!Abstract!Init
  OBVIOUS
<1>1. BoxInv
  BY BoxInit
<1>2. mode = "dropped" /\ boxOut = None /\ BoxStart = NULL
  BY DEF Box!Init, BoxStart
<1> QED
  BY <1>1, <1>2, BoxView DEF Box!Abstract!Init

(* While another list is in use, the stack stays as it is.                 *)
LEMMA BoxStays == UNCHANGED boxVars => UNCHANGED Box!Abstract!vars
<1> SUFFICES ASSUME UNCHANGED boxVars PROVE UNCHANGED Box!Abstract!vars
  OBVIOUS
<1>1. boxes' = boxes /\ boxHead' = boxHead /\ mode' = mode /\ boxCur' = boxCur /\ boxOut' = boxOut
  BY DEF boxVars
<1>2. Box!Contents' = Box!Contents
  BY <1>1 DEF Box!Contents, Box!Values, Box!Link
<1> QED
  BY <1>1, <1>2 DEF Box!Abstract!vars

-----------------------------------------------------------------------------
(* The values of every shared list.                                        *)
ListValues == [h \in DOMAIN lists |-> From(shared)[lists[h]]]

(* They are what the abstract lists are mapped to, ... *)
LEMMA ListValuesAre == [h \in DOMAIN lists |-> Rc!Values(lists[h])] = ListValues
BY ValuesFrom DEF ListValues

(* ... before and after a step. *)
LEMMA ListValuesNext == [h \in DOMAIN lists |-> Rc!Values(lists[h])]' = ListValues'
<1>1. ([h \in DOMAIN lists |-> Rc!Values(lists[h])] = ListValues)'
  BY ListValuesAre, PTL
<1> QED
  BY <1>1

(* The heap of shared lists has no cycle, and lists begin in it. *)
LEMMA RcProper ==
  RcInv => Proper(shared) /\ \A h \in DOMAIN lists : lists[h] \in DOMAIN shared \cup {NULL}
<1> SUFFICES ASSUME RcInv
             PROVE  Proper(shared) /\ \A h \in DOMAIN lists : lists[h] \in DOMAIN shared \cup {NULL}
  OBVIOUS
<1>1. Linked(shared) /\ \A n \in DOMAIN shared : shared[n].elem \in Elem
  BY RcFacts
<1>2. \E r, b : Ranked(shared, r, b)
  BY DEF RcInv, RcFits
<1> QED
  BY <1>1, <1>2, RcFacts DEF Proper

(* ... after a step, too. *)
LEMMA RcProperNext ==
  RcInv' => Proper(shared') /\ \A h \in DOMAIN lists' : lists'[h] \in DOMAIN shared' \cup {NULL}
<1>1. (RcInv => Proper(shared) /\ \A h \in DOMAIN lists : lists[h] \in DOMAIN shared \cup {NULL})'
  BY RcProper, PTL
<1> QED
  BY <1>1

(* A list that begins at a link has the values from there on. *)
LEMMA RcBindValues ==
  ASSUME NEW h, NEW l, Rc!Bind(h, l), NEW v, v = From(shared')[l],
         \A x \in DOMAIN lists : From(shared')[lists[x]] = From(shared)[lists[x]]
  PROVE  Rc!Abstract!Set(h, v)
<1>1. lists' = [x \in DOMAIN lists \cup {h} |-> IF x = h THEN l ELSE lists[x]]
  BY DEF Rc!Bind
<1>2. ListValues' = [x \in DOMAIN ListValues \cup {h} |-> IF x = h THEN v ELSE ListValues[x]]
  BY <1>1 DEF ListValues
<1> QED
  BY <1>2, ListValuesAre, ListValuesNext DEF Rc!Abstract!Set
(* Counting, making and freeing nodes changes no value of those that stay. *)
LEMMA SharedKept ==
  ASSUME RcInv, RcInv', NEW S, S = DOMAIN shared \/ S = DOMAIN shared',
         S \subseteq DOMAIN shared /\ S \subseteq DOMAIN shared',
         \A n \in S : shared'[n].elem = shared[n].elem /\ shared'[n].next = shared[n].next
  PROVE  \A l \in S \cup {NULL} : From(shared')[l] = From(shared)[l]
<1>1. Proper(shared) /\ Proper(shared')
  BY RcProper, RcProperNext
<1>2. \A n \in S : shared[n].next \in S \cup {NULL}
  BY <1>1 DEF Proper, Linked
<1>3. S \in SUBSET (DOMAIN shared \cap DOMAIN shared')
  OBVIOUS
<1> QED
  BY <1>1, <1>2, <1>3, ValuesKept

(* new, append and tail make one list and change no other.                 *)
LEMMA RcMakes ==
  ASSUME RcInv, RcInv', NEW h \in Handle,
         \/ Rc!New(h)
         \/ \E g \in DOMAIN lists : Rc!ListTail(g, h) \/ \E e \in Elem : Rc!ListAppend(g, e, h)
  PROVE  Rc!Abstract!Next
<1>1. /\ Proper(shared) /\ Proper(shared')
      /\ \A x \in DOMAIN lists : lists[x] \in DOMAIN shared \cup {NULL}
  BY RcProper, RcProperNext
<1>2. DOMAIN [x \in DOMAIN lists |-> Rc!Values(lists[x])] = DOMAIN lists
      /\ \A x \in DOMAIN lists : [y \in DOMAIN lists |-> Rc!Values(lists[y])][x] = From(shared)[lists[x]]
  BY ValuesFrom
<1>3. \A n \in DOMAIN shared : shared[n].next \in DOMAIN shared \cup {NULL} /\ n # NULL
                               /\ From(shared)[shared[n].next] \in Seq(Elem) /\ shared[n].elem \in Elem
  BY <1>1, ProperValues DEF Proper, Linked
<1>4. ASSUME NEW l \in DOMAIN shared \cup {NULL}, shared' = Rc!Clone(l)
      PROVE  \A m \in DOMAIN shared \cup {NULL} : From(shared')[m] = From(shared)[m]
  <2>1. shared' = IF l = NULL THEN shared ELSE [shared EXCEPT ![l].strong = @ + 1]
    BY <1>4 DEF Rc!Clone
  <2>2. DOMAIN shared' = DOMAIN shared
        /\ \A n \in DOMAIN shared : shared'[n].elem = shared[n].elem /\ shared'[n].next = shared[n].next
    <3>1. CASE l = NULL
      BY <2>1, <3>1
    <3>2. CASE l # NULL
      <4>1. l \in DOMAIN shared /\ shared' = [shared EXCEPT ![l].strong = @ + 1]
        BY <1>4, <2>1, <3>2
      <4>2. \A n \in DOMAIN shared : shared[n] \in [elem : Elem, next : DOMAIN shared \cup {NULL}, strong : Nat \ {0}]
        BY RcFacts
      <4> QED
        BY <4>1, <4>2
    <3> QED
      BY <3>1, <3>2
  <2> QED
    BY <2>2, SharedKept
<1>5. CASE Rc!New(h)
  <2>1. h \notin DOMAIN lists /\ Rc!Bind(h, NULL) /\ shared' = shared
    BY <1>5 DEF Rc!New
  <2>2. From(shared')[NULL] = <<>>
    BY <1>1, ProperValues
  <2>3. Rc!Abstract!Set(h, <<>>)
    BY <2>1, <2>2, RcBindValues
  <2> QED
    BY <1>2, <2>1, <2>3 DEF Rc!Abstract!Next, Rc!Abstract!New
<1>6. CASE \E g \in DOMAIN lists : Rc!ListTail(g, h)
  <2>1. PICK g \in DOMAIN lists : Rc!ListTail(g, h)
    BY <1>6
  <2> DEFINE l == IF lists[g] = NULL THEN NULL ELSE shared[lists[g]].next
             v == From(shared)[lists[g]]
  <2>2. h \notin DOMAIN lists /\ Rc!Bind(h, l) /\ shared' = Rc!Clone(l)
    BY <2>1 DEF Rc!ListTail
  <2>3. l \in DOMAIN shared \cup {NULL}
    BY <1>1, <1>3
  <2>4. From(shared)[l] = IF v = <<>> THEN <<>> ELSE Tail(v)
    <3>1. CASE lists[g] = NULL
      BY <1>1, <3>1, ProperValues
    <3>2. CASE lists[g] # NULL
      <4>1. lists[g] \in DOMAIN shared
        BY <1>1, <3>2
      <4>2. v = <<shared[lists[g]].elem>> \o From(shared)[shared[lists[g]].next]
        BY <1>1, <4>1, ProperValues
      <4> QED
        BY <1>3, <3>2, <4>1, <4>2
    <3> QED
      BY <3>1, <3>2
  <2> HIDE DEF l, v
  <2>5. \A m \in DOMAIN shared \cup {NULL} : From(shared')[m] = From(shared)[m]
    BY <1>4, <2>2, <2>3
  <2>6. Rc!Abstract!Set(h, IF v = <<>> THEN <<>> ELSE Tail(v))
    BY <1>1, <2>2, <2>3, <2>4, <2>5, RcBindValues
  <2>7. Rc!Abstract!Tail_(g, h)
    BY <1>2, <2>1, <2>6 DEF Rc!Abstract!Tail_, v
  <2> QED
    BY <1>2, <2>2, <2>7 DEF Rc!Abstract!Next
<1>7. CASE \E g \in DOMAIN lists : \E e \in Elem : Rc!ListAppend(g, e, h)
  <2>1. PICK g \in DOMAIN lists, e \in Elem : Rc!ListAppend(g, e, h)
    BY <1>7
  <2>2. PICK n \in Node \ DOMAIN shared :
          /\ shared' = [m \in DOMAIN shared \cup {n} |->
                          IF m = n THEN [elem |-> e, next |-> lists[g], strong |-> 1]
                          ELSE Rc!Clone(lists[g])[m]]
          /\ Rc!Bind(h, n)
    BY <2>1 DEF Rc!ListAppend
  <2>3. /\ n \in DOMAIN shared' /\ shared'[n].elem = e /\ shared'[n].next = lists[g] /\ h \notin DOMAIN lists
        /\ \A m \in DOMAIN shared : m \in DOMAIN shared' /\ shared'[m] = Rc!Clone(lists[g])[m]
    BY <2>1, <2>2 DEF Rc!ListAppend
  <2>4. \A m \in DOMAIN shared : shared'[m].elem = shared[m].elem /\ shared'[m].next = shared[m].next
    <3>1. CASE lists[g] = NULL
      BY <2>3, <3>1 DEF Rc!Clone
    <3>2. CASE lists[g] # NULL
      <4>1. lists[g] \in DOMAIN shared /\ Rc!Clone(lists[g]) = [shared EXCEPT ![lists[g]].strong = @ + 1]
        BY <1>1, <3>2 DEF Rc!Clone
      <4>2. \A m \in DOMAIN shared : shared[m] \in [elem : Elem, next : DOMAIN shared \cup {NULL}, strong : Nat \ {0}]
        BY RcFacts
      <4> QED
        BY <2>3, <4>1, <4>2
    <3> QED
      BY <3>1, <3>2
  <2>5. \A m \in DOMAIN shared \cup {NULL} : From(shared')[m] = From(shared)[m]
    BY <2>3, <2>4, SharedKept
  <2>6. From(shared')[n] = <<e>> \o From(shared)[lists[g]]
    <3>1. From(shared')[n] = <<shared'[n].elem>> \o From(shared')[shared'[n].next]
      BY <1>1, <2>3, ProperValues
    <3>2. From(shared')[lists[g]] = From(shared)[lists[g]]
      BY <1>1, <2>5
    <3> QED
      BY <2>3, <3>1, <3>2
  <2>7. Rc!Abstract!Set(h, <<e>> \o From(shared)[lists[g]])
    BY <1>1, <2>2, <2>5, <2>6, RcBindValues
  <2>8. Rc!Abstract!Append_(g, e, h)
    BY <1>2, <2>1, <2>7 DEF Rc!Abstract!Append_
  <2> QED
    BY <1>2, <2>1, <2>3, <2>8 DEF Rc!Abstract!Next
<1> QED
  BY <1>5, <1>6, <1>7

(* drop takes a list away, and its loop no value of another.               *)
LEMMA RcUnmakes ==
  ASSUME RcInv, RcInv', Rc!DropNext \/ \E h \in DOMAIN lists : Rc!Drop(h)
  PROVE  Rc!Abstract!Next \/ ListValues' = ListValues
<1>1. /\ Proper(shared) /\ Proper(shared')
      /\ \A x \in DOMAIN lists : lists[x] \in DOMAIN shared \cup {NULL}
      /\ \A x \in DOMAIN lists' : lists'[x] \in DOMAIN shared' \cup {NULL}
  BY RcProper, RcProperNext
<1>2. CASE Rc!DropNext
  <2>1. lists' = lists
    BY <1>2 DEF Rc!DropNext
  <2>2. /\ DOMAIN shared' \subseteq DOMAIN shared
        /\ \A n \in DOMAIN shared' : shared'[n].elem = shared[n].elem /\ shared'[n].next = shared[n].next
    <3>1. CASE sharedCur = NULL
      BY <1>2, <3>1 DEF Rc!DropNext
    <3>2. CASE sharedCur # NULL /\ shared[sharedCur].strong = 1
      BY <1>2, <3>2 DEF Rc!DropNext
    <3>3. CASE sharedCur # NULL /\ shared[sharedCur].strong # 1
      <4>1. shared' = [shared EXCEPT ![sharedCur].strong = @ - 1] /\ sharedCur \in DOMAIN shared
        BY <1>2, <3>3, RcFacts DEF Rc!DropNext
      <4>2. \A m \in DOMAIN shared : shared[m] \in [elem : Elem, next : DOMAIN shared \cup {NULL}, strong : Nat \ {0}]
        BY RcFacts
      <4> QED
        BY <4>1, <4>2
    <3> QED
      BY <3>1, <3>2, <3>3
  <2>3. \A l \in DOMAIN shared' \cup {NULL} : From(shared')[l] = From(shared)[l]
    BY <2>2, SharedKept
  <2> QED
    BY <1>1, <2>1, <2>3 DEF ListValues
<1>3. CASE \E h \in DOMAIN lists : Rc!Drop(h)
  <2>1. PICK h \in DOMAIN lists : Rc!Drop(h)
    BY <1>3
  <2>2. lists' = [x \in DOMAIN lists \ {h} |-> lists[x]] /\ shared' = shared
    BY <2>1 DEF Rc!Drop
  <2>3. ListValues' = [x \in DOMAIN ListValues \ {h} |-> ListValues[x]] /\ h \in DOMAIN ListValues
    BY <2>1, <2>2 DEF ListValues
  <2>4. Rc!Abstract!Drop(h)
    BY <2>3, ListValuesAre, ListValuesNext DEF Rc!Abstract!Drop
  <2> QED
    BY <2>1, <2>4 DEF Rc!Abstract!Next
<1> QED
  BY <1>2, <1>3

(* The shared lists are values, step by step.                              *)
LEMMA RcRefines ==
  RcInv /\ RcInv' /\ Rc!Next => Rc!Abstract!Next \/ ListValues' = ListValues
<1> SUFFICES ASSUME RcInv, RcInv', Rc!Next PROVE Rc!Abstract!Next \/ ListValues' = ListValues
  OBVIOUS
<1>1. CASE (\E h \in DOMAIN lists : Rc!Iter(h)) \/ \E h \in DOMAIN iters : Rc!IterNext(h) \/ Rc!EndIter(h)
  <2>1. shared' = shared /\ lists' = lists
    BY <1>1 DEF Rc!Iter, Rc!IterNext, Rc!EndIter
  <2> QED
    BY <2>1 DEF ListValues
<1>2. CASE \E h \in Handle : \/ Rc!New(h)
                             \/ \E g \in DOMAIN lists : Rc!ListTail(g, h) \/ \E e \in Elem : Rc!ListAppend(g, e, h)
  BY <1>2, RcMakes
<1>3. CASE Rc!DropNext \/ \E h \in DOMAIN lists : Rc!Drop(h)
  BY <1>3, RcUnmakes
<1> QED
  BY <1>1, <1>2, <1>3 DEF Rc!Next

(* There is no list at first. *)
LEMMA RcStarts == Rc!Init => Rc!Abstract!Init
<1> SUFFICES ASSUME Rc!Init PROVE Rc!Abstract!Init
  OBVIOUS
<1>1. lists = [x \in {} |-> x]
  BY DEF Rc!Init, Rc!Empty
<1>2. DOMAIN lists = {}
  BY <1>1
<1>3. [h \in DOMAIN lists |-> Rc!Values(lists[h])] = [h \in {} |-> h]
  BY <1>2
<1> QED
  BY <1>3 DEF Rc!Abstract!Init

-----------------------------------------------------------------------------
(* Links lead along the path, and none to the lone node.                   *)
LEMMA ShapeNexts ==
  ASSUME NEW c, NULL \notin DOMAIN c, NEW p, NEW x, NEW f, Shape(c, p, x, f)
  PROVE  /\ \A n \in DOMAIN c : c[n].next \in (DOMAIN c \ {x}) \cup {NULL}
         /\ \E r, b : Ranked(c, r, b)
<1> DEFINE at(n) == CHOOSE i \in 1..Len(p) : p[i] = n
           r == [n \in DOMAIN c |-> IF n = x THEN 0 ELSE Len(p) - at(n)]
<1>1. /\ Len(p) \in Nat /\ \A i \in 1..Len(p) : p[i] \in DOMAIN c /\ p[i] # x /\ p[i] # NULL
      /\ \A i, j \in 1..Len(p) : p[i] = p[j] => i = j
      /\ \A i \in 1..Len(p) : c[p[i]].next = IF i = Len(p) THEN NULL ELSE p[i + 1]
      /\ x # NULL => x \in DOMAIN c /\ c[x].next = NULL
  BY ShapeFacts DEF Shape
<1>2. \A n \in DOMAIN c : n # x => at(n) \in 1..Len(p) /\ p[at(n)] = n
  BY DEF Shape
<1> HIDE DEF at
<1>3. r \in [DOMAIN c -> 0..Len(p)]
  BY <1>1, <1>2
<1>4. ASSUME NEW n \in DOMAIN c
      PROVE  /\ c[n].next \in (DOMAIN c \ {x}) \cup {NULL}
             /\ c[n].next \in DOMAIN c => r[c[n].next] < r[n]
  <2>1. CASE n = x
    BY <1>1, <2>1
  <2>2. CASE n # x
    <3> DEFINE i == at(n)
    <3>1. i \in 1..Len(p) /\ p[i] = n /\ c[n].next = IF i = Len(p) THEN NULL ELSE p[i + 1]
      BY <1>1, <1>2, <2>2
    <3>2. CASE i = Len(p)
      BY <3>1, <3>2
    <3>3. CASE i # Len(p)
      <4>1. i + 1 \in 1..Len(p)
        BY <1>1, <3>1, <3>3
      <4> HIDE DEF i
      <4>2. c[n].next = p[i + 1] /\ p[i + 1] \in DOMAIN c /\ p[i + 1] # x
        BY <1>1, <3>1, <3>3, <4>1
      <4>3. at(p[i + 1]) = i + 1
        BY <1>1, <1>2, <4>1, <4>2
      <4>4. r[p[i + 1]] = Len(p) - (i + 1) /\ r[n] = Len(p) - i
        BY <2>2, <4>2, <4>3 DEF i
      <4> QED
        BY <1>1, <3>1, <4>2, <4>4
    <3> QED
      BY <3>2, <3>3
  <2> QED
    BY <2>1, <2>2
<1>5. Ranked(c, r, Len(p))
  BY <1>1, <1>3, <1>4 DEF Ranked
<1> QED
  BY <1>4, <1>5

(* Between any two statements the nexts of the deque have an end. *)
LEMMA DequeProper == DequeInv => Proper(cells)
<1> SUFFICES ASSUME DequeInv PROVE Proper(cells)
  OBVIOUS
<1>1. NULL \notin DOMAIN cells /\ CellType(cells)
  BY DequeFacts
<1>2. PICK p, x, f : Shape(cells, p, x, f)
  BY DEF DequeInv, DequeAt, Lone
<1>3. \E r, b : Ranked(cells, r, b)
  BY <1>1, <1>2, ShapeNexts
<1>4. \A n \in DOMAIN cells : cells[n].next \in DOMAIN cells \cup {NULL} /\ cells[n].elem \in Elem
  BY <1>1, CellTypeIs
<1> QED
  BY <1>1, <1>3, <1>4 DEF Proper, Linked

(* ... after a step, too. *)
LEMMA DequeProperNext == DequeInv' => Proper(cells')
<1>1. (DequeInv => Proper(cells))'
  BY DequeProper, PTL
<1> QED
  BY <1>1

(* The contents at every statement. *)
DequeView ==
  /\ pc \in {"push_old", "push_new", "pop_next"} => Deque!Contents = From(cells)[old]
  /\ pc = "push_head" => Deque!Contents = IF cells[new].next = NULL THEN <<>> ELSE From(cells)[cells[new].next]
  /\ pc \in {"pop_prev", "pop_head", "pop_tail"} => Deque!Contents = <<cells[old].elem>> \o From(cells)[new]
  /\ pc = "pop_unwrap" => Deque!Contents = <<cells[old].elem>> \o From(cells)[head]
  /\ pc \in {"rest", "dropped"} => Deque!Contents = From(cells)[head]

(* It is so before and ... *)
LEMMA DequeViews == DequeView
<1>1. \A l : Deque!Values(l) = From(cells)[l]
  BY ValuesFrom
<1> QED
  BY <1>1 DEF DequeView, Deque!Contents

(* ... after a step. *)
LEMMA DequeViewsNext == DequeView'
BY DequeViews, PTL

(* A push is never a part of drop, and has nothing to return.              *)
DequeQuiet == pc \in {"push_old", "push_new", "push_head"} => ~cellDrops /\ out = None

(* The calls keep that. *)
LEMMA DequeQuietStep == DequeQuiet /\ Deque!Next => DequeQuiet'
<1> SUFFICES ASSUME DequeQuiet, Deque!Next PROVE DequeQuiet'
  OBVIOUS
<1>1. CASE \E e \in Elem : Deque!PushTake(e)
  BY <1>1 DEF DequeQuiet, Deque!PushTake
<1>2. CASE Deque!PushOld \/ Deque!PushNew
  BY <1>2 DEF DequeQuiet, Deque!PushOld, Deque!PushNew, Deque!Go
<1>3. CASE Deque!PushHead \/ Deque!PopHead \/ Deque!PopTail \/ Deque!New \/ Deque!Drop
  BY <1>3 DEF DequeQuiet, Deque!PushHead, Deque!PopHead, Deque!PopTail, Deque!New, Deque!Drop, Deque!Go
<1>4. CASE Deque!PopTake \/ Deque!PopNext \/ Deque!PopPrev \/ Deque!PopUnwrap
  <2>1. pc' \notin {"push_old", "push_new", "push_head"}
    BY <1>4 DEF Deque!PopTake, Deque!PopNext, Deque!PopPrev, Deque!PopUnwrap
  <2> QED
    BY <2>1 DEF DequeQuiet
<1> QED
  BY <1>1, <1>2, <1>3, <1>4 DEF Deque!Next, Deque!Push, Deque!Pop

(* A list keeps its values while its nodes keep theirs. *)
LEMMA CellsKept ==
  ASSUME DequeInv, DequeInv', NEW S \in SUBSET (DOMAIN cells \cap DOMAIN cells'),
         \A n \in S : /\ cells'[n].elem = cells[n].elem /\ cells'[n].next = cells[n].next
                      /\ cells[n].next \in S \cup {NULL} \/ cells'[n].next \in S \cup {NULL}
  PROVE  \A l \in S \cup {NULL} : From(cells')[l] = From(cells)[l]
BY DequeProper, DequeProperNext, ValuesKept

(* Nodes and links that only count, or turn back, change no value.         *)
LEMMA CellsSame ==
  ASSUME DequeInv, DequeInv', DOMAIN cells' = DOMAIN cells,
         \A n \in DOMAIN cells : cells'[n].elem = cells[n].elem /\ cells'[n].next = cells[n].next
  PROVE  \A l \in DOMAIN cells \cup {NULL} : From(cells')[l] = From(cells)[l]
<1>1. \A n \in DOMAIN cells : cells[n].next \in DOMAIN cells \cup {NULL}
  BY DequeProper DEF Proper, Linked
<1> QED
  BY <1>1, CellsKept

(* Where the variables are, statement by statement. *)
LEMMA DequePlaces ==
  ASSUME DequeInv
  PROVE  /\ {head, tail, old, new} \subseteq DOMAIN cells \cup {NULL} /\ NULL \notin DOMAIN cells
         /\ pc = "dropped" => head = NULL
         /\ pc \in {"push_old", "push_new"} => old # NULL /\ new # NULL /\ old # new
         /\ pc = "push_new" => /\ cells[new].next = NULL
                              /\ \A n \in DOMAIN cells : cells[n].next # new
         /\ pc = "push_head" => new # NULL
         /\ pc = "pop_next" => old # NULL
         /\ pc = "pop_prev" => old # NULL /\ new # NULL
         /\ pc = "pop_head" => old # NULL
         /\ pc = "pop_tail" => old # NULL /\ new = NULL /\ head = NULL
         /\ pc \in {"pop_prev", "pop_tail"} => \A n \in DOMAIN cells : cells[n].next # old
         /\ pc = "pop_unwrap" => old # NULL /\ \A n \in DOMAIN cells : cells[n].next # old
         /\ pc # "panic"
<1>1. /\ {head, tail, old, new} \subseteq DOMAIN cells \cup {NULL} /\ NULL \notin DOMAIN cells
  BY DequeFacts
<1>2. PICK p : DequeAt(p)
  BY DEF DequeInv
<1>3. \A x, f : Shape(cells, p, x, f) =>
        /\ \A n \in DOMAIN cells : cells[n].next \in (DOMAIN cells \ {x}) \cup {NULL}
        /\ x # NULL => x \in DOMAIN cells /\ cells[x].next = NULL
        /\ p # <<>> => First(p) # NULL /\ First(p) # x
  <2>1. SUFFICES ASSUME NEW x, NEW f, Shape(cells, p, x, f)
                 PROVE  /\ \A n \in DOMAIN cells : cells[n].next \in (DOMAIN cells \ {x}) \cup {NULL}
                        /\ x # NULL => x \in DOMAIN cells /\ cells[x].next = NULL
                        /\ p # <<>> => First(p) # NULL /\ First(p) # x
    OBVIOUS
  <2>2. p # <<>> => First(p) # NULL /\ First(p) # x
    BY <1>1, <2>1, ShapeFacts DEF First
  <2>3. \A n \in DOMAIN cells : cells[n].next \in (DOMAIN cells \ {x}) \cup {NULL}
    BY <1>1, <2>1, ShapeNexts
  <2>4. x # NULL => x \in DOMAIN cells /\ cells[x].next = NULL
    BY <2>1 DEF Shape
  <2> QED
    BY <2>2, <2>3, <2>4
<1>4. First(<<>>) = NULL
  BY DEF First
<1> HIDE DEF First
<1> QED
  BY <1>1, <1>2, <1>3, <1>4 DEF DequeAt, Lone, Held

(* new, drop, and the statements that begin a call or find no node.        *)
LEMMA DequeBegins ==
  ASSUME DequeInv, DequeInv', Deque!New \/ Deque!Drop \/ Deque!PopTake
  PROVE  Deque!Abstract!Next \/ UNCHANGED Deque!Abstract!vars
<1>1. DequeView /\ DequeView' /\ cells' = cells /\ From(cells)[NULL] = <<>> /\ cellDrops \in BOOLEAN
  BY DequeViews, DequeViewsNext, DequeProper, ProperValues, DequeFacts
     DEF Deque!New, Deque!Drop, Deque!PopTake
<1>2. CASE Deque!New
  <2>1. pc = "dropped" /\ pc' = "rest" /\ cellDrops' = FALSE /\ out' = None /\ head' = head /\ head = NULL
    BY <1>2, DequePlaces DEF Deque!New, Deque!Go
  <2>2. Deque!Contents = <<>> /\ Deque!Contents' = Deque!Contents
    BY <1>1, <2>1 DEF DequeView
  <2> QED
    BY <2>1, <2>2 DEF Deque!Abstract!Next, Deque!Abstract!New
<1>3. CASE Deque!Drop
  <2>1. pc = "rest" /\ ~cellDrops /\ cellDrops' = TRUE /\ pc' = pc /\ out' = out /\ head' = head
    BY <1>3 DEF Deque!Drop
  <2>2. Deque!Contents' = Deque!Contents
    BY <1>1, <2>1 DEF DequeView
  <2> QED
    BY <2>1, <2>2 DEF Deque!Abstract!Next, Deque!Abstract!Drop
<1>4. CASE Deque!PopTake /\ head = NULL
  <2>1. pc = "rest" /\ pc' = (IF cellDrops THEN "dropped" ELSE "rest") /\ cellDrops' = cellDrops /\ out' = None
        /\ head' = head
    BY <1>4 DEF Deque!PopTake
  <2>2. Deque!Contents = <<>> /\ Deque!Contents' = Deque!Contents
    BY <1>1, <1>4, <2>1 DEF DequeView
  <2> QED
    BY <1>1, <2>1, <2>2 DEF Deque!Abstract!Next, Deque!Abstract!Call, Deque!Abstract!Pop, Deque!Abstract!Discard
<1>5. CASE Deque!PopTake /\ head # NULL
  <2>1. pc = "rest" /\ pc' = "pop_next" /\ cellDrops' = cellDrops /\ out' = out /\ old' = head
    BY <1>5 DEF Deque!PopTake
  <2>2. Deque!Contents' = Deque!Contents
    BY <1>1, <2>1 DEF DequeView
  <2> QED
    BY <2>1, <2>2 DEF Deque!Abstract!vars
<1> QED
  BY <1>2, <1>3, <1>4, <1>5

(* A push takes effect with its last statement.                            *)
LEMMA DequePushes ==
  ASSUME DequeInv, DequeInv', DequeQuiet, Deque!Push
  PROVE  Deque!Abstract!Next \/ UNCHANGED Deque!Abstract!vars
<1>1. /\ DequeView /\ DequeView' /\ Proper(cells) /\ Proper(cells') /\ pc' # "panic"
      /\ {head, tail, old, new} \subseteq DOMAIN cells \cup {NULL} /\ NULL \notin DOMAIN cells
      /\ CellType(cells)
  <2>1. (DequeInv => pc # "panic")'
    BY DequePlaces, PTL
  <2> QED
    BY <2>1, DequeViews, DequeViewsNext, DequeProper, DequeProperNext, DequePlaces, DequeFacts
<1>2. CASE \E e \in Elem : Deque!PushTake(e)
  <2>1. PICK e \in Elem, n \in Node \ DOMAIN cells :
          /\ pc = "rest" /\ ~cellDrops /\ out' = None /\ cellDrops' = cellDrops
          /\ DOMAIN cells' = DOMAIN cells \cup {n} /\ cells'[n].next = NULL
          /\ \A m \in DOMAIN cells : cells'[m] = cells[m]
          /\ IF head # NULL THEN old' = head /\ pc' = "push_old" ELSE new' = n /\ pc' = "push_head"
    BY <1>2 DEF Deque!PushTake
  <2>2. From(cells')[head] = From(cells)[head]
    <3>1. \A m \in DOMAIN cells : cells[m].next \in DOMAIN cells \cup {NULL}
      BY <1>1 DEF Proper, Linked
    <3> QED
      BY <1>1, <2>1, <3>1, CellsKept
  <2>3. Deque!Contents' = Deque!Contents
    <3>1. CASE head # NULL
      BY <1>1, <2>1, <2>2, <3>1 DEF DequeView
    <3>2. CASE head = NULL
      <4>1. From(cells)[NULL] = <<>>
        BY <1>1, ProperValues
      <4> QED
        BY <1>1, <2>1, <3>2, <4>1 DEF DequeView
    <3> QED
      BY <3>1, <3>2
  <2>4. Len(Deque!Contents) \in Nat
    BY <1>1, <2>1, ProperValues DEF DequeView
  <2>5. Deque!Abstract!Look
    BY <2>1, <2>3, <2>4 DEF Deque!Abstract!Look
  <2> QED
    BY <2>1, <2>5 DEF Deque!Abstract!Next, Deque!Abstract!Call
<1>3. CASE Deque!PushOld
  <2>1. /\ pc = "push_old" /\ pc' = "push_new" /\ out' = out /\ cellDrops' = cellDrops /\ old' = old
        /\ cells' = [cells EXCEPT ![old].prev = new, ![new].strong = @ + 1]
    BY <1>1, <1>3 DEF Deque!PushOld, Deque!Go, Deque!local
  <2>2. /\ DOMAIN cells' = DOMAIN cells
        /\ \A n \in DOMAIN cells : cells'[n].elem = cells[n].elem /\ cells'[n].next = cells[n].next
    BY <1>1, <2>1, CellTypeIs
  <2>3. From(cells')[old] = From(cells)[old]
    BY <1>1, <2>2, CellsSame
  <2> QED
    BY <1>1, <2>1, <2>3 DEF DequeView, Deque!Abstract!vars
<1>4. CASE Deque!PushNew
  <2>1. /\ pc = "push_new" /\ pc' = "push_head" /\ out' = out /\ cellDrops' = cellDrops /\ new' = new
        /\ cells' = [cells EXCEPT ![new].next = old]
    BY <1>1, <1>4 DEF Deque!PushNew, Deque!Go
  <2>2. /\ old # NULL /\ new # NULL /\ old # new /\ \A n \in DOMAIN cells : cells[n].next # new
    BY <2>1, DequePlaces
  <2>3. /\ DOMAIN cells' = DOMAIN cells /\ cells'[new].next = old
        /\ \A n \in DOMAIN cells \ {new} : cells'[n] = cells[n]
    BY <1>1, <2>1, <2>2, CellTypeIs
  <2>4. From(cells')[old] = From(cells)[old]
    <3>1. \A m \in DOMAIN cells \ {new} : cells[m].next \in (DOMAIN cells \ {new}) \cup {NULL}
      BY <1>1, <2>2 DEF Proper, Linked
    <3> DEFINE S == DOMAIN cells \ {new}
    <3>2. /\ S \in SUBSET (DOMAIN cells \cap DOMAIN cells') /\ old \in S \cup {NULL}
          /\ \A n \in S : /\ cells'[n].elem = cells[n].elem /\ cells'[n].next = cells[n].next
                         /\ cells[n].next \in S \cup {NULL}
      BY <1>1, <2>2, <2>3, <3>1
    <3> HIDE DEF S
    <3> QED
      BY <3>2, CellsKept
  <2>5. Deque!Contents' = Deque!Contents
    BY <1>1, <2>1, <2>2, <2>3, <2>4 DEF DequeView
  <2> QED
    BY <2>1, <2>5 DEF Deque!Abstract!vars
<1>5. CASE Deque!PushHead
  <2>1. /\ pc = "push_head" /\ pc' = "rest" /\ out' = out /\ cellDrops' = cellDrops /\ head' = new
        /\ cells' = cells /\ ~cellDrops /\ out = None
    BY <1>1, <1>5 DEF Deque!PushHead, Deque!Go, DequeQuiet
  <2>2. new \in DOMAIN cells
    BY <1>1, <2>1, DequePlaces
  <2>3. From(cells)[new] = <<cells[new].elem>> \o From(cells)[cells[new].next] /\ From(cells)[NULL] = <<>>
        /\ cells[new].elem \in Elem
    BY <1>1, <2>2, ProperValues DEF Proper
  <2>4. Deque!Contents' = <<cells[new].elem>> \o Deque!Contents
    BY <1>1, <2>1, <2>3 DEF DequeView
  <2> QED
    BY <2>1, <2>3, <2>4 DEF Deque!Abstract!Next, Deque!Abstract!Call, Deque!Abstract!Push
<1> QED
  BY <1>2, <1>3, <1>4, <1>5 DEF Deque!Push

(* A pop takes effect when it gives its node back.                         *)
LEMMA DequePops ==
  ASSUME DequeInv, DequeInv',
         Deque!PopNext \/ Deque!PopPrev \/ Deque!PopHead \/ Deque!PopTail \/ Deque!PopUnwrap
  PROVE  Deque!Abstract!Next \/ UNCHANGED Deque!Abstract!vars
<1>1. /\ DequeView /\ DequeView' /\ Proper(cells) /\ Proper(cells') /\ pc' # "panic"
      /\ {head, tail, old, new} \subseteq DOMAIN cells \cup {NULL} /\ NULL \notin DOMAIN cells
      /\ {head', tail', old', new'} \subseteq DOMAIN cells' \cup {NULL}
      /\ pc' \in {"pop_prev", "pop_tail"} => \A n \in DOMAIN cells' : cells'[n].next # old'
      /\ CellType(cells)
  <2>1. (DequeInv => /\ pc # "panic" /\ {head, tail, old, new} \subseteq DOMAIN cells \cup {NULL}
                     /\ pc \in {"pop_prev", "pop_tail"} => \A n \in DOMAIN cells : cells[n].next # old)'
    BY DequePlaces, PTL
  <2> QED
    BY <2>1, DequeViews, DequeViewsNext, DequeProper, DequeProperNext, DequePlaces, DequeFacts
<1>2. CASE Deque!PopNext
  <2>1. /\ pc = "pop_next" /\ out' = out /\ cellDrops' = cellDrops /\ old' = old
        /\ pc' = IF cells[old].next = NULL THEN "pop_tail" ELSE "pop_prev"
        /\ new' = cells[old].next /\ cells' = [cells EXCEPT ![old].next = NULL]
    BY <1>1, <1>2 DEF Deque!PopNext
  <2>2. old \in DOMAIN cells
    BY <1>1, <2>1, DequePlaces
  <2>3. /\ DOMAIN cells' = DOMAIN cells /\ cells'[old].elem = cells[old].elem
        /\ \A n \in DOMAIN cells \ {old} : cells'[n] = cells[n]
    BY <1>1, <2>1, <2>2, CellTypeIs
  <2>4. cells[old].next # old
    <3>1. PICK r, b : Ranked(cells, r, b)
      BY <1>1 DEF Proper
    <3>2. r[old] \in Nat /\ (cells[old].next \in DOMAIN cells => r[cells[old].next] < r[old])
      BY <2>2, <3>1 DEF Ranked
    <3> QED
      BY <2>2, <3>2
  <2>5. From(cells')[new'] = From(cells)[new']
    <3>1. \A n \in DOMAIN cells' : cells'[n].next \in DOMAIN cells' \cup {NULL} /\ cells'[n].next # old
      BY <1>1, <2>1 DEF Proper, Linked
    <3> DEFINE S == DOMAIN cells \ {old}
    <3>2. /\ S \in SUBSET (DOMAIN cells \cap DOMAIN cells') /\ new' \in S \cup {NULL}
          /\ \A n \in S : /\ cells'[n].elem = cells[n].elem /\ cells'[n].next = cells[n].next
                         /\ cells'[n].next \in S \cup {NULL}
      BY <1>1, <2>1, <2>2, <2>3, <2>4, <3>1
    <3> HIDE DEF S
    <3> QED
      BY <3>2, CellsKept
  <2>6. From(cells)[old] = <<cells[old].elem>> \o From(cells)[cells[old].next]
    BY <1>1, <2>2, ProperValues
  <2>7. Deque!Contents' = <<cells'[old'].elem>> \o From(cells')[new']
    <3>1. pc' \in {"pop_prev", "pop_head", "pop_tail"}
      BY <2>1
    <3> QED
      BY <1>1, <3>1 DEF DequeView
  <2>8. Deque!Contents' = Deque!Contents
    BY <1>1, <2>1, <2>3, <2>5, <2>6, <2>7 DEF DequeView
  <2> QED
    BY <2>1, <2>8 DEF Deque!Abstract!vars
<1>3. CASE Deque!PopPrev \/ Deque!PopTail
  <2>1. /\ pc \in {"pop_prev", "pop_tail"} /\ out' = out /\ cellDrops' = cellDrops /\ old' = old /\ new' = new
        /\ head' = head /\ pc' = IF pc = "pop_prev" THEN "pop_head" ELSE "pop_unwrap"
        /\ \/ cells' = [cells EXCEPT ![cells[new].prev].strong = @ - 1, ![new].prev = NULL]
           \/ cells' = [cells EXCEPT ![tail].strong = @ - 1]
    BY <1>1, <1>3 DEF Deque!PopPrev, Deque!PopTail, Deque!Go, Deque!local
  <2>2. /\ DOMAIN cells' = DOMAIN cells
        /\ \A n \in DOMAIN cells : cells'[n].elem = cells[n].elem /\ cells'[n].next = cells[n].next
    BY <1>1, <2>1, CellTypeIs
  <2>3. From(cells')[new] = From(cells)[new] /\ old \in DOMAIN cells /\ (pc = "pop_tail" => head = new)
    BY <1>1, <2>1, <2>2, CellsSame, DequePlaces
  <2> QED
    BY <1>1, <2>1, <2>2, <2>3 DEF DequeView, Deque!Abstract!vars
<1>4. CASE Deque!PopHead
  <2>1. /\ pc = "pop_head" /\ pc' = "pop_unwrap" /\ out' = out /\ cellDrops' = cellDrops /\ old' = old
        /\ head' = new /\ cells' = cells
    BY <1>4 DEF Deque!PopHead, Deque!Go
  <2> QED
    BY <1>1, <2>1 DEF DequeView, Deque!Abstract!vars
<1>5. CASE Deque!PopUnwrap
  <2>1. /\ pc = "pop_unwrap" /\ pc' = "rest" /\ out' = cells[old].elem /\ cellDrops' = cellDrops
        /\ head' = head /\ cells' = [n \in DOMAIN cells \ {old} |-> cells[n]]
    BY <1>1, <1>5 DEF Deque!PopUnwrap
  <2>2. old \in DOMAIN cells /\ cells[old].elem \in Elem
    BY <1>1, <2>1, DequePlaces DEF Proper
  <2>3. From(cells')[head] = From(cells)[head]
    <3>1. \A n \in DOMAIN cells' : cells'[n] = cells[n] /\ cells'[n].next \in DOMAIN cells' \cup {NULL}
      BY <1>1, <2>1 DEF Proper, Linked
    <3>2. DOMAIN cells' \in SUBSET (DOMAIN cells \cap DOMAIN cells') /\ head \in DOMAIN cells' \cup {NULL}
      BY <1>1, <2>1
    <3> QED
      BY <3>1, <3>2, CellsKept
  <2>4. From(cells)[head] \in Seq(Elem)
    BY <1>1, ProperValues
  <2>5. Deque!Contents = <<cells[old].elem>> \o From(cells)[head] /\ Deque!Contents' = From(cells)[head]
    BY <1>1, <2>1, <2>3 DEF DequeView
  <2>6. Deque!Contents # <<>> /\ Head(Deque!Contents) = out' /\ Tail(Deque!Contents) = Deque!Contents'
    BY <2>1, <2>2, <2>4, <2>5
  <2> QED
    BY <2>1, <2>6 DEF Deque!Abstract!Next, Deque!Abstract!Call, Deque!Abstract!Pop, Deque!Abstract!Discard
<1> QED
  BY <1>2, <1>3, <1>4, <1>5

(* The deque is a stack, statement by statement.                           *)
LEMMA DequeRefines ==
  DequeInv /\ DequeInv' /\ DequeQuiet /\ Deque!Next =>
    Deque!Abstract!Next \/ UNCHANGED Deque!Abstract!vars
BY DequeBegins, DequePushes, DequePops DEF Deque!Next, Deque!Pop

(* There is no deque at first. *)
LEMMA DequeStarts == Deque!Init => Deque!Abstract!Init /\ DequeQuiet
<1> SUFFICES ASSUME Deque!Init PROVE Deque!Abstract!Init /\ DequeQuiet
  OBVIOUS
<1>1. DequeView /\ From(cells)[NULL] = <<>>
  BY DequeInit, DequeViews, DequeProper, ProperValues
<1>2. pc = "dropped" /\ out = None /\ head = NULL
  BY DEF Deque!Init
<1> QED
  BY <1>1, <1>2 DEF DequeView, DequeQuiet, Deque!Abstract!Init

(* While another list is in use, the deque stays as it is.                 *)
LEMMA DequeStays == UNCHANGED dequeVars => UNCHANGED Deque!Abstract!vars /\ DequeQuiet' = DequeQuiet
<1> SUFFICES ASSUME UNCHANGED dequeVars
             PROVE  UNCHANGED Deque!Abstract!vars /\ DequeQuiet' = DequeQuiet
  OBVIOUS
<1>1. /\ cells' = cells /\ head' = head /\ old' = old /\ new' = new
      /\ cellDrops' = cellDrops /\ pc' = pc /\ out' = out
  BY DEF dequeVars
<1>2. Deque!Contents' = Deque!Contents
  BY <1>1 DEF Deque!Contents, Deque!Values, Deque!Link
<1> QED
  BY <1>1, <1>2 DEF Deque!Abstract!vars, DequeQuiet

-----------------------------------------------------------------------------
(* The three abstract lists: one of them steps, the others stay. All begin *)
(* empty.                                                                  *)
LEMMA StartsAbstract == Init => Box!Abstract!Init /\ Rc!Abstract!Init /\ Deque!Abstract!Init /\ DequeQuiet
BY BoxStarts, RcStarts, DequeStarts DEF Init

(* While another list is in use, the values stay. *)
LEMMA RcStays == UNCHANGED rcVars => ListValues' = ListValues
BY DEF rcVars, ListValues

(* Neither do the programs that use another list break it. *)
LEMMA QuietStep == DequeQuiet /\ [Next]_vars => DequeQuiet'
<1>1. [Next]_vars => Deque!Next \/ UNCHANGED dequeVars
  BY DEF Next, UsesBox, UsesRc, UsesDeque, vars
<1> QED
  BY <1>1, DequeQuietStep, DequeStays

(* A step of a program is one of the abstract list in use, or none. *)
LEMMA StepsAbstract ==
  Inv /\ Inv' /\ DequeQuiet /\ [Next]_vars =>
    /\ [Box!Abstract!Next]_Box!Abstract!vars
    /\ [Rc!Abstract!Next]_([h \in DOMAIN lists |-> Rc!Values(lists[h])])
    /\ [Deque!Abstract!Next]_Deque!Abstract!vars
<1> SUFFICES ASSUME Inv, Inv', DequeQuiet, [Next]_vars
             PROVE  /\ Box!Abstract!Next \/ UNCHANGED Box!Abstract!vars
                    /\ Rc!Abstract!Next \/ UNCHANGED [h \in DOMAIN lists |-> Rc!Values(lists[h])]
                    /\ Deque!Abstract!Next \/ UNCHANGED Deque!Abstract!vars
  OBVIOUS
<1>1. /\ BoxInv /\ RcInv /\ DequeInv /\ BoxInv' /\ RcInv' /\ DequeInv'
  BY DEF Inv
<1>2. (ListValues' = ListValues) => UNCHANGED [h \in DOMAIN lists |-> Rc!Values(lists[h])]
  BY ListValuesAre, ListValuesNext
<1>3. /\ Box!Next \/ UNCHANGED boxVars
      /\ Rc!Next \/ UNCHANGED rcVars
      /\ Deque!Next \/ UNCHANGED dequeVars
  BY DEF Next, UsesBox, UsesRc, UsesDeque, vars
<1>4. Box!Abstract!Next \/ UNCHANGED Box!Abstract!vars
  BY <1>1, <1>3, BoxRefines, BoxStays
<1>5. Rc!Abstract!Next \/ UNCHANGED [h \in DOMAIN lists |-> Rc!Values(lists[h])]
  BY <1>1, <1>2, <1>3, RcRefines, RcStays
<1>6. Deque!Abstract!Next \/ UNCHANGED Deque!Abstract!vars
  BY <1>1, <1>3, DequeRefines, DequeStays
<1> QED
  BY <1>4, <1>5, <1>6

(* A list of Boxes and the deque are stacks, and the shared lists are      *)
(* values that no call on another list changes: every sequence of calls,   *)
(* for the deque every sequence of statements, is one of the abstract      *)
(* lists.                                                                  *)
THEOREM Refines == Spec => Implements
<1>1. Spec => []DequeQuiet
  BY StartsAbstract, QuietStep, PTL DEF Spec
<1>2. Spec => /\ Box!Abstract!Init /\ [][Box!Abstract!Next]_Box!Abstract!vars
              /\ Rc!Abstract!Init /\ [][Rc!Abstract!Next]_([h \in DOMAIN lists |-> Rc!Values(lists[h])])
              /\ Deque!Abstract!Init /\ [][Deque!Abstract!Next]_Deque!Abstract!vars
  BY <1>1, Invariant, StartsAbstract, StepsAbstract, PTL DEF Spec
<1> QED
  BY <1>2, PTL DEF Implements, Box!ImplementsStack, Box!Abstract!Spec, Rc!ImplementsLists, Rc!Abstract!Spec,
              Deque!ImplementsStack, Deque!Abstract!Spec
=============================================================================
