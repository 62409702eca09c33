------------------------------- MODULE RcList -------------------------------
(***************************************************************************)
(* The shared list of language/rust/too-many-linked-lists/src/third.rs:    *)
(* lists share their tails, an Rc counts how many own a node, and drop     *)
(* takes apart what nobody else owns. Iterators borrow a list.             *)
(***************************************************************************)
EXTENDS Naturals, Sequences, FiniteSets

CONSTANTS Node, NULL, Handle, Elem

VARIABLES heap,      \* the nodes that are allocated, with their counts
          lists,     \* the head of every list
          drops,     \* a drop is running
          cur,       \* its head, an owner too
          iters      \* the borrowed lists, with what was seen and what is next

vars == <<heap, lists, drops, cur, iters>>

Link == DOMAIN heap \cup {NULL}
Empty == [x \in {} |-> x]

Values(link) ==
  LET from[n \in Link] == IF n = NULL THEN <<>> ELSE <<heap[n].elem>> \o from[heap[n].next]
  IN from[link]

TypeOK == /\ DOMAIN heap \subseteq Node
          /\ heap \in [DOMAIN heap -> [elem : Elem, next : Link, strong : Nat \ {0}]]
          /\ DOMAIN lists \subseteq Handle
          /\ lists \in [DOMAIN lists -> Link]
          /\ drops \in BOOLEAN
          /\ cur \in Link
          /\ DOMAIN iters \subseteq DOMAIN lists
          /\ iters \in [DOMAIN iters -> [seen : Seq(Elem), next : Link]]

Init == heap = Empty /\ lists = Empty /\ drops = FALSE /\ cur = NULL /\ iters = Empty

(* Rc::clone of a link. *)
Clone(link) == IF link = NULL THEN heap ELSE [heap EXCEPT ![link].strong = @ + 1]

Bind(h, link) == lists' = [x \in DOMAIN lists \cup {h} |-> IF x = h THEN link ELSE lists[x]]

New(h) == /\ ~drops
          /\ h \notin DOMAIN lists
          /\ Bind(h, NULL)
          /\ UNCHANGED <<heap, drops, cur, iters>>

(* Mutant: the head is not cloned. *)
Append_Moves(g, e, h) ==
  /\ ~drops
  /\ h \notin DOMAIN lists
  /\ \E n \in Node \ DOMAIN heap :
       /\ heap' = [m \in DOMAIN heap \cup {n} |->
                     IF m = n THEN [elem |-> e, next |-> lists[g], strong |-> 1] ELSE heap[m]]
       /\ Bind(h, n)
  /\ UNCHANGED <<drops, cur, iters>>

(* append: the new node clones the head of the old list. *)
ListAppend(g, e, h) ==
  /\ ~drops
  /\ h \notin DOMAIN lists
  /\ \E n \in Node \ DOMAIN heap :
       /\ heap' = [m \in DOMAIN heap \cup {n} |->
                     IF m = n THEN [elem |-> e, next |-> lists[g], strong |-> 1]
                     ELSE Clone(lists[g])[m]]
       /\ Bind(h, n)
  /\ UNCHANGED <<drops, cur, iters>>

(* Mutant: the tail of a list that shares it is its head. *)
ListTail_Head(g, h) ==
  /\ ~drops
  /\ h \notin DOMAIN lists
  /\ Bind(h, lists[g])
  /\ heap' = Clone(lists[g])
  /\ UNCHANGED <<drops, cur, iters>>

(* tail: the rest of the list, cloned. *)
ListTail(g, h) ==
  /\ ~drops
  /\ h \notin DOMAIN lists
  /\ LET link == IF lists[g] = NULL THEN NULL ELSE heap[lists[g]].next
     IN Bind(h, link) /\ heap' = Clone(link)
  /\ UNCHANGED <<drops, cur, iters>>

(* A list goes out of scope, which a borrow prevents: drop takes its head. *)
Drop(h) == /\ ~drops
           /\ h \notin DOMAIN iters
           /\ drops' = TRUE
           /\ cur' = lists[h]
           /\ lists' = [x \in DOMAIN lists \ {h} |-> lists[x]]
           /\ UNCHANGED <<heap, iters>>

(* Mutants: drop does not stop at a node that others own; it stops without *)
(* giving up its share.                                                    *)
DropNext_Unwraps ==
  /\ drops
  /\ IF cur = NULL THEN drops' = FALSE /\ UNCHANGED <<heap, cur>>
     ELSE /\ heap' = [n \in DOMAIN heap \ {cur} |-> heap[n]]
          /\ cur' = heap[cur].next
          /\ UNCHANGED drops
  /\ UNCHANGED <<lists, iters>>

DropNext_Forgets ==
  /\ drops
  /\ IF cur = NULL THEN drops' = FALSE /\ UNCHANGED <<heap, cur>>
     ELSE IF heap[cur].strong = 1
       THEN /\ heap' = [n \in DOMAIN heap \ {cur} |-> heap[n]]
            /\ cur' = heap[cur].next
            /\ UNCHANGED drops
       ELSE cur' = NULL /\ UNCHANGED <<heap, drops>>
  /\ UNCHANGED <<lists, iters>>

(* A step of its loop: try_unwrap succeeds for the only owner, which frees *)
(* the node and takes its next; otherwise the Rc that try_unwrap gives     *)
(* back is dropped, which counts down, and the loop ends.                  *)
DropNext ==
  /\ drops
  /\ IF cur = NULL THEN drops' = FALSE /\ UNCHANGED <<heap, cur>>
     ELSE IF heap[cur].strong = 1
       THEN /\ heap' = [n \in DOMAIN heap \ {cur} |-> heap[n]]
            /\ cur' = heap[cur].next
            /\ UNCHANGED drops
       ELSE /\ heap' = [heap EXCEPT ![cur].strong = @ - 1]
            /\ cur' = NULL
            /\ UNCHANGED drops
  /\ UNCHANGED <<lists, iters>>

SetIter(h, it) == iters' = [x \in DOMAIN iters \cup {h} |-> IF x = h THEN it ELSE iters[x]]

Iter(h) == /\ ~drops
           /\ h \notin DOMAIN iters
           /\ SetIter(h, [seen |-> <<>>, next |-> lists[h]])
           /\ UNCHANGED <<heap, lists, drops, cur>>

(* Mutant: the iterator does not get past the second node. *)
IterNext_Stays(h) ==
  /\ ~drops
  /\ iters[h].next # NULL
  /\ SetIter(h, [seen |-> Append(iters[h].seen, heap[iters[h].next].elem),
                 next |-> heap[lists[h]].next])
  /\ UNCHANGED <<heap, lists, drops, cur>>

IterNext(h) ==
  /\ ~drops
  /\ iters[h].next # NULL
  /\ LET node == heap[iters[h].next]
     IN SetIter(h, [seen |-> Append(iters[h].seen, node.elem), next |-> node.next])
  /\ UNCHANGED <<heap, lists, drops, cur>>

EndIter(h) == /\ ~drops
              /\ iters' = [x \in DOMAIN iters \ {h} |-> iters[x]]
              /\ UNCHANGED <<heap, lists, drops, cur>>

Next == \/ DropNext
        \/ \E h \in Handle : New(h)
        \/ \E g \in DOMAIN lists, h \in Handle :
             ListTail(g, h) \/ \E e \in Elem : ListAppend(g, e, h)
        \/ \E h \in DOMAIN lists : Drop(h) \/ Iter(h)
        \/ \E h \in DOMAIN iters : IterNext(h) \/ EndIter(h)

Spec == Init /\ [][Next]_vars

-----------------------------------------------------------------------------
(* Who owns a node: lists, nodes before it, and a drop that holds it.      *)
Owners(n) == Cardinality({h \in DOMAIN lists : lists[h] = n})
             + Cardinality({m \in DOMAIN heap : heap[m].next = n})
             + IF cur = n THEN 1 ELSE 0

(* The count of a node is the number of its owners, so that it is freed    *)
(* when the last one goes and not before, whatever lists share it.         *)
CountsExact == \A n \in DOMAIN heap : heap[n].strong = Owners(n)

(* Every node can be reached from a list, or from the drop that is under   *)
(* way: dropping lists in any order leaves nothing behind.                 *)
NoLeak ==
  LET after == [n \in DOMAIN heap |-> {heap[n].next} \ {NULL}]
      reached[k \in Nat] ==
        IF k = 0 THEN ({lists[h] : h \in DOMAIN lists} \cup {cur}) \ {NULL}
        ELSE reached[k - 1] \cup UNION {after[n] : n \in reached[k - 1]}
  IN reached[Cardinality(DOMAIN heap)] = DOMAIN heap

(* An iterator yields its list in order, whatever is made from that list   *)
(* or dropped beside it.                                                   *)
IteratesInOrder ==
  \A h \in DOMAIN iters : Values(lists[h]) = iters[h].seen \o Values(iters[h].next)

(* The lists are values: append, tail and drop change no other list. *)
Abstract == INSTANCE PersistentLists WITH lists <- [h \in DOMAIN lists |-> Values(lists[h])]
ImplementsLists == Abstract!Spec
=============================================================================
