------------------------------- MODULE BoxList -------------------------------
(***************************************************************************)
(* The singly linked list of Boxes of language/rust/too-many-linked-lists: *)
(* second_gene.rs, and first2.rs and second.rs, which have part of its     *)
(* operations. A Box owns its node: freeing a node frees what its next     *)
(* still owns, by recursion.                                               *)
(***************************************************************************)
EXTENDS Naturals, Sequences, FiniteSets

CONSTANTS Node, NULL, Elem, None,
          Debug      \* drop prints the rest of the list, as in first2.rs

VARIABLES heap,     \* the nodes that are allocated
          head,     \* self.head
          mode,     \* who has the list: its owner, a borrow, an iterator, drop
          cur,      \* the next of an iterator, cur_link of drop
          out,      \* what the last call returned
          seen,     \* what the iterator has yielded, or its user has written
          depth     \* how deep the last call recursed

vars == <<heap, head, mode, cur, out, seen, depth>>

Link == DOMAIN heap \cup {NULL}

(* The values from a link on. *)
Values(link) ==
  LET from[n \in Link] == IF n = NULL THEN <<>> ELSE <<heap[n].elem>> \o from[heap[n].next]
  IN from[link]

TypeOK == /\ DOMAIN heap \subseteq Node
          /\ heap \in [DOMAIN heap -> [elem : Elem, next : Link]]
          /\ head \in Link
          /\ mode \in {"dropped", "owned", "iter", "iter_mut", "into_iter", "dropping"}
          /\ cur \in Link
          /\ out \in Elem \cup {None}
          /\ seen \in Seq(Elem)
          /\ depth \in Nat

Init == /\ heap = [n \in {} |-> n]
        /\ head = NULL
        /\ mode = "dropped"
        /\ cur = NULL
        /\ out = None
        /\ seen = <<>>
        /\ depth = 0

Free(n) == heap' = [m \in DOMAIN heap \ {n} |-> heap[m]]
Write(n, e) == heap' = [heap EXCEPT ![n].elem = e]
Returns(v) == out' = v /\ depth' = 0

New == /\ mode = "dropped"
       /\ mode' = "owned"
       /\ head' = NULL
       /\ Returns(None)
       /\ UNCHANGED <<heap, cur, seen>>

(* Mutant: the old head is dropped, not moved into the new node. *)
Push_Loses(e) ==
  /\ mode = "owned"
  /\ \E n \in Node \ DOMAIN heap :
       /\ heap' = [m \in DOMAIN heap \cup {n} |->
                     IF m = n THEN [elem |-> e, next |-> NULL] ELSE heap[m]]
       /\ head' = n
  /\ Returns(None)
  /\ UNCHANGED <<mode, cur, seen>>

(* The allocator takes any node that is free. *)
Push(e) ==
  /\ mode = "owned"
  /\ \E n \in Node \ DOMAIN heap :
       /\ heap' = [m \in DOMAIN heap \cup {n} |->
                     IF m = n THEN [elem |-> e, next |-> head] ELSE heap[m]]
       /\ head' = n
  /\ Returns(None)
  /\ UNCHANGED <<mode, cur, seen>>

(* Mutant: the head is not moved on. *)
Pop_KeepsHead == /\ mode \in {"owned", "into_iter"}
                 /\ IF head = NULL THEN Returns(None) /\ UNCHANGED heap
                    ELSE Returns(heap[head].elem) /\ Free(head)
                 /\ UNCHANGED <<head, mode, cur, seen>>

(* pop, and next of the list itself and of IntoIter. *)
Pop == /\ mode \in {"owned", "into_iter"}
       /\ IF head = NULL THEN Returns(None) /\ UNCHANGED <<heap, head>>
          ELSE /\ Returns(heap[head].elem)
               /\ head' = heap[head].next
               /\ Free(head)
       /\ UNCHANGED <<mode, cur, seen>>

Peek == /\ mode \in {"owned", "iter"}
        /\ Returns(IF head = NULL THEN None ELSE heap[head].elem)
        /\ UNCHANGED <<heap, head, mode, cur, seen>>

PeekMut(e) == /\ mode = "owned"
              /\ IF head = NULL THEN Returns(None) /\ UNCHANGED heap
                 ELSE Returns(e) /\ Write(head, e)
              /\ UNCHANGED <<head, mode, cur, seen>>

(* iter and iter_mut borrow the list until their last use. *)
Borrow(m) == /\ mode = "owned"
             /\ mode' = m
             /\ cur' = head
             /\ seen' = <<>>
             /\ Returns(None)
             /\ UNCHANGED <<heap, head>>

IterNext == /\ mode = "iter"
            /\ IF cur = NULL THEN Returns(None) /\ UNCHANGED <<cur, seen>>
               ELSE /\ Returns(heap[cur].elem)
                    /\ seen' = Append(seen, heap[cur].elem)
                    /\ cur' = heap[cur].next
            /\ UNCHANGED <<heap, head, mode>>

(* Mutant: the iterator starts over at every call. *)
IterMutNext_Restarts(e) ==
  /\ mode = "iter_mut"
  /\ IF cur = NULL THEN Returns(None) /\ UNCHANGED <<heap, cur, seen>>
     ELSE /\ Returns(e)
          /\ Write(cur, e)
          /\ seen' = Append(seen, e)
          /\ cur' = head
  /\ UNCHANGED <<head, mode>>

(* next of IterMut takes its link and moves on; the user writes through    *)
(* the reference it gets.                                                  *)
IterMutNext(e) ==
  /\ mode = "iter_mut"
  /\ IF cur = NULL THEN Returns(None) /\ UNCHANGED <<heap, cur, seen>>
     ELSE /\ Returns(e)
          /\ Write(cur, e)
          /\ seen' = Append(seen, e)
          /\ cur' = heap[cur].next
  /\ UNCHANGED <<head, mode>>

EndBorrow == /\ mode \in {"iter", "iter_mut"}
             /\ mode' = "owned"
             /\ cur' = NULL
             /\ seen' = <<>>
             /\ Returns(None)
             /\ UNCHANGED <<heap, head>>

(* The list moves into its iterator. *)
IntoIter == /\ mode = "owned"
            /\ mode' = "into_iter"
            /\ Returns(None)
            /\ UNCHANGED <<heap, head, cur, seen>>

(* The owner goes: drop takes self.head and frees node after node. *)
Drop == /\ mode \in {"owned", "into_iter"}
        /\ mode' = "dropping"
        /\ cur' = head
        /\ head' = NULL
        /\ Returns(None)
        /\ UNCHANGED <<heap, seen>>

(* The nodes that the Box of a link owns, each through the next of the one *)
(* before: its drop glue calls itself for every one of them.               *)
Owned(h, link) ==
  LET from[n \in DOMAIN h \cup {NULL}] == IF n = NULL THEN <<>> ELSE <<n>> \o from[h[n].next]
  IN from[link]

(* The Box of n goes out of scope, when the heap is h. The derived Debug   *)
(* of Link, which printed the rest, recurses as well.                      *)
OutOfScope(h, n) ==
  LET gone == Owned(h, n)
      printed == IF Debug THEN Len(Values(heap[n].next)) ELSE 0
  IN /\ heap' = [m \in DOMAIN h \ {gone[i] : i \in DOMAIN gone} |-> h[m]]
     /\ depth' = IF printed > Len(gone) THEN printed ELSE Len(gone)

(* Mutant: drop is left to the glue. *)
DropNext_Glue ==
  /\ mode = "dropping"
  /\ IF cur = NULL THEN mode' = "dropped" /\ Returns(None) /\ UNCHANGED <<heap, cur>>
     ELSE /\ cur' = NULL
          /\ OutOfScope(heap, cur)
          /\ out' = None
          /\ UNCHANGED mode
  /\ UNCHANGED <<head, seen>>

(* next is taken out of the node before it goes out of scope. *)
DropNext ==
  /\ mode = "dropping"
  /\ IF cur = NULL THEN mode' = "dropped" /\ Returns(None) /\ UNCHANGED <<heap, cur>>
     ELSE /\ cur' = heap[cur].next
          /\ OutOfScope([heap EXCEPT ![cur].next = NULL], cur)
          /\ out' = None
          /\ UNCHANGED mode
  /\ UNCHANGED <<head, seen>>

Next == \/ New \/ Pop \/ Peek \/ IterNext \/ EndBorrow \/ IntoIter \/ Drop \/ DropNext
        \/ \E e \in Elem : Push(e) \/ PeekMut(e) \/ IterMutNext(e)
        \/ \E m \in {"iter", "iter_mut"} : Borrow(m)

Spec == Init /\ [][Next]_vars

-----------------------------------------------------------------------------
(* The values of the list, also while drop takes it apart. *)
Contents == Values(IF mode = "dropping" THEN cur ELSE head)

(* Every node that is allocated is on the list, once: nothing leaks, and   *)
(* nothing is owned twice.                                                 *)
AllOwned == Len(Contents) = Cardinality(DOMAIN heap)

(* An iterator shows the list it was made of, in order and to its end; one *)
(* that writes changes what it has passed and nothing else.                *)
IteratesInOrder == mode \in {"iter", "iter_mut"} => Contents = seen \o Values(cur)

(* "no unbounded recursion occurs" (first2.rs, line 71): drop goes a fixed *)
(* number of calls deep, however long the list is.                         *)
ShallowDrop == depth <= 1

(* The list is a stack. *)
Abstract == INSTANCE Stack WITH seq <- Contents, alive <- mode \notin {"dropping", "dropped"}
ImplementsStack == Abstract!Spec
=============================================================================
