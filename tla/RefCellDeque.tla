---------------------------- MODULE RefCellDeque ----------------------------
(***************************************************************************)
(* The doubly linked list of language/rust/too-many-linked-lists/src/      *)
(* fourth.rs, statement by statement. Neighbours own each other through    *)
(* Rcs, so the counts never fall to 0 by themselves; a RefCell that is     *)
(* borrowed twice, and an unwrap of a node that others own, panic.         *)
(***************************************************************************)
EXTENDS Naturals, Sequences, FiniteSets

CONSTANTS Node, NULL, Elem, None

VARIABLES heap,      \* the nodes: elem, prev, next and the strong count
          borrowed,  \* the nodes that are mutably borrowed
          head, tail,
          old,       \* old_head
          new,       \* new_head
          drops,     \* drop is running: it pops until the list is empty
          pc,        \* the statement
          out        \* what the last call returned

local == <<old, new>>
vars == <<heap, borrowed, head, tail, local, drops, pc, out>>

Link == DOMAIN heap \cup {NULL}

TypeOK ==
  /\ DOMAIN heap \subseteq Node
  /\ heap \in [DOMAIN heap -> [elem : Elem, prev : Link, next : Link, strong : Nat \ {0}]]
  /\ borrowed \subseteq DOMAIN heap
  /\ {head, tail, old, new} \subseteq Link
  /\ drops \in BOOLEAN
  /\ pc \in {"dropped", "rest", "push_old", "push_new", "push_head", "pop_next",
             "pop_prev", "pop_head", "pop_tail", "pop_unwrap", "panic"}
  /\ out \in Elem \cup {None}

Init == /\ heap = [n \in {} |-> n]
        /\ borrowed = {}
        /\ head = NULL /\ tail = NULL /\ old = NULL /\ new = NULL
        /\ drops = FALSE
        /\ pc = "dropped"
        /\ out = None

Go(from, to) == pc = from /\ pc' = to

New == /\ Go("dropped", "rest")
       /\ drops' = FALSE
       /\ out' = None
       /\ UNCHANGED <<heap, borrowed, head, tail, local>>

-----------------------------------------------------------------------------
(* push_front: Node::new and self.head.take(). *)
PushTake(e) ==
  \E n \in Node \ DOMAIN heap :
    LET node == [elem |-> e, prev |-> NULL, next |-> NULL, strong |-> 1]
    IN /\ pc = "rest" /\ ~drops
       /\ head' = NULL
       /\ out' = None
       /\ UNCHANGED <<borrowed, drops>>
       /\ IF head # NULL
            THEN /\ heap' = [m \in DOMAIN heap \cup {n} |-> IF m = n THEN node ELSE heap[m]]
                 /\ old' = head /\ new' = n
                 /\ pc' = "push_old"
                 /\ UNCHANGED tail
            ELSE \* the None arm clones the node for tail
                 /\ heap' = [m \in DOMAIN heap \cup {n} |->
                               IF m = n THEN [node EXCEPT !.strong = 2] ELSE heap[m]]
                 /\ new' = n
                 /\ tail' = n
                 /\ pc' = "push_head"
                 /\ UNCHANGED old

(* Mutants: the old head keeps its prev; prev gets the node without a      *)
(* count of its own.                                                       *)
PushOld_NoPrev == /\ Go("push_old", IF old \in borrowed THEN "panic" ELSE "push_new")
                  /\ UNCHANGED <<heap, borrowed, head, tail, local, drops, out>>

PushOld_NoClone ==
  /\ Go("push_old", IF old \in borrowed THEN "panic" ELSE "push_new")
  /\ heap' = [heap EXCEPT ![old].prev = new]
  /\ UNCHANGED <<borrowed, head, tail, local, drops, out>>

(* old_head.borrow_mut().prev = Some(new_head.clone()) *)
PushOld == /\ Go("push_old", IF old \in borrowed THEN "panic" ELSE "push_new")
           /\ heap' = [heap EXCEPT ![old].prev = new, ![new].strong = @ + 1]
           /\ UNCHANGED <<borrowed, head, tail, local, drops, out>>

(* Mutant: the old list is not linked behind the new node. *)
PushNew_Drops == /\ Go("push_new", IF new \in borrowed THEN "panic" ELSE "push_head")
                 /\ old' = NULL
                 /\ UNCHANGED <<heap, borrowed, head, tail, new, drops, out>>

(* new_head.borrow_mut().next = Some(old_head) moves old_head. *)
PushNew == /\ Go("push_new", IF new \in borrowed THEN "panic" ELSE "push_head")
           /\ heap' = [heap EXCEPT ![new].next = old]
           /\ old' = NULL
           /\ UNCHANGED <<borrowed, head, tail, new, drops, out>>

(* self.head = Some(new_head) *)
PushHead == /\ Go("push_head", "rest")
            /\ head' = new
            /\ new' = NULL
            /\ UNCHANGED <<heap, borrowed, tail, old, drops, out>>

-----------------------------------------------------------------------------
(* Mutant: drop stops before the last node. *)
PopTake_LeavesLast ==
  /\ pc = "rest"
  /\ IF head = NULL \/ (drops /\ head = tail)
       THEN /\ pc' = IF drops THEN "dropped" ELSE "rest"
            /\ out' = None
            /\ head' = NULL /\ tail' = NULL
            /\ UNCHANGED <<heap, local>>
       ELSE /\ pc' = "pop_next"
            /\ old' = head
            /\ head' = NULL
            /\ UNCHANGED <<heap, tail, new, out>>
  /\ UNCHANGED <<borrowed, drops>>

(* pop_front: self.head.take(). A drop that finds the list empty is done.  *)
PopTake == /\ pc = "rest"
           /\ IF head = NULL
                THEN /\ pc' = IF drops THEN "dropped" ELSE "rest"
                     /\ out' = None
                     /\ UNCHANGED <<head, local>>
                ELSE /\ pc' = "pop_next"
                     /\ old' = head
                     /\ head' = NULL
                     /\ UNCHANGED <<new, out>>
           /\ UNCHANGED <<heap, borrowed, tail, drops>>

(* old_head.borrow_mut().next.take(): the borrow lasts to the end of the   *)
(* match.                                                                  *)
PopNext == /\ pc = "pop_next"
           /\ IF old \in borrowed
                THEN pc' = "panic" /\ UNCHANGED <<heap, borrowed, new>>
                ELSE /\ pc' = IF heap[old].next = NULL THEN "pop_tail" ELSE "pop_prev"
                     /\ new' = heap[old].next
                     /\ heap' = [heap EXCEPT ![old].next = NULL]
                     /\ borrowed' = borrowed \cup {old}
           /\ UNCHANGED <<head, tail, old, drops, out>>

(* new_head.borrow_mut().prev.take() drops an Rc of old_head. *)
PopPrev == /\ pc = "pop_prev"
           /\ IF new \in borrowed
                THEN pc' = "panic" /\ UNCHANGED heap
                ELSE /\ pc' = "pop_head"
                     /\ heap' = [heap EXCEPT ![heap[new].prev].strong = @ - 1, ![new].prev = NULL]
           /\ UNCHANGED <<borrowed, head, tail, local, drops, out>>

(* self.head = Some(new_head); the match ends. *)
PopHead == /\ Go("pop_head", "pop_unwrap")
           /\ head' = new
           /\ new' = NULL
           /\ borrowed' = borrowed \ {old}
           /\ UNCHANGED <<heap, tail, old, drops, out>>

(* Mutant: tail still names the node of the list that became empty. *)
PopTail_Keeps == /\ Go("pop_tail", "pop_unwrap")
                 /\ borrowed' = borrowed \ {old}
                 /\ UNCHANGED <<heap, head, tail, local, drops, out>>

(* self.tail.take() drops an Rc; the match ends. *)
PopTail == /\ Go("pop_tail", "pop_unwrap")
           /\ heap' = [heap EXCEPT ![tail].strong = @ - 1]
           /\ tail' = NULL
           /\ borrowed' = borrowed \ {old}
           /\ UNCHANGED <<head, local, drops, out>>

(* Rc::try_unwrap(old_head).ok().unwrap().into_inner().elem *)
PopUnwrap == /\ pc = "pop_unwrap"
             /\ IF heap[old].strong = 1
                  THEN /\ pc' = "rest"
                       /\ out' = heap[old].elem
                       /\ heap' = [n \in DOMAIN heap \ {old} |-> heap[n]]
                       /\ old' = NULL
                  ELSE pc' = "panic" /\ UNCHANGED <<heap, old, out>>
             /\ UNCHANGED <<borrowed, head, tail, new, drops>>

-----------------------------------------------------------------------------
(* The owner goes. *)
Drop == /\ pc = "rest" /\ ~drops
        /\ drops' = TRUE
        /\ UNCHANGED <<heap, borrowed, head, tail, local, pc, out>>

Push == (\E e \in Elem : PushTake(e)) \/ PushOld \/ PushNew \/ PushHead
Pop == PopTake \/ PopNext \/ PopPrev \/ PopHead \/ PopTail \/ PopUnwrap

Next == New \/ Push \/ Pop \/ Drop

Spec == Init /\ [][Next]_vars

-----------------------------------------------------------------------------
Owners(n) == Cardinality({m \in DOMAIN heap : heap[m].next = n})
             + Cardinality({m \in DOMAIN heap : heap[m].prev = n})
             + Cardinality({v \in {"head", "tail", "old", "new"} :
                              n = CASE v = "head" -> head [] v = "tail" -> tail
                                    [] v = "old" -> old [] v = "new" -> new})

(* The count of a node is the number of its owners after every statement,  *)
(* as the comments of pop_front count them.                                *)
CountsExact == \A n \in DOMAIN heap : heap[n].strong = Owners(n)

(* No borrow_mut meets a borrow, and the node that pop unwraps is its own. *)
NeverPanics == pc # "panic"

(* Between calls next and prev are inverse, from head to tail. *)
Linked ==
  pc = "rest" =>
    /\ head = NULL <=> tail = NULL
    /\ \A m \in DOMAIN heap : /\ heap[m].prev = NULL <=> m = head
                              /\ heap[m].next = NULL <=> m = tail
                              /\ \A n \in DOMAIN heap : heap[m].next = n <=> heap[n].prev = m

(* A list that is gone has freed its nodes, although they form cycles.     *)
NoLeak == pc = "dropped" => heap = [n \in {} |-> n]

Values(link) ==
  LET from[n \in Link] == IF n = NULL THEN <<>> ELSE <<heap[n].elem>> \o from[heap[n].next]
  IN from[link]

(* The list is a stack. A push takes effect when the new node is linked, a *)
(* pop when it gives its node back.                                        *)
Contents ==
  CASE pc \in {"push_old", "push_new"} -> Values(old)
    [] pc \in {"push_head"} -> IF heap[new].next = NULL THEN <<>> ELSE Values(heap[new].next)
    [] pc \in {"pop_next"} -> Values(old)
    [] pc \in {"pop_prev", "pop_head", "pop_tail"} -> <<heap[old].elem>> \o Values(new)
    [] pc \in {"pop_unwrap", "panic"} -> <<heap[old].elem>> \o Values(head)
    [] OTHER -> Values(head)

Abstract == INSTANCE Stack WITH seq <- Contents, alive <- pc # "dropped" /\ ~drops
ImplementsStack == Abstract!Spec
=============================================================================
