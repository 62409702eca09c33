------------------------------ MODULE RustLists ------------------------------
(***************************************************************************)
(* The lists of language/rust/too-many-linked-lists side by side. The      *)
(* modules of the crate share no state, and a program uses one of them:    *)
(* uses names it.                                                          *)
(***************************************************************************)
EXTENDS Naturals, Sequences

CONSTANTS Node, NULL, Handle, Elem, None, Debug

ASSUME NullIsNoNode == NULL \notin Node
ASSUME NoneIsNoElem == None \notin Elem
ASSUME DebugType == Debug \in BOOLEAN

VARIABLES uses,
          boxes, boxHead, mode, boxCur, boxOut, boxSeen, depth,
          shared, lists, sharedDrops, sharedCur, iters,
          cells, borrowed, head, tail, old, new, cellDrops, pc, out

boxVars == <<boxes, boxHead, mode, boxCur, boxOut, boxSeen, depth>>
rcVars == <<shared, lists, sharedDrops, sharedCur, iters>>
dequeVars == <<cells, borrowed, head, tail, old, new, cellDrops, pc, out>>
vars == <<uses, boxVars, rcVars, dequeVars>>

Box == INSTANCE BoxList WITH heap <- boxes, head <- boxHead, cur <- boxCur,
                             out <- boxOut, seen <- boxSeen
Rc == INSTANCE RcList WITH heap <- shared, drops <- sharedDrops, cur <- sharedCur
Deque == INSTANCE RefCellDeque WITH heap <- cells, drops <- cellDrops

Init == /\ uses \in {"second_gene", "third", "fourth"}
        /\ Box!Init /\ Rc!Init /\ Deque!Init

UsesBox == /\ uses = "second_gene"
           /\ Box!Next
           /\ UNCHANGED <<uses, rcVars, dequeVars>>

UsesRc == /\ uses = "third"
          /\ Rc!Next
          /\ UNCHANGED <<uses, boxVars, dequeVars>>

UsesDeque == /\ uses = "fourth"
             /\ Deque!Next
             /\ UNCHANGED <<uses, boxVars, rcVars>>

Next == UsesBox \/ UsesRc \/ UsesDeque

Spec == Init /\ [][Next]_vars

-----------------------------------------------------------------------------
TypeOK == Box!TypeOK /\ Rc!TypeOK /\ Deque!TypeOK

(* No sequence of calls leaks a node: every node of a list of Boxes is on  *)
(* it once; every node of the shared lists is reached from one of them;    *)
(* the deque's drop frees its cycles.                                      *)
NothingLeaks == Box!AllOwned /\ Rc!NoLeak /\ Deque!NoLeak

(* The strong count of an Rc is the number of its owners at every          *)
(* statement, so that a node is freed with the last of them.               *)
CountsExact == Rc!CountsExact /\ Deque!CountsExact

(* Neither a borrow_mut nor an unwrap of the deque panics.                 *)
NeverPanics == Deque!NeverPanics

(* Iterators yield their list in order while lists that share it come and  *)
(* go; between calls the links of the deque are mutual from head to tail.  *)
InOrder == Box!IteratesInOrder /\ Rc!IteratesInOrder /\ Deque!Linked

(* "so no unbounded recursion occurs" (first2.rs, line 71): the drop of a  *)
(* list of Boxes is a fixed number of calls deep.                          *)
ShallowDrop == Box!ShallowDrop

(* The lists that own their nodes are stacks, the shared ones are values.  *)
Implements == Box!ImplementsStack /\ Rc!ImplementsLists /\ Deque!ImplementsStack
=============================================================================
