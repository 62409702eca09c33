--------------------------- MODULE PersistentLists ---------------------------
(***************************************************************************)
(* What third.rs promises: lists as values. Making a list from another one *)
(* or dropping it changes no other list.                                   *)
(***************************************************************************)
EXTENDS Sequences

CONSTANTS Handle, Elem

VARIABLE lists     \* the lists that exist

Set(h, s) == lists' = [x \in DOMAIN lists \cup {h} |-> IF x = h THEN s ELSE lists[x]]

Init == lists = [h \in {} |-> h]

New(h) == Set(h, <<>>)
Append_(g, e, h) == Set(h, <<e>> \o lists[g])
Tail_(g, h) == Set(h, IF lists[g] = <<>> THEN <<>> ELSE Tail(lists[g]))
Drop(h) == lists' = [x \in DOMAIN lists \ {h} |-> lists[x]]

Next == \/ \E h \in Handle \ DOMAIN lists :
             \/ New(h)
             \/ \E g \in DOMAIN lists : Tail_(g, h) \/ \E e \in Elem : Append_(g, e, h)
        \/ \E h \in DOMAIN lists : Drop(h)

Spec == Init /\ [][Next]_lists
=============================================================================
