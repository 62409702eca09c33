-------------------------------- MODULE Stack --------------------------------
(***************************************************************************)
(* What the owning lists of language/rust/too-many-linked-lists promise:   *)
(* a stack that loses nothing while it has an owner. out is what the last  *)
(* call returned.                                                          *)
(***************************************************************************)
EXTENDS Sequences, Naturals

CONSTANTS Elem, None

VARIABLES alive, seq, out

vars == <<alive, seq, out>>

Init == alive = FALSE /\ seq = <<>> /\ out = None

New == ~alive /\ seq = <<>> /\ alive' = TRUE /\ out' = None /\ UNCHANGED seq

Push(e) == seq' = <<e>> \o seq /\ out' = None

Pop == IF seq = <<>> THEN out' = None /\ UNCHANGED seq
       ELSE out' = Head(seq) /\ seq' = Tail(seq)

(* peek, an iterator: a value of the list is shown. *)
Look == UNCHANGED seq /\ \E i \in 0..Len(seq) : out' = IF i = 0 THEN None ELSE seq[i]

(* peek_mut, iter_mut: a value of the list is replaced. *)
Set == \E i \in DOMAIN seq, e \in Elem : seq' = [seq EXCEPT ![i] = e] /\ out' = e

Call == alive /\ UNCHANGED alive /\ (Pop \/ Look \/ Set \/ \E e \in Elem : Push(e))

(* The owner goes, and then the list, from its front. *)
Drop == alive /\ alive' = FALSE /\ out' \in {None, out} /\ UNCHANGED seq

Discard == /\ ~alive
           /\ UNCHANGED alive
           /\ IF seq = <<>> THEN out' = None /\ UNCHANGED seq
              ELSE out' \in {None, Head(seq)} /\ seq' = Tail(seq)

Next == New \/ Call \/ Drop \/ Discard

Spec == Init /\ [][Next]_vars
=============================================================================
