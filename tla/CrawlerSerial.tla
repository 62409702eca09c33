---------------------------- MODULE CrawlerSerial ----------------------------
(***************************************************************************)
(* Serial of ds/6.824/code/crawler/main.go, its recursion as a stack of    *)
(* calls: each holds the links of its page that are still to be visited.   *)
(***************************************************************************)
EXTENDS Integers, FiniteSets, Web

VARIABLES fetched,  \* the map passed down the recursion
          stack     \* the calls in progress, innermost first

vars == <<web, calls, fetched, stack>>

TypeOK == /\ web \in Webs
          /\ calls \in [Url -> 0..1]
          /\ fetched \subseteq Url
          /\ stack \in Seq(Seq(Url))

(* main calls Serial with the root: a frame with that one URL stands for   *)
(* its call.                                                               *)
Init == /\ web \in Webs
        /\ calls = [u \in Url |-> 0]
        /\ fetched = {}
        /\ stack = << <<Root>> >>

(* Mutant: pages are not marked. *)
Call_Unmarked ==
  /\ stack # <<>>
  /\ Head(stack) # <<>>
  /\ LET u == Head(Head(stack))
         rest == <<Tail(Head(stack))>> \o Tail(stack)
     IN /\ calls' = [calls EXCEPT ![u] = @ + 1]
        /\ stack' = IF u \in DOMAIN web THEN <<web[u]>> \o rest ELSE rest
  /\ UNCHANGED <<web, fetched>>

(* Mutant: a page that was seen before ends the caller's loop too. *)
Call_EndsCaller ==
  /\ stack # <<>>
  /\ Head(stack) # <<>>
  /\ LET u == Head(Head(stack))
         rest == <<Tail(Head(stack))>> \o Tail(stack)
     IN \/ /\ u \in fetched
           /\ stack' = Tail(stack)
           /\ UNCHANGED <<calls, fetched>>
        \/ /\ u \notin fetched
           /\ fetched' = fetched \cup {u}
           /\ calls' = [calls EXCEPT ![u] = @ + 1]
           /\ stack' = IF u \in DOMAIN web THEN <<web[u]>> \o rest ELSE rest
  /\ UNCHANGED web

(* Serial(u) for the next link of the innermost call, up to its loop: it   *)
(* returns at once for a page that is marked or that cannot be fetched.    *)
Call ==
  /\ stack # <<>>
  /\ Head(stack) # <<>>
  /\ LET u == Head(Head(stack))
         rest == <<Tail(Head(stack))>> \o Tail(stack)
     IN \/ /\ u \in fetched
           /\ stack' = rest
           /\ UNCHANGED <<calls, fetched>>
        \/ /\ u \notin fetched
           /\ fetched' = fetched \cup {u}
           /\ calls' = [calls EXCEPT ![u] = @ + 1]
           /\ stack' = IF u \in DOMAIN web THEN <<web[u]>> \o rest ELSE rest
  /\ UNCHANGED web

(* The loop of the innermost call is over. *)
Return == /\ stack # <<>>
          /\ Head(stack) = <<>>
          /\ stack' = Tail(stack)
          /\ UNCHANGED <<web, calls, fetched>>

(* Serial has returned to main. *)
Terminated == stack = <<>> /\ UNCHANGED vars

Next == Call \/ Return \/ Terminated

Spec == Init /\ [][Next]_vars /\ WF_vars(Next)

-----------------------------------------------------------------------------
(* The recursion is never deeper than the number of pages (plus main's own *)
(* frame), whatever cycles the web has: a page is expanded once.           *)
DepthBounded == Len(stack) <= Cardinality(DOMAIN web) + 1

(* What Serial promises of the crawl, it keeps: every page is fetched at   *)
(* most once and none that is out of reach, and when it returns to main    *)
(* every page within reach has been.                                       *)
Abstract == INSTANCE Crawl WITH returned <- (stack = <<>>)

OnlyReachable == Abstract!OnlyReachable
CompleteAtReturn == Abstract!CompleteAtReturn

Returns == <>(stack = <<>>)
=============================================================================
