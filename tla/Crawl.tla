------------------------------- MODULE Crawl -------------------------------
(***************************************************************************)
(* What a crawl of ds/6.824/code/crawler/main.go promises, whichever of    *)
(* its three implementations runs: from the root, every page that can be   *)
(* reached is fetched exactly once, no other page is fetched, and the      *)
(* crawl returns only when no page is left.                                *)
(***************************************************************************)
EXTENDS Naturals, Web

VARIABLE  returned  \* the top-level call has returned

vars == <<web, calls, returned>>

TypeOK == /\ web \in Webs
          /\ calls \in [Url -> 0..1]
          /\ returned \in BOOLEAN

Visited == {u \in Url : calls[u] > 0}

(* A page of the web links to u. *)
LinksTo(p, u) == p \in DOMAIN web /\ \E i \in DOMAIN web[p] : web[p][i] = u

(* u is the root or occurs on a page that was fetched. *)
Known(u) == u = Root \/ \E p \in Visited : LinksTo(p, u)

Init == /\ web \in Webs
        /\ calls = [u \in Url |-> 0]
        /\ returned = FALSE

(* fetcher.Fetch(u), for a page that was not marked. *)
Visit(u) == /\ ~returned
            /\ Known(u)
            /\ calls[u] = 0
            /\ calls' = [calls EXCEPT ![u] = 1]
            /\ UNCHANGED <<web, returned>>

(* The top-level call has no page left to wait for. *)
Return == /\ ~returned
          /\ \A u \in Url : Known(u) => u \in Visited
          /\ returned' = TRUE
          /\ UNCHANGED <<web, calls>>

Next == Return \/ \E u \in Url : Visit(u)

Spec == Init /\ [][Next]_vars /\ WF_vars(Next)

(* A set of URLs that holds the root and every link of its own pages. *)
Closed(S) == Root \in S /\ \A p \in S, u \in Url : LinksTo(p, u) => u \in S

(* Nothing outside the part of the web that hangs off the root is ever     *)
(* fetched: the pages visited lie in every closed set.                     *)
OnlyReachable == \A S \in SUBSET Url : Closed(S) => Visited \subseteq S

(* When the crawl returns, the pages fetched are a closed set: with        *)
(* OnlyReachable, exactly the pages reachable from the root.               *)
CompleteAtReturn == returned => Closed(Visited)
=============================================================================
