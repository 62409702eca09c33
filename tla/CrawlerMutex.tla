---------------------------- MODULE CrawlerMutex ----------------------------
(***************************************************************************)
(* ConcurrentMutex of ds/6.824/code/crawler/main.go: one goroutine per     *)
(* link, a map of URLs shared under a mutex, and a WaitGroup per call.     *)
(*                                                                         *)
(* A goroutine is named by its path in the tree of spawns: <<>> is the     *)
(* call made by main, Append(g, i) the goroutine that g started for the    *)
(* i-th link of its page.                                                  *)
(***************************************************************************)
EXTENDS Integers, FiniteSets, Web

VARIABLES marked,   \* f.fetched: the URLs marked in the shared map
          locked,   \* f.mu: a sync.Mutex has no owner
          gs        \* the goroutines started so far, by path

mutexVars == <<web, calls, marked, locked, gs>>

Main == <<>>

(* A goroutine is the point it has reached, its url and its local already, *)
(* the index of the loop's next link and the counter of its WaitGroup.     *)
PC == {"lock", "unlock", "fetch", "range", "return", "exit"}

Goroutine == [pc : PC, url : Url, already : BOOLEAN, next : Nat \ {0}, wg : Int]

(* Mutant: the loop starts one link too early and finds none. *)
Called_FromZero(u) == [pc |-> "lock", url |-> u, already |-> FALSE, next |-> 0, wg |-> 0]

Called(u) == [pc |-> "lock", url |-> u, already |-> FALSE, next |-> 1, wg |-> 0]

MutexTypeOK == /\ web \in Webs
               /\ calls \in [Url -> Nat]
               /\ marked \subseteq Url
               /\ locked \in BOOLEAN
               /\ DOMAIN gs \subseteq Seq(Nat)
               /\ gs \in [DOMAIN gs -> Goroutine]
               /\ Main \in DOMAIN gs

MutexInit == /\ web \in Webs
             /\ calls = [u \in Url |-> 0]
             /\ marked = {}
             /\ locked = FALSE
             /\ gs = [g \in {Main} |-> Called(Root)]

(* Mutant: the mutex is not taken. *)
Lock_Unguarded(g) == /\ gs[g].pc = "lock"
                     /\ locked' = TRUE
                     /\ gs' = [gs EXCEPT ![g].already = gs[g].url \in marked,
                                         ![g].pc = "unlock"]
                     /\ UNCHANGED <<web, calls, marked>>

(* f.mu.Lock(), then already := f.fetched[url]. *)
Lock(g) == /\ gs[g].pc = "lock"
           /\ ~locked
           /\ locked' = TRUE
           /\ gs' = [gs EXCEPT ![g].already = gs[g].url \in marked,
                               ![g].pc = "unlock"]
           /\ UNCHANGED <<web, calls, marked>>

(* f.fetched[url] = true, f.mu.Unlock(), and the early return. *)
Unlock(g) == /\ gs[g].pc = "unlock"
             /\ marked' = marked \cup {gs[g].url}
             /\ locked' = FALSE
             /\ gs' = [gs EXCEPT ![g].pc = IF gs[g].already THEN "return" ELSE "fetch"]
             /\ UNCHANGED <<web, calls>>

(* fetcher.Fetch(url): an error ends the call. *)
Fetch(g) == /\ gs[g].pc = "fetch"
            /\ calls' = [calls EXCEPT ![gs[g].url] = @ + 1]
            /\ gs' = [gs EXCEPT ![g].pc = IF gs[g].url \in DOMAIN web THEN "range" ELSE "return"]
            /\ UNCHANGED <<web, marked, locked>>

(* u2 := u: each goroutine has its own copy of the loop variable.          *)
(* Mutant: it shares the variable, and runs when the loop is over.         *)
Link_Captured(g) == web[gs[g].url][Len(web[gs[g].url])]
Link(g) == web[gs[g].url][gs[g].next]

(* done.Add(1) before the goroutine is started. Mutant: left out. *)
Added_None(r) == [r EXCEPT !.next = @ + 1]
Added(r) == [r EXCEPT !.next = @ + 1, !.wg = @ + 1]

(* One turn of the loop. *)
Spawn(g) ==
  /\ gs[g].pc = "range"
  /\ gs[g].next \in DOMAIN web[gs[g].url]
  /\ LET child == Append(g, gs[g].next)
     IN gs' = [h \in DOMAIN gs \cup {child} |->
                 IF h = child THEN Called(Link(g))
                 ELSE IF h = g THEN Added(gs[g]) ELSE gs[h]]
  /\ UNCHANGED <<web, calls, marked, locked>>

(* done.Wait() after the loop lets the call return. *)
Wait(g) == /\ gs[g].pc = "range"
           /\ gs[g].next \notin DOMAIN web[gs[g].url]
           /\ gs[g].wg = 0
           /\ gs' = [gs EXCEPT ![g].pc = "return"]
           /\ UNCHANGED <<web, calls, marked, locked>>

(* The call returns: to main, or to the deferred done.Done() of the        *)
(* goroutine, which counts down the WaitGroup of the call that started it. *)
Parent(g) == SubSeq(g, 1, Len(g) - 1)

Return(g) == /\ gs[g].pc = "return"
             /\ gs' = IF g = Main
                        THEN [gs EXCEPT ![g].pc = "exit"]
                        ELSE [gs EXCEPT ![g].pc = "exit", ![Parent(g)].wg = @ - 1]
             /\ UNCHANGED <<web, calls, marked, locked>>

MutexStep(g) == Lock(g) \/ Unlock(g) \/ Fetch(g) \/ Spawn(g) \/ Wait(g) \/ Return(g)

AllExited == \A g \in DOMAIN gs : gs[g].pc = "exit"

(* The crawl is over: TLC takes any other standstill for a deadlock. *)
MutexTerminated == AllExited /\ UNCHANGED mutexVars

MutexNext == MutexTerminated \/ \E g \in DOMAIN gs : MutexStep(g)

(* The Go scheduler lets some runnable goroutine run. *)
MutexSpec == MutexInit /\ [][MutexNext]_mutexVars /\ WF_mutexVars(MutexNext)

-----------------------------------------------------------------------------
(* A WaitGroup counts the goroutines of its call that have not returned    *)
(* (lines 55-68): never negative, which would panic, and never zero while  *)
(* one is left, which would let Wait return early.                         *)
Children(g) == {h \in DOMAIN gs : h # Main /\ Parent(h) = g}

WaitGroupCounts ==
  \A g \in DOMAIN gs :
    gs[g].wg = Cardinality({h \in Children(g) : gs[h].pc # "exit"})

(* ConcurrentMutex implements the crawl: when the call made by main        *)
(* returns every page was fetched, also one whose goroutine another one    *)
(* did not wait for because its page was marked already (line 47).         *)
MutexCrawl == INSTANCE Crawl WITH returned <- (gs[Main].pc = "exit")

MutexImplementsCrawl == MutexCrawl!Spec
=============================================================================
