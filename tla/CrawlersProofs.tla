--------------------------- MODULE CrawlersProofs ---------------------------
(***************************************************************************)
(* The two concurrent crawlers implement the crawl, for every web, any     *)
(* number of goroutines and every interleaving.                            *)
(*                                                                         *)
(* The crawler with a shared map fetches each page at most once, and its   *)
(* WaitGroups count the goroutines that are left. It takes three inductive *)
(* invariants, each resting on the one before. MutexInv says what the      *)
(* mutex protects. Tree says that the names of goroutines form a forest in *)
(* which a call waits for exactly the goroutines it started.               *)
(* Coverage says that every link that a call has passed leads to a page    *)
(* that was fetched or that a goroutine still at work will fetch; when the *)
(* call made by main returns, nobody is left at work, so the visited pages *)
(* are closed under links, which is what the crawl demands.                *)
(*                                                                         *)
(* In the crawler with a master no URL is fetched twice, n counts the      *)
(* goroutines that have still to send, and the master leaves when, and     *)
(* only when, nothing is left to fetch.                                    *)
(***************************************************************************)
EXTENDS CrawlerMutex, CrawlerChannel, FiniteSetTheorems, NaturalsInduction,
        SequenceTheorems, TLAPS

-----------------------------------------------------------------------------
(* The crawler with a shared map under a mutex. *)
Holds(g) == gs[g].pc = "unlock"
Fetches(g) == gs[g].pc = "fetch"
WillFetch(g) == Fetches(g) \/ (Holds(g) /\ ~gs[g].already)

(* What the mutex guarantees: one goroutine between Lock and Unlock.       *)
Exclusion == /\ \A g, h \in DOMAIN gs : Holds(g) /\ Holds(h) => g = h
             /\ \A g \in DOMAIN gs : Holds(g) => locked

(* What it protects: whoever is to fetch a page is alone with it, the page *)
(* was never fetched, and it is marked or about to be under the mutex.     *)
OneFetcher ==
  /\ \A g, h \in DOMAIN gs :
       WillFetch(g) /\ WillFetch(h) /\ gs[g].url = gs[h].url => g = h
  /\ \A g \in DOMAIN gs : WillFetch(g) => calls[gs[g].url] = 0
  /\ \A g \in DOMAIN gs : Fetches(g) => gs[g].url \in marked
  /\ \A g \in DOMAIN gs : Holds(g) /\ ~gs[g].already => gs[g].url \notin marked
  /\ \A u \in Url : calls[u] > 0 => u \in marked

(* Only a page that Fetch returned is ranged over. *)
Ranging == \A g \in DOMAIN gs : gs[g].pc = "range" => gs[g].url \in DOMAIN web

(* The inductive invariant. *)
MutexInv == MutexTypeOK /\ Ranging /\ Exclusion /\ OneFetcher /\ FetchedOnce

-----------------------------------------------------------------------------
LEMMA CalledTyped == \A u \in Url : Called(u) \in Goroutine
BY DEF Called, Goroutine, PC

LEMMA TypeInit == MutexInit => MutexTypeOK
<1> SUFFICES ASSUME MutexInit PROVE MutexTypeOK
  OBVIOUS
<1>1. Called(Root) \in Goroutine
  BY CalledTyped, RootIsUrl
<1>2. Main \in Seq(Nat)
  BY EmptySeq DEF Main
<1> QED
  BY <1>1, <1>2 DEF MutexInit, MutexTypeOK

(* The links of the page a goroutine ranges over are URLs. *)
LEMMA LinkTyped ==
  ASSUME MutexTypeOK, Ranging, NEW g \in DOMAIN gs, Spawn(g)
  PROVE  Link(g) \in Url
<1>1. web[gs[g].url] \in Seq(Url)
  BY WebsLinkUrls DEF MutexTypeOK, Ranging, Spawn
<1> QED
  BY <1>1, ElementOfSeq, LenProperties DEF Spawn, Link

(* Changes of single fields keep a goroutine's type and its other fields. *)
LEMMA SetAlready ==
  ASSUME NEW r \in Goroutine, NEW b \in BOOLEAN
  PROVE  LET s == [r EXCEPT !.already = b, !.pc = "unlock"]
         IN /\ s \in Goroutine /\ s.pc = "unlock" /\ s.url = r.url /\ s.already = b
            /\ s.next = r.next /\ s.wg = r.wg
BY DEF Goroutine, PC

LEMMA SetWg ==
  ASSUME NEW r \in Goroutine, NEW k \in Int
  PROVE  LET s == [r EXCEPT !.wg = k]
         IN /\ s \in Goroutine /\ s.pc = r.pc /\ s.url = r.url /\ s.already = r.already
            /\ s.next = r.next /\ s.wg = k
BY DEF Goroutine

LEMMA AddedTyped ==
  ASSUME NEW r \in Goroutine
  PROVE  /\ Added(r) \in Goroutine
         /\ Added(r).pc = r.pc /\ Added(r).url = r.url /\ Added(r).already = r.already
         /\ Added(r).next = r.next + 1 /\ Added(r).wg = r.wg + 1
<1>1. r.next + 1 \in Nat \ {0} /\ r.wg + 1 \in Int
  BY DEF Goroutine
<1> QED
  BY <1>1 DEF Goroutine, Added

(* A step that only moves goroutine g on to point p. *)
Moves(g, p) == /\ DOMAIN gs' = DOMAIN gs
               /\ gs'[g] = [gs[g] EXCEPT !.pc = p]
               /\ \A h \in DOMAIN gs : h # g => gs'[h] = gs[h]

LEMMA MovesTyped ==
  ASSUME MutexTypeOK, NEW g \in DOMAIN gs, NEW p \in PC, gs' = [gs EXCEPT ![g].pc = p]
  PROVE  Moves(g, p) /\ gs' \in [DOMAIN gs -> Goroutine]
<1>1. gs[g] \in Goroutine /\ gs' = [gs EXCEPT ![g] = [gs[g] EXCEPT !.pc = p]]
  BY DEF MutexTypeOK
<1>2. [gs[g] EXCEPT !.pc = p] \in Goroutine
  BY <1>1 DEF Goroutine
<1> QED
  BY <1>1, <1>2 DEF MutexTypeOK, Moves

LEMMA LockEffect ==
  ASSUME MutexTypeOK, NEW g \in DOMAIN gs, Lock(g)
  PROVE  /\ MutexTypeOK'
         /\ DOMAIN gs' = DOMAIN gs
         /\ gs'[g].pc = "unlock" /\ gs'[g].url = gs[g].url
         /\ gs'[g].already = (gs[g].url \in marked)
         /\ gs'[g].next = gs[g].next /\ gs'[g].wg = gs[g].wg
         /\ \A h \in DOMAIN gs : h # g => gs'[h] = gs[h]
<1> DEFINE b == gs[g].url \in marked
           r == [gs[g] EXCEPT !.already = b, !.pc = "unlock"]
<1>0. b \in BOOLEAN
  OBVIOUS
<1>1. gs[g] \in Goroutine /\ gs' = [gs EXCEPT ![g] = r]
  BY DEF MutexTypeOK, Lock
<1>2. /\ r \in Goroutine
      /\ r.pc = "unlock" /\ r.url = gs[g].url
      /\ r.already = b /\ r.next = gs[g].next /\ r.wg = gs[g].wg
  <2> HIDE DEF b
  <2> QED
    BY <1>0, <1>1, SetAlready, Zenon
<1> QED
  BY <1>1, <1>2 DEF MutexTypeOK, Lock

LEMMA UnlockEffect ==
  ASSUME MutexTypeOK, NEW g \in DOMAIN gs, Unlock(g)
  PROVE  MutexTypeOK' /\ Moves(g, IF gs[g].already THEN "return" ELSE "fetch")
<1>1. gs[g].url \in Url
  BY DEF MutexTypeOK, Goroutine
<1>2. "return" \in PC /\ "fetch" \in PC
  BY DEF PC
<1>3. /\ Moves(g, IF gs[g].already THEN "return" ELSE "fetch")
      /\ gs' \in [DOMAIN gs -> Goroutine]
  BY <1>2, MovesTyped DEF Unlock
<1> QED
  BY <1>1, <1>3 DEF MutexTypeOK, Unlock, Moves

LEMMA FetchEffect ==
  ASSUME MutexTypeOK, NEW g \in DOMAIN gs, Fetch(g)
  PROVE  MutexTypeOK' /\ Moves(g, IF gs[g].url \in DOMAIN web THEN "range" ELSE "return")
<1>1. gs[g].url \in Url
  BY DEF MutexTypeOK, Goroutine
<1>2. "return" \in PC /\ "range" \in PC
  BY DEF PC
<1>3. /\ Moves(g, IF gs[g].url \in DOMAIN web THEN "range" ELSE "return")
      /\ gs' \in [DOMAIN gs -> Goroutine]
  BY <1>2, MovesTyped DEF Fetch
<1>4. calls' \in [Url -> Nat]
  BY <1>1 DEF MutexTypeOK, Fetch
<1> QED
  BY <1>3, <1>4 DEF MutexTypeOK, Fetch, Moves

LEMMA WaitEffect ==
  ASSUME MutexTypeOK, NEW g \in DOMAIN gs, Wait(g)
  PROVE  MutexTypeOK' /\ Moves(g, "return")
<1>1. Moves(g, "return") /\ gs' \in [DOMAIN gs -> Goroutine]
  BY MovesTyped DEF Wait, PC
<1> QED
  BY <1>1 DEF MutexTypeOK, Wait, Moves

LEMMA SpawnEffect ==
  ASSUME MutexTypeOK, Ranging, NEW g \in DOMAIN gs, Spawn(g)
  PROVE  LET child == Append(g, gs[g].next)
         IN /\ MutexTypeOK'
            /\ DOMAIN gs' = DOMAIN gs \cup {child}
            /\ gs'[child] = Called(Link(g)) /\ gs'[child].pc = "lock"
            /\ g # child
            /\ gs'[g].next = gs[g].next + 1 /\ gs'[g].wg = gs[g].wg + 1
            /\ \A h \in DOMAIN gs :
                 h # child => /\ gs'[h].pc = gs[h].pc
                              /\ gs'[h].url = gs[h].url
                              /\ gs'[h].already = gs[h].already
                              /\ h # g => gs'[h] = gs[h]
<1> DEFINE child == Append(g, gs[g].next)
           r == Added(gs[g])
<1>1. gs[g] \in Goroutine /\ g \in Seq(Nat)
  BY DEF MutexTypeOK
<1>2. /\ r \in Goroutine
      /\ r.pc = gs[g].pc /\ r.url = gs[g].url /\ r.already = gs[g].already
      /\ r.next = gs[g].next + 1 /\ r.wg = gs[g].wg + 1
  BY <1>1, AddedTyped
<1>3. child \in Seq(Nat) /\ Len(child) = Len(g) + 1 /\ Len(g) \in Nat
  BY <1>1, AppendProperties, LenProperties DEF Goroutine
<1>8. g # child
  BY <1>3
<1>4. Called(Link(g)) \in Goroutine /\ Called(Link(g)).pc = "lock"
  BY LinkTyped, CalledTyped DEF Called
<1>5. gs' = [h \in DOMAIN gs \cup {child} |->
               IF h = child THEN Called(Link(g)) ELSE IF h = g THEN r ELSE gs[h]]
  BY DEF Spawn
<1> HIDE DEF child, r
<1>6. gs' \in [DOMAIN gs \cup {child} -> Goroutine]
  BY <1>2, <1>4, <1>5 DEF MutexTypeOK
<1>7. MutexTypeOK'
  BY <1>3, <1>6 DEF MutexTypeOK, Spawn
<1> QED
  BY <1>2, <1>4, <1>5, <1>7, <1>8 DEF child

LEMMA ReturnEffect ==
  ASSUME MutexTypeOK, NEW g \in DOMAIN gs, Return(g)
  PROVE  /\ MutexTypeOK'
         /\ DOMAIN gs' = DOMAIN gs
         /\ gs'[g].pc = "exit"
         /\ \A h \in DOMAIN gs : /\ h # g => gs'[h].pc = gs[h].pc
                                 /\ gs'[h].url = gs[h].url
                                 /\ gs'[h].already = gs[h].already
                                 /\ gs'[h].next = gs[h].next
                                 /\ gs'[h].wg = IF g # Main /\ h = Parent(g)
                                                  THEN gs[h].wg - 1 ELSE gs[h].wg
<1> DEFINE p == Parent(g)
           f == [gs EXCEPT ![g].pc = "exit"]
<1>1. \A h \in DOMAIN gs : gs[h] \in Goroutine
  BY DEF MutexTypeOK
<1>2. /\ f \in [DOMAIN gs -> Goroutine]
      /\ f[g].pc = "exit"
      /\ \A h \in DOMAIN gs : /\ h # g => f[h].pc = gs[h].pc
                              /\ f[h].url = gs[h].url
                              /\ f[h].already = gs[h].already
                              /\ f[h].next = gs[h].next /\ f[h].wg = gs[h].wg
  BY <1>1 DEF MutexTypeOK, Goroutine, PC
<1>3. CASE g = Main /\ gs' = f
  BY <1>2, <1>3 DEF MutexTypeOK, Return
<1>4. CASE g # Main /\ gs' = [f EXCEPT ![p].wg = @ - 1]
  <2> HIDE DEF p, f
  <2> DEFINE q == [f[p] EXCEPT !.wg = f[p].wg - 1]
  <2>1. p \in DOMAIN gs =>
          /\ q \in Goroutine
          /\ q.pc = f[p].pc /\ q.url = f[p].url /\ q.already = f[p].already
          /\ q.next = f[p].next /\ q.wg = f[p].wg - 1
    <3> SUFFICES ASSUME p \in DOMAIN gs PROVE f[p] \in Goroutine /\ f[p].wg - 1 \in Int
      BY SetWg
    <3> QED
      BY <1>2 DEF Goroutine
  <2>2. gs' = [f EXCEPT ![p] = q]
    BY <1>4
  <2> HIDE DEF q
  <2>3. /\ gs' \in [DOMAIN gs -> Goroutine]
        /\ \A h \in DOMAIN gs : gs'[h] = IF h = p THEN q ELSE f[h]
    BY <1>2, <2>1, <2>2
  <2>4. \A h \in DOMAIN gs : /\ gs'[h].pc = f[h].pc
                             /\ gs'[h].url = f[h].url
                             /\ gs'[h].already = f[h].already
                             /\ gs'[h].next = f[h].next
                             /\ gs'[h].wg = IF h = p THEN f[h].wg - 1 ELSE f[h].wg
    BY <2>1, <2>3
  <2>5. MutexTypeOK'
    BY <2>3 DEF MutexTypeOK, Return
  <2> QED
    BY <1>2, <1>4, <2>3, <2>4, <2>5 DEF p
<1> QED
  BY <1>3, <1>4 DEF Return

-----------------------------------------------------------------------------
LEMMA MutexInvInit == MutexInit => MutexInv
<1> SUFFICES ASSUME MutexInit PROVE MutexInv
  OBVIOUS
<1>1. gs[Main].pc = "lock" /\ DOMAIN gs = {Main}
  BY DEF MutexInit, Called
<1>2. Ranging /\ Exclusion /\ OneFetcher /\ FetchedOnce
  BY <1>1 DEF MutexInit, Ranging, Exclusion, OneFetcher, FetchedOnce, Holds, Fetches, WillFetch
<1> QED
  BY <1>2, TypeInit DEF MutexInv

LEMMA MutexInvStep == ASSUME MutexInv, [MutexNext]_mutexVars PROVE MutexInv'
<1> USE DEF Ranging, Exclusion, OneFetcher, FetchedOnce, Holds, Fetches, WillFetch
<1>1. CASE UNCHANGED mutexVars
  BY <1>1 DEF mutexVars, MutexInv, MutexTypeOK
<1>2. ASSUME NEW g \in DOMAIN gs, Lock(g) PROVE MutexInv'
  <2>1. /\ web' = web /\ calls' = calls /\ marked' = marked /\ ~locked /\ locked'
        /\ gs[g].url \in Url
        /\ \A u \in Url : calls[u] \in Nat
    BY <1>2 DEF Lock, MutexInv, MutexTypeOK, Goroutine
  <2>2. \A h \in DOMAIN gs : ~Holds(h)
    BY <2>1 DEF MutexInv
  <2>3. gs[g].pc = "lock"
    BY <1>2 DEF Lock
  <2>4. (Exclusion /\ Ranging /\ FetchedOnce)'
    BY <1>2, <2>1, <2>2, LockEffect DEF MutexInv
  <2>5. /\ gs'[g].already <=> gs[g].url \in marked
        /\ gs[g].url \in marked \/ calls[gs[g].url] = 0
    <3>1. gs'[g].already = (gs[g].url \in marked)
      BY <1>2, LockEffect DEF MutexInv
    <3>2. gs'[g].already <=> gs[g].url \in marked
      BY <3>1, Zenon
    <3>3. gs[g].url \in marked \/ ~(calls[gs[g].url] > 0)
      BY <2>1 DEF MutexInv
    <3>4. calls[gs[g].url] \in Nat
      BY <2>1
    <3> QED
      BY <3>2, <3>3, <3>4
  <2>7. /\ DOMAIN gs' = DOMAIN gs /\ gs'[g].pc = "unlock" /\ gs'[g].url = gs[g].url
        /\ \A h \in DOMAIN gs : h # g => gs'[h] = gs[h]
    BY <1>2, LockEffect DEF MutexInv
  <2>8. \A h \in DOMAIN gs : h # g => (WillFetch(h)' <=> Fetches(h)) /\ ~Holds(h)'
    BY <2>2, <2>7
  <2>9. \A h \in DOMAIN gs : Fetches(h) => gs[h].url \in marked
    BY DEF MutexInv
  <2>6. OneFetcher'
    BY <2>1, <2>2, <2>3, <2>5, <2>7, <2>8, <2>9 DEF MutexInv
  <2> QED
    BY <1>2, <2>4, <2>6, LockEffect DEF MutexInv
<1>3. ASSUME NEW g \in DOMAIN gs, Unlock(g) PROVE MutexInv'
  <2>1. /\ web' = web /\ calls' = calls /\ marked' = marked \cup {gs[g].url} /\ ~locked'
        /\ Holds(g)
    BY <1>3 DEF Unlock
  <2>2. Moves(g, IF gs[g].already THEN "return" ELSE "fetch") /\ MutexTypeOK'
    BY <1>3, UnlockEffect DEF MutexInv
  <2>3. /\ gs[g] \in Goroutine
        /\ gs'[g].pc = IF gs[g].already THEN "return" ELSE "fetch"
        /\ gs'[g].url = gs[g].url
    BY <2>2 DEF Moves, Goroutine, MutexInv, MutexTypeOK
  <2>4. \A h \in DOMAIN gs : h # g => ~Holds(h)
    BY <2>1 DEF MutexInv
  <2>5. (Exclusion /\ Ranging /\ FetchedOnce)'
    BY <2>1, <2>2, <2>3, <2>4 DEF MutexInv, Moves
  <2>6. \A h \in DOMAIN gs' : WillFetch(h)' => Fetches(h)' /\ WillFetch(h) /\ gs'[h].url = gs[h].url
    <3>1. \A h \in DOMAIN gs : h # g => gs'[h] = gs[h] /\ ~Holds(h)
      BY <2>2, <2>4 DEF Moves
    <3>2. WillFetch(g)' => Fetches(g)' /\ WillFetch(g)
      BY <2>1, <2>3
    <3>3. DOMAIN gs' = DOMAIN gs
      BY <2>2 DEF Moves
    <3> QED
      BY <2>3, <3>1, <3>2, <3>3
  <2>7. OneFetcher'
    BY <2>1, <2>2, <2>3, <2>4, <2>6 DEF MutexInv, Moves
  <2> QED
    BY <2>2, <2>5, <2>7 DEF MutexInv
<1>4. ASSUME NEW g \in DOMAIN gs, Fetch(g) PROVE MutexInv'
  <2>1. /\ web' = web /\ marked' = marked /\ locked' = locked /\ Fetches(g)
    BY <1>4 DEF Fetch
  <2>2. /\ Moves(g, IF gs[g].url \in DOMAIN web THEN "range" ELSE "return")
        /\ MutexTypeOK'
    BY <1>4, FetchEffect DEF MutexInv
  <2>3. /\ gs[g] \in Goroutine
        /\ gs'[g].pc = IF gs[g].url \in DOMAIN web THEN "range" ELSE "return"
        /\ gs'[g].url = gs[g].url /\ gs[g].url \in Url
    BY <2>2 DEF Moves, Goroutine, MutexInv, MutexTypeOK
  <2>4. calls[gs[g].url] = 0 /\ gs[g].url \in marked
    BY <2>1 DEF MutexInv
  <2>5. \A u \in Url : calls'[u] = IF u = gs[g].url THEN 1 ELSE calls[u]
    BY <1>4, <2>3, <2>4 DEF Fetch, MutexInv, MutexTypeOK
  <2>7. \A h \in DOMAIN gs' : /\ h # g => gs'[h] = gs[h]
                              /\ h \in DOMAIN gs
                              /\ gs[h].url \in Url
    BY <2>2 DEF Moves, MutexInv, MutexTypeOK, Goroutine
  <2>6. (Exclusion /\ Ranging /\ FetchedOnce)'
    <3>1. Exclusion'
      BY <2>1, <2>3, <2>7 DEF MutexInv
    <3>2. Ranging'
      BY <2>1, <2>3, <2>7 DEF MutexInv
    <3>3. FetchedOnce'
      BY <2>5 DEF MutexInv
    <3> QED
      BY <3>1, <3>2, <3>3
  <2>8. \A h \in DOMAIN gs : WillFetch(h) /\ h # g => gs[h].url # gs[g].url
    BY <2>1 DEF MutexInv
  <2>9. OneFetcher'
    BY <2>1, <2>3, <2>4, <2>5, <2>7, <2>8 DEF MutexInv
  <2> QED
    BY <2>2, <2>6, <2>9 DEF MutexInv
<1>5. ASSUME NEW g \in DOMAIN gs, Spawn(g) PROVE MutexInv'
  <2>1. web' = web /\ calls' = calls /\ marked' = marked /\ locked' = locked
    BY <1>5 DEF Spawn
  <2>2. MutexTypeOK'
    BY <1>5, SpawnEffect DEF MutexInv
  <2>3. \A h \in DOMAIN gs' :
          \/ gs'[h].pc = "lock"
          \/ /\ h \in DOMAIN gs
             /\ gs'[h].pc = gs[h].pc
             /\ gs'[h].url = gs[h].url
             /\ gs'[h].already = gs[h].already
    <3> DEFINE child == Append(g, gs[g].next)
    <3>1. /\ DOMAIN gs' = DOMAIN gs \cup {child}
          /\ gs'[child].pc = "lock"
          /\ \A h \in DOMAIN gs :
               h # child => /\ gs'[h].pc = gs[h].pc
                            /\ gs'[h].url = gs[h].url
                            /\ gs'[h].already = gs[h].already
      BY <1>5, SpawnEffect, Zenon DEF MutexInv
    <3> HIDE DEF child
    <3> QED
      BY <3>1
  <2> QED
    BY <2>1, <2>2, <2>3 DEF MutexInv
<1>6. ASSUME NEW g \in DOMAIN gs, Wait(g) PROVE MutexInv'
  <2>1. web' = web /\ calls' = calls /\ marked' = marked /\ locked' = locked
    BY <1>6 DEF Wait
  <2>2. MutexTypeOK' /\ Moves(g, "return") /\ gs[g] \in Goroutine
    BY <1>6, WaitEffect DEF MutexInv, MutexTypeOK
  <2>3. gs'[g].pc = "return"
    BY <2>2 DEF Moves, Goroutine
  <2> QED
    BY <2>1, <2>2, <2>3 DEF MutexInv, Moves
<1>7. ASSUME NEW g \in DOMAIN gs, Return(g) PROVE MutexInv'
  <2>1. web' = web /\ calls' = calls /\ marked' = marked /\ locked' = locked
    BY <1>7 DEF Return
  <2>2. MutexTypeOK'
    BY <1>7, ReturnEffect DEF MutexInv
  <2>3. \A h \in DOMAIN gs' :
          \/ gs'[h].pc = "exit"
          \/ /\ h \in DOMAIN gs
             /\ gs'[h].pc = gs[h].pc
             /\ gs'[h].url = gs[h].url
             /\ gs'[h].already = gs[h].already
    BY <1>7, ReturnEffect DEF MutexInv
  <2> QED
    BY <2>1, <2>2, <2>3 DEF MutexInv
<1> QED
  BY <1>1, <1>2, <1>3, <1>4, <1>5, <1>6, <1>7 DEF MutexNext, MutexStep, MutexTerminated

LEMMA MutexInvariant == MutexSpec => []MutexInv
BY MutexInvInit, MutexInvStep, PTL DEF MutexSpec

(* Every variable keeps its type. *)
THEOREM MutexTypeCorrect == MutexSpec => []MutexTypeOK
BY MutexInvariant, PTL DEF MutexInv

(* Fetch is called at most once with each URL, however the goroutines      *)
(* interleave: between Lock and Unlock there is one of them, and only the  *)
(* one that found the page unmarked there goes on to fetch it.             *)
THEOREM MutexFetchesOnce == MutexSpec => []FetchedOnce
BY MutexInvariant, PTL DEF MutexInv
-----------------------------------------------------------------------------
(* The tree of spawns. The goroutine's last index is its link's place on   *)
(* the page of the goroutine that started it.                              *)
Index(h) == h[Len(h)]

(* Whoever was started was started by a goroutine that still ranges over   *)
(* its page, unless it has returned.                                       *)
Started(h) == LET p == Parent(h)
              IN /\ p \in DOMAIN gs
                 /\ Index(h) \in 1..(gs[p].next - 1)
                 /\ gs[h].pc # "exit" => gs[p].pc = "range"
                 /\ gs[p].url \in DOMAIN web
                 /\ Index(h) \in DOMAIN web[gs[p].url]
                 /\ gs[h].url = web[gs[p].url][Index(h)]

Forest == /\ IsFiniteSet(DOMAIN gs)
          /\ \A h \in DOMAIN gs : h # Main => Started(h)
          /\ \A g \in DOMAIN gs : \A i \in 1..(gs[g].next - 1) : Append(g, i) \in DOMAIN gs

(* Pages that are marked are fetched or being fetched, and the links of a  *)
(* page that was fetched are handed out, or are still being handed out.    *)
HandsOut(g, p) == /\ gs[g].url = p
                  /\ \/ gs[g].pc = "range"
                     \/ gs[g].pc \in {"return", "exit"} /\ gs[g].next \notin DOMAIN web[p]

Past == {"range", "return", "exit"}

Coverage ==
  /\ gs[Main].url = Root
  /\ \A g \in DOMAIN gs : gs[g].pc \in Past \/ (Holds(g) /\ gs[g].already)
                            => gs[g].url \in marked
  /\ \A u \in marked : calls[u] > 0 \/ \E g \in DOMAIN gs : Fetches(g) /\ gs[g].url = u
  /\ \A g \in DOMAIN gs : gs[g].pc = "range" => calls[gs[g].url] > 0
  /\ \A h \in DOMAIN gs : h # Main => calls[gs[Parent(h)].url] > 0
  /\ \A p \in DOMAIN web : calls[p] > 0 => \E g \in DOMAIN gs : HandsOut(g, p)

Tree == Forest /\ WaitGroupCounts

MutexFullInv == MutexInv /\ Tree /\ Coverage
-----------------------------------------------------------------------------
LEMMA Smallest ==
  ASSUME NEW T \in SUBSET Nat, T # {}
  PROVE  \E low \in T : \A m \in T : low <= m
<1>1. PICK x \in T : \A y \in T : <<y, x>> \notin OpToRel(<, Nat)
  BY NatLessThanWellFounded, WFMin
<1>2. \A y \in T : y < x => <<y, x>> \in OpToRel(<, Nat)
  BY DEF OpToRel
<1>3. \A y \in T : ~(y < x)
  BY <1>1, <1>2
<1> QED
  BY <1>3

(* The names of goroutines: appending an index and taking it off.          *)
LEMMA ChildName ==
  ASSUME NEW g \in Seq(Nat), NEW i \in Nat
  PROVE  LET c == Append(g, i)
         IN /\ c \in Seq(Nat) /\ c # Main /\ c # g
            /\ Parent(c) = g /\ Index(c) = i
<1> DEFINE c == Append(g, i)
<1>1. /\ c \in Seq(Nat) /\ Len(g) \in Nat /\ Len(c) = Len(g) + 1 /\ c # Main
      /\ \A j \in 1..Len(g) : c[j] = g[j]
      /\ c[Len(g) + 1] = i
  BY AppendProperties, LenProperties DEF Main
<1> HIDE DEF c
<1>2. /\ Parent(c) \in Seq(Nat) /\ Len(Parent(c)) = Len(g)
      /\ \A j \in 1..Len(g) : Parent(c)[j] = c[j]
  <2>1. \A j \in 1..Len(g) : c[j] \in Nat
    BY <1>1, ElementOfSeq
  <2>2. Parent(c) = SubSeq(c, 1, Len(g))
    BY <1>1 DEF Parent
  <2> QED
    BY <1>1, <2>1, <2>2, SubSeqProperties
<1>3. Parent(c) = g
  BY <1>1, <1>2, SeqEqual
<1> QED
  BY <1>1, <1>3 DEF Index, c

LEMMA ParentName ==
  ASSUME NEW h \in Seq(Nat), h # Main
  PROVE  /\ Parent(h) \in Seq(Nat) /\ Index(h) \in Nat
         /\ Len(h) \in Nat /\ Len(Parent(h)) = Len(h) - 1
         /\ h = Append(Parent(h), Index(h))
<1>1. PICK p \in Seq(Nat), i \in Nat : h = Append(p, i)
  BY SequenceEmptyOrAppend DEF Main
<1>2. Parent(h) = p /\ Index(h) = i
  BY <1>1, ChildName
<1> QED
  BY <1>1, <1>2, AppendProperties, LenProperties

(* Every live goroutine hangs on main's call through live ones: a call     *)
(* that does not range over its page any more waits for nobody.            *)
LEMMA OnlyMainLeft ==
  ASSUME MutexTypeOK, Forest, gs[Main].pc # "range"
  PROVE  \A h \in DOMAIN gs : h # Main => gs[h].pc = "exit"
<1> DEFINE Left == {h \in DOMAIN gs : h # Main /\ gs[h].pc # "exit"}
           Lengths == {Len(h) : h \in Left}
<1> SUFFICES ASSUME Left # {} PROVE FALSE
  OBVIOUS
<1>1. \A h \in Left : /\ Len(h) \in Nat
                      /\ Len(Parent(h)) = Len(h) - 1
                      /\ Parent(h) \in DOMAIN gs
                      /\ gs[Parent(h)].pc = "range"
  BY ParentName DEF MutexTypeOK, Forest, Started
<1>2. PICK low \in Lengths : \A m \in Lengths : low <= m
  <2>1. PICK h \in Left : TRUE
    OBVIOUS
  <2>2. Len(h) \in Lengths /\ \A low \in Lengths : \E k \in Left : low = Len(k)
    BY <2>1
  <2>3. Lengths \in SUBSET Nat /\ Lengths # {}
    <3> HIDE DEF Left, Lengths
    <3> QED
      BY <1>1, <2>2
  <2> HIDE DEF Lengths
  <2> QED
    BY <2>3, Smallest
<1>3. PICK h \in Left : Len(h) = low
  BY <1>2
<1>4. Parent(h) \in Left
  BY <1>1, <1>3
<1>5. Len(Parent(h)) \in Lengths
  BY <1>4
<1> QED
  BY <1>1, <1>2, <1>3, <1>5
-----------------------------------------------------------------------------
(* Steps of g that neither start a goroutine nor end one.                  *)
Calm(g) == Lock(g) \/ Unlock(g) \/ Fetch(g) \/ Wait(g)

LEMMA CalmEffect ==
  ASSUME MutexTypeOK, NEW g \in DOMAIN gs, Calm(g)
  PROVE  /\ web' = web /\ DOMAIN gs' = DOMAIN gs
         /\ gs[g].pc \notin {"exit", "return"} /\ gs'[g].pc # "exit"
         /\ gs[g].pc = "range" => Wait(g)
         /\ \A h \in DOMAIN gs : /\ gs'[h].url = gs[h].url
                                 /\ gs'[h].next = gs[h].next
                                 /\ gs'[h].wg = gs[h].wg
                                 /\ h # g => gs'[h] = gs[h]
<1>0. gs[g] \in Goroutine
  BY DEF MutexTypeOK
<1>1. \A p \in {"fetch", "range", "return"} :
        LET r == [gs[g] EXCEPT !.pc = p]
        IN r.pc = p /\ r.url = gs[g].url /\ r.next = gs[g].next /\ r.wg = gs[g].wg
  BY <1>0 DEF Goroutine
<1>2. CASE Lock(g)
  BY <1>2, LockEffect DEF Lock
<1>3. ASSUME NEW p \in {"fetch", "range", "return"}, Moves(g, p)
      PROVE  /\ DOMAIN gs' = DOMAIN gs /\ gs'[g].pc # "exit"
             /\ \A h \in DOMAIN gs : /\ gs'[h].url = gs[h].url
                                     /\ gs'[h].next = gs[h].next
                                     /\ gs'[h].wg = gs[h].wg
                                     /\ h # g => gs'[h] = gs[h]
  BY <1>1, <1>3 DEF Moves
<1>4. CASE Unlock(g)
  <2>1. Moves(g, IF gs[g].already THEN "return" ELSE "fetch")
    BY <1>4, UnlockEffect
  <2>2. PICK p \in {"fetch", "range", "return"} : Moves(g, p)
    BY <2>1
  <2> QED
    BY <1>3, <1>4, <2>2 DEF Unlock
<1>5. CASE Fetch(g)
  <2>1. Moves(g, IF gs[g].url \in DOMAIN web THEN "range" ELSE "return")
    BY <1>5, FetchEffect
  <2>2. PICK p \in {"fetch", "range", "return"} : Moves(g, p)
    BY <2>1
  <2> QED
    BY <1>3, <1>5, <2>2 DEF Fetch
<1>6. CASE Wait(g)
  <2>1. Moves(g, "return")
    BY <1>6, WaitEffect
  <2> QED
    BY <1>3, <1>6, <2>1 DEF Wait
<1> QED
  BY <1>2, <1>4, <1>5, <1>6 DEF Calm

(* The goroutines that g still has to wait for. *)
OpenKids(g) == {h \in Children(g) : gs[h].pc # "exit"}

LEMMA OpenKidsFinite ==
  ASSUME Forest, NEW g
  PROVE  IsFiniteSet(OpenKids(g))
BY FS_Subset DEF Forest, OpenKids, Children

(* done.Wait() passes only when every goroutine of the loop has returned.  *)
LEMMA WaitsForAll ==
  ASSUME Tree, NEW g \in DOMAIN gs, Wait(g)
  PROVE  \A h \in DOMAIN gs : h # Main /\ Parent(h) = g => gs[h].pc = "exit"
<1>1. Cardinality(OpenKids(g)) = 0
  BY DEF Tree, WaitGroupCounts, OpenKids, Wait
<1>2. OpenKids(g) = {}
  BY <1>1, OpenKidsFinite, FS_EmptySet DEF Tree
<1> QED
  BY <1>2 DEF OpenKids, Children

LEMMA TreeInit == MutexInit => Tree
<1> SUFFICES ASSUME MutexInit PROVE Tree
  OBVIOUS
<1>1. DOMAIN gs = {Main} /\ gs[Main].next = 1 /\ gs[Main].wg = 0
  BY DEF MutexInit, Called
<1>2. Forest
  <2>1. IsFiniteSet(DOMAIN gs)
    BY <1>1, FS_Singleton, Zenon
  <2>2. 1..(gs[Main].next - 1) = {}
    BY <1>1
  <2> QED
    BY <1>1, <2>1, <2>2 DEF Forest
<1>3. \A g : {h \in Children(g) : gs[h].pc # "exit"} = {}
  BY <1>1 DEF Children
<1>4. WaitGroupCounts
  BY <1>1, <1>3, FS_EmptySet DEF WaitGroupCounts
<1> QED
  BY <1>2, <1>4 DEF Tree

LEMMA TreeCalm ==
  ASSUME MutexTypeOK, Tree, NEW g \in DOMAIN gs, Calm(g)
  PROVE  Tree'
<1>1. /\ web' = web /\ DOMAIN gs' = DOMAIN gs
      /\ gs[g].pc # "exit" /\ gs'[g].pc # "exit"
      /\ gs[g].pc = "range" => Wait(g)
      /\ \A h \in DOMAIN gs : /\ gs'[h].url = gs[h].url
                              /\ gs'[h].next = gs[h].next
                              /\ gs'[h].wg = gs[h].wg
                              /\ h # g => gs'[h] = gs[h]
  BY CalmEffect
<1>2. ASSUME NEW h \in DOMAIN gs, h # Main PROVE Started(h)'
  <2>1. Started(h)
    BY <1>2 DEF Tree, Forest
  <2>2. gs'[h].pc # "exit" => gs[h].pc # "exit"
    BY <1>1
  <2>3. ASSUME gs[h].pc # "exit" PROVE Parent(h) # g
    BY <1>1, <1>2, <2>1, <2>3, WaitsForAll DEF Started
  <2> QED
    BY <1>1, <2>1, <2>2, <2>3 DEF Started
<1>3. Forest'
  BY <1>1, <1>2 DEF Tree, Forest
<1>4. \A h : OpenKids(h)' = OpenKids(h)
  BY <1>1 DEF OpenKids, Children
<1>5. WaitGroupCounts'
  BY <1>1, <1>4 DEF Tree, WaitGroupCounts, OpenKids
<1> QED
  BY <1>3, <1>5 DEF Tree

LEMMA TreeSpawn ==
  ASSUME MutexTypeOK, Ranging, Tree, NEW g \in DOMAIN gs, Spawn(g)
  PROVE  Tree'
<1> DEFINE i == gs[g].next
           c == Append(g, i)
<1>1. /\ g \in Seq(Nat) /\ i \in Nat \ {0}
      /\ \A h \in DOMAIN gs : h \in Seq(Nat) /\ gs[h] \in Goroutine /\ gs[h].next \in Nat \ {0}
  BY DEF MutexTypeOK, Goroutine
<1>2. c # Main /\ c # g /\ Parent(c) = g /\ Index(c) = i
  BY <1>1, ChildName
<1>3. c \notin DOMAIN gs
  <2> SUFFICES ASSUME c \in DOMAIN gs PROVE FALSE
    OBVIOUS
  <2>1. i \in 1..(i - 1)
    BY <1>2 DEF Tree, Forest, Started
  <2> QED
    BY <1>1, <2>1
<1>4. /\ DOMAIN gs' = DOMAIN gs \cup {c} /\ web' = web
      /\ gs'[c] = Called(Link(g))
      /\ gs'[g].next = i + 1 /\ gs'[g].wg = gs[g].wg + 1
      /\ \A h \in DOMAIN gs : /\ gs'[h].pc = gs[h].pc
                              /\ gs'[h].url = gs[h].url
                              /\ h # g => gs'[h] = gs[h]
  BY <1>3, SpawnEffect DEF Spawn
<1>5. /\ gs'[c].pc = "lock" /\ gs'[c].url = web[gs[g].url][i]
      /\ gs'[c].next = 1 /\ gs'[c].wg = 0
  BY <1>4 DEF Called, Link
<1>6. gs[g].pc = "range" /\ i \in DOMAIN web[gs[g].url] /\ gs[g].url \in DOMAIN web
  BY DEF Spawn, Ranging
<1> HIDE DEF c
<1>7. ASSUME NEW h \in DOMAIN gs', h # Main PROVE Started(h)'
  <2>1. CASE h = c
    BY <1>1, <1>2, <1>4, <1>5, <1>6, <2>1 DEF Started
  <2>2. CASE h # c
    <3>1. h \in DOMAIN gs /\ Started(h)
      BY <1>4, <1>7, <2>2 DEF Tree, Forest
    <3>2. /\ Parent(h) \in DOMAIN gs
          /\ gs[Parent(h)].next \in Nat
          /\ gs'[Parent(h)].next \in {gs[Parent(h)].next, gs[Parent(h)].next + 1}
      BY <1>1, <1>4, <3>1 DEF Started
    <3>3. 1..(gs[Parent(h)].next - 1) \subseteq 1..(gs'[Parent(h)].next - 1)
      BY <3>2
    <3> QED
      BY <1>4, <3>1, <3>2, <3>3 DEF Started
  <2> QED
    BY <2>1, <2>2
<1>8. ASSUME NEW h \in DOMAIN gs', NEW j \in 1..(gs'[h].next - 1)
      PROVE  Append(h, j) \in DOMAIN gs'
  <2>1. CASE h = c
    BY <1>5, <1>8, <2>1
  <2>2. CASE h = g
    <3>1. j \in 1..(i - 1) \/ j = i
      BY <1>1, <1>4, <2>2
    <3> QED
      BY <1>4, <2>2, <3>1 DEF Tree, Forest, c
  <2>3. CASE h \notin {c, g}
    BY <1>4, <2>3 DEF Tree, Forest
  <2> QED
    BY <2>1, <2>2, <2>3
<1>9. Forest'
  <2>1. IsFiniteSet(DOMAIN gs')
    BY <1>4, FS_AddElement DEF Tree, Forest
  <2> QED
    BY <1>7, <1>8, <2>1 DEF Forest
<1>10. ASSUME NEW h \in DOMAIN gs' PROVE gs'[h].wg = Cardinality(OpenKids(h)')
  <2>1. Parent(c) = g /\ c \in DOMAIN gs'
    BY <1>2, <1>4
  <2>2. CASE h = c
    <3>1. \A k \in DOMAIN gs' : k # Main => Parent(k) # c
      BY <1>2, <1>3, <1>4 DEF Tree, Forest, Started
    <3>2. OpenKids(h)' = {}
      BY <2>2, <3>1 DEF OpenKids, Children
    <3> QED
      BY <1>5, <2>2, <3>2, FS_EmptySet
  <2>3. CASE h = g
    <3>1. OpenKids(g)' = OpenKids(g) \cup {c}
      BY <1>2, <1>3, <1>4, <1>5 DEF OpenKids, Children
    <3>2. c \notin OpenKids(g)
      BY <1>3 DEF OpenKids, Children
    <3>3. Cardinality(OpenKids(g)') = Cardinality(OpenKids(g)) + 1
      BY <3>1, <3>2, OpenKidsFinite, FS_AddElement DEF Tree
    <3> QED
      BY <1>4, <2>3, <3>3 DEF Tree, WaitGroupCounts, OpenKids
  <2>4. CASE h \notin {c, g}
    <3>1. OpenKids(h)' = OpenKids(h)
      BY <1>2, <1>3, <1>4, <2>4 DEF OpenKids, Children
    <3> QED
      BY <1>4, <2>4, <3>1 DEF Tree, WaitGroupCounts, OpenKids
  <2> QED
    BY <2>2, <2>3, <2>4
<1> QED
  BY <1>9, <1>10 DEF Tree, WaitGroupCounts, OpenKids
LEMMA TreeReturn ==
  ASSUME MutexTypeOK, Tree, NEW g \in DOMAIN gs, Return(g)
  PROVE  Tree'
<1> DEFINE p == Parent(g)
<1>1. /\ web' = web /\ DOMAIN gs' = DOMAIN gs
      /\ gs[g].pc = "return" /\ gs'[g].pc = "exit"
      /\ \A h \in DOMAIN gs : /\ h # g => gs'[h].pc = gs[h].pc
                              /\ gs'[h].url = gs[h].url
                              /\ gs'[h].next = gs[h].next
                              /\ gs'[h].wg = IF g # Main /\ h = p THEN gs[h].wg - 1 ELSE gs[h].wg
  BY ReturnEffect DEF Return
<1> HIDE DEF p
<1>2. ASSUME NEW h \in DOMAIN gs, h # Main PROVE Started(h)'
  <2>1. Started(h)
    BY <1>2 DEF Tree, Forest
  <2>2. gs[Parent(h)].pc = "range" => gs'[Parent(h)].pc = "range"
    BY <1>1, <2>1 DEF Started
  <2> QED
    BY <1>1, <2>1, <2>2 DEF Started
<1>3. Forest'
  BY <1>1, <1>2 DEF Tree, Forest
<1>4. ASSUME NEW h \in DOMAIN gs PROVE gs'[h].wg = Cardinality(OpenKids(h)')
  <2>1. IsFiniteSet(OpenKids(h)) /\ gs[h].wg = Cardinality(OpenKids(h))
    BY OpenKidsFinite DEF Tree, WaitGroupCounts, OpenKids
  <2>2. OpenKids(h)' = OpenKids(h) \ {g}
    BY <1>1 DEF OpenKids, Children
  <2>3. g \in OpenKids(h) <=> g # Main /\ h = p
    BY <1>1 DEF OpenKids, Children, p
  <2>4. Cardinality(OpenKids(h) \ {g}) = IF g \in OpenKids(h) THEN Cardinality(OpenKids(h)) - 1
                                                              ELSE Cardinality(OpenKids(h))
    BY <2>1, FS_RemoveElement
  <2> QED
    BY <1>1, <2>1, <2>2, <2>3, <2>4
<1> QED
  BY <1>1, <1>3, <1>4 DEF Tree, WaitGroupCounts, OpenKids

LEMMA TreeStep ==
  ASSUME MutexInv, Tree, [MutexNext]_mutexVars
  PROVE  Tree'
<1>1. CASE UNCHANGED mutexVars
  BY <1>1 DEF mutexVars, Tree, Forest, Started, WaitGroupCounts, Children
<1>2. ASSUME NEW g \in DOMAIN gs, MutexStep(g) PROVE Tree'
  BY <1>2, TreeCalm, TreeSpawn, TreeReturn DEF MutexStep, Calm, MutexInv
<1> QED
  BY <1>1, <1>2 DEF MutexNext, MutexTerminated

(* The WaitGroup of every call counts the goroutines that it started and   *)
(* that have not returned, so it is never negative, and Wait lets the call *)
(* return only when all of them have.                                      *)
THEOREM WaitGroupsCount == MutexSpec => []WaitGroupCounts
<1>1. MutexInv /\ Tree /\ [MutexNext]_mutexVars => Tree'
  BY TreeStep
<1>2. Tree => WaitGroupCounts
  BY DEF Tree
<1> QED
  BY <1>1, <1>2, TreeInit, MutexInvariant, PTL DEF MutexSpec

-----------------------------------------------------------------------------
LEMMA CoverageInit == MutexInit => Coverage
<1> SUFFICES ASSUME MutexInit PROVE Coverage
  OBVIOUS
<1>1. DOMAIN gs = {Main} /\ gs[Main].pc = "lock" /\ gs[Main].url = Root
  BY DEF MutexInit, Called
<1>2. marked = {} /\ \A u \in Url : ~(calls[u] > 0)
  BY DEF MutexInit
<1>3. DOMAIN web \subseteq Url
  BY WebsLinkUrls DEF MutexInit
<1> QED
  BY <1>1, <1>2, <1>3 DEF Coverage, Holds, Past

LEMMA CoverageCalm ==
  ASSUME MutexInv, Tree, Coverage, NEW g \in DOMAIN gs, Calm(g)
  PROVE  Coverage'
<1>1. /\ web' = web /\ DOMAIN gs' = DOMAIN gs
      /\ gs[g].pc = "range" => Wait(g)
      /\ gs[g].pc \notin {"return", "exit"}
      /\ \A h \in DOMAIN gs : /\ gs'[h].url = gs[h].url
                              /\ gs'[h].next = gs[h].next
                              /\ h # g => gs'[h] = gs[h]
  BY CalmEffect DEF MutexInv
<1>2. MutexTypeOK /\ Main \in DOMAIN gs /\ gs[g] \in Goroutine /\ gs[g].url \in Url
  BY DEF MutexInv, MutexTypeOK, Goroutine
<1>7. \A h \in DOMAIN gs : h # Main => Parent(h) \in DOMAIN gs /\ gs'[Parent(h)].url = gs[Parent(h)].url
  BY <1>1 DEF Tree, Forest, Started
<1>3. CASE Lock(g)
  <2>1. /\ gs[g].pc = "lock" /\ gs'[g].pc = "unlock"
        /\ gs'[g].already => gs[g].url \in marked
        /\ marked' = marked /\ calls' = calls
    BY <1>2, <1>3, LockEffect DEF Lock
  <2>2. \A h \in DOMAIN gs, p \in DOMAIN web : HandsOut(h, p) => HandsOut(h, p)'
    BY <1>1, <2>1 DEF HandsOut
  <2>3. \A p \in DOMAIN web : calls[p] > 0 => \E h \in DOMAIN gs : HandsOut(h, p)'
    BY <2>2 DEF Coverage
  <2>4. \A h \in DOMAIN gs : Fetches(h) <=> Fetches(h)'
    BY <1>1, <2>1 DEF Fetches
  <2>5. \A u \in marked : calls[u] > 0 \/ \E h \in DOMAIN gs : Fetches(h)' /\ gs'[h].url = u
    BY <1>1, <2>4 DEF Coverage
  <2> QED
    BY <1>1, <1>2, <1>7, <2>1, <2>3, <2>5 DEF Coverage, Holds, Past
<1>4. CASE Unlock(g)
  <2>1. Moves(g, IF gs[g].already THEN "return" ELSE "fetch")
    BY <1>2, <1>4, UnlockEffect
  <2>2. /\ gs'[g].pc = IF gs[g].already THEN "return" ELSE "fetch"
        /\ gs[g].pc = "unlock"
        /\ marked' = marked \cup {gs[g].url} /\ calls' = calls
    BY <1>2, <1>4, <2>1 DEF Moves, Goroutine, Unlock
  <2>3. \A u \in marked' : calls'[u] > 0 \/ \E h \in DOMAIN gs' : Fetches(h)' /\ gs'[h].url = u
    BY <1>1, <2>2 DEF Coverage, Holds, Fetches
  <2>4. \A h \in DOMAIN gs, p \in DOMAIN web : HandsOut(h, p) => HandsOut(h, p)'
    BY <1>1, <2>2 DEF HandsOut
  <2>5. \A p \in DOMAIN web : calls[p] > 0 => \E h \in DOMAIN gs : HandsOut(h, p)'
    BY <2>4 DEF Coverage
  <2>6. \A h \in DOMAIN gs : gs'[h].pc \in Past \/ (Holds(h)' /\ gs'[h].already)
                               => gs'[h].url \in marked'
    BY <1>1, <2>2 DEF Coverage, Holds, Past
  <2> QED
    BY <1>1, <1>2, <1>7, <2>2, <2>3, <2>5, <2>6 DEF Coverage
<1>5. CASE Fetch(g)
  <2>1. Moves(g, IF gs[g].url \in DOMAIN web THEN "range" ELSE "return")
    BY <1>2, <1>5, FetchEffect
  <2>2. /\ gs'[g].pc = IF gs[g].url \in DOMAIN web THEN "range" ELSE "return"
        /\ gs[g].pc = "fetch" /\ gs[g].url \in marked
        /\ marked' = marked
    BY <1>2, <1>5, <2>1 DEF Moves, Goroutine, Fetch, MutexInv, OneFetcher, Fetches
  <2>3. /\ \A u \in Url : calls[u] > 0 => calls'[u] > 0
        /\ calls'[gs[g].url] > 0
        /\ \A u \in Url : u # gs[g].url => calls'[u] = calls[u]
    BY <1>2, <1>5 DEF Fetch, MutexTypeOK
  <2>4. /\ \A h \in DOMAIN gs : gs[h].url \in Url
        /\ marked \subseteq Url /\ DOMAIN web \subseteq Url
    BY WebsLinkUrls DEF MutexInv, MutexTypeOK, Goroutine
  <2>5. \A p \in DOMAIN web : calls'[p] > 0 => \E h \in DOMAIN gs' : HandsOut(h, p)'
    <3> SUFFICES ASSUME NEW p \in DOMAIN web, calls'[p] > 0
                 PROVE  \E h \in DOMAIN gs' : HandsOut(h, p)'
      OBVIOUS
    <3>1. CASE p = gs[g].url
      BY <1>1, <2>2, <3>1 DEF HandsOut
    <3>2. CASE p # gs[g].url
      BY <1>1, <2>3, <2>4, <3>2 DEF HandsOut, Coverage
    <3> QED
      BY <3>1, <3>2
  <2>6. \A u \in marked : calls'[u] > 0 \/ \E h \in DOMAIN gs' : Fetches(h)' /\ gs'[h].url = u
    BY <1>1, <2>3, <2>4 DEF Coverage, Fetches
  <2>7. \A h \in DOMAIN gs : h # Main => calls'[gs'[Parent(h)].url] > 0
    BY <1>1, <2>3, <2>4 DEF Coverage, Tree, Forest, Started
  <2> QED
    BY <1>1, <1>2, <2>2, <2>3, <2>4, <2>5, <2>6, <2>7 DEF Coverage, Holds, Past
<1>6. CASE Wait(g)
  <2>1. Moves(g, "return")
    BY <1>2, <1>6, WaitEffect
  <2>2. /\ gs'[g].pc = "return" /\ gs[g].pc = "range"
        /\ gs[g].next \notin DOMAIN web[gs[g].url]
        /\ marked' = marked /\ calls' = calls
    BY <1>2, <1>6, <2>1 DEF Moves, Goroutine, Wait
  <2>3. \A h \in DOMAIN gs, q \in DOMAIN web : HandsOut(h, q) => HandsOut(h, q)'
    BY <1>1, <2>2 DEF HandsOut
  <2>4. \A q \in DOMAIN web : calls[q] > 0 => \E h \in DOMAIN gs : HandsOut(h, q)'
    BY <2>3 DEF Coverage
  <2>5. \A h \in DOMAIN gs : Fetches(h) <=> Fetches(h)'
    BY <1>1, <2>2 DEF Fetches
  <2>6. \A u \in marked : calls[u] > 0 \/ \E h \in DOMAIN gs : Fetches(h)' /\ gs'[h].url = u
    BY <1>1, <2>5 DEF Coverage
  <2> QED
    BY <1>1, <1>2, <1>7, <2>2, <2>4, <2>6 DEF Coverage, Holds, Past
<1> QED
  BY <1>3, <1>4, <1>5, <1>6 DEF Calm

LEMMA CoverageSpawn ==
  ASSUME MutexInv, Tree, Coverage, NEW g \in DOMAIN gs, Spawn(g)
  PROVE  Coverage'
<1> DEFINE c == Append(g, gs[g].next)
<1>1. /\ c # Main /\ Parent(c) = g
      /\ g \in Seq(Nat) /\ gs[g].next \in Nat /\ Main \in DOMAIN gs
  BY ChildName DEF MutexInv, MutexTypeOK, Goroutine
<1>2. c \notin DOMAIN gs
  <2> SUFFICES ASSUME c \in DOMAIN gs PROVE FALSE
    OBVIOUS
  <2>1. gs[g].next \in 1..(gs[g].next - 1)
    BY <1>1, ChildName DEF Tree, Forest, Started
  <2> QED
    BY <1>1, <2>1
<1>3. /\ DOMAIN gs' = DOMAIN gs \cup {c} /\ gs'[c].pc = "lock"
      /\ web' = web /\ calls' = calls /\ marked' = marked
      /\ gs[g].pc = "range"
      /\ \A h \in DOMAIN gs : /\ gs'[h].pc = gs[h].pc
                              /\ gs'[h].url = gs[h].url
                              /\ gs'[h].already = gs[h].already
                              /\ h # g => gs'[h] = gs[h]
  BY <1>2, SpawnEffect DEF MutexInv, Spawn
<1> HIDE DEF c
<1>4. \A h \in DOMAIN gs, p \in DOMAIN web : HandsOut(h, p) => HandsOut(h, p)'
  BY <1>3 DEF HandsOut
<1>5. \A p \in DOMAIN web : calls[p] > 0 => \E h \in DOMAIN gs : HandsOut(h, p)'
  BY <1>4 DEF Coverage
<1>6. \A h \in DOMAIN gs' : h # Main => calls[gs'[Parent(h)].url] > 0
  BY <1>1, <1>3 DEF Coverage, Tree, Forest, Started
<1> QED
  BY <1>1, <1>3, <1>5, <1>6 DEF Coverage, Holds, Fetches, Past

LEMMA CoverageReturn ==
  ASSUME MutexInv, Tree, Coverage, NEW g \in DOMAIN gs, Return(g)
  PROVE  Coverage'
<1>1. /\ DOMAIN gs' = DOMAIN gs /\ gs[g].pc = "return" /\ gs'[g].pc = "exit"
      /\ web' = web /\ calls' = calls /\ marked' = marked
      /\ Main \in DOMAIN gs
      /\ \A h \in DOMAIN gs : /\ h # g => gs'[h].pc = gs[h].pc
                              /\ gs'[h].url = gs[h].url
                              /\ gs'[h].already = gs[h].already
                              /\ gs'[h].next = gs[h].next
  BY ReturnEffect DEF MutexInv, MutexTypeOK, Return
<1>2. \A h \in DOMAIN gs, p \in DOMAIN web : HandsOut(h, p) => HandsOut(h, p)'
  BY <1>1 DEF HandsOut
<1>3. \A p \in DOMAIN web : calls[p] > 0 => \E h \in DOMAIN gs : HandsOut(h, p)'
  BY <1>2 DEF Coverage
<1> QED
  BY <1>1, <1>3 DEF Coverage, Holds, Fetches, Past, Tree, Forest, Started

LEMMA CoverageStep ==
  ASSUME MutexInv, Tree, Coverage, [MutexNext]_mutexVars
  PROVE  Coverage'
<1>1. CASE UNCHANGED mutexVars
  BY <1>1 DEF mutexVars, Coverage, Holds, Fetches, HandsOut
<1>2. ASSUME NEW g \in DOMAIN gs, MutexStep(g) PROVE Coverage'
  BY <1>2, CoverageCalm, CoverageSpawn, CoverageReturn DEF MutexStep, Calm
<1> QED
  BY <1>1, <1>2 DEF MutexNext, MutexTerminated

LEMMA MutexFullInvariant == MutexSpec => []MutexFullInv
<1>1. MutexInit => MutexFullInv
  BY MutexInvInit, TreeInit, CoverageInit DEF MutexFullInv
<1>2. MutexFullInv /\ [MutexNext]_mutexVars => MutexFullInv'
  BY MutexInvStep, TreeStep, CoverageStep DEF MutexFullInv
<1> QED
  BY <1>1, <1>2, PTL DEF MutexSpec
-----------------------------------------------------------------------------
(* When main's call is about to return, no page is left.                   *)
LEMMA NothingLeft ==
  ASSUME MutexFullInv, gs[Main].pc = "return", NEW u \in Url, MutexCrawl!Known(u)
  PROVE  u \in MutexCrawl!Visited
<1> USE DEF MutexFullInv, MutexInv, Tree
<1>1. \A h \in DOMAIN gs : h # Main => gs[h].pc = "exit"
  BY OnlyMainLeft
<1>2. /\ \A h \in DOMAIN gs : gs[h].pc \in {"return", "exit"} /\ ~Fetches(h)
      /\ Main \in DOMAIN gs
  BY <1>1 DEF MutexTypeOK, Fetches
<1>3. \A h \in DOMAIN gs : gs[h].url \in Url /\ calls[gs[h].url] > 0
  <2>1. \A h \in DOMAIN gs : gs[h].url \in marked
    BY <1>2 DEF Coverage, Past
  <2> QED
    BY <1>2, <2>1 DEF Coverage, MutexTypeOK
<1>4. CASE u = Root
  BY <1>2, <1>3, <1>4 DEF Coverage, MutexCrawl!Visited
<1>5. ASSUME NEW p \in MutexCrawl!Visited, MutexCrawl!LinksTo(p, u) PROVE u \in MutexCrawl!Visited
  <2>1. p \in DOMAIN web /\ calls[p] > 0
    BY <1>5 DEF MutexCrawl!LinksTo, MutexCrawl!Visited
  <2>2. PICK i \in DOMAIN web[p] : web[p][i] = u
    BY <1>5 DEF MutexCrawl!LinksTo
  <2>3. PICK g \in DOMAIN gs : HandsOut(g, p)
    BY <2>1 DEF Coverage
  <2>4. gs[g].url = p /\ gs[g].next \notin DOMAIN web[p]
    BY <1>2, <2>3 DEF HandsOut
  <2>5. i \in 1..(gs[g].next - 1) /\ i \in Nat
    <3>1. web[p] \in Seq(Url) /\ gs[g].next \in Nat \ {0}
      BY <2>1, WebsLinkUrls DEF MutexTypeOK, Goroutine
    <3>2. DOMAIN web[p] = 1..Len(web[p]) /\ Len(web[p]) \in Nat
      BY <3>1, LenProperties
    <3> QED
      BY <2>2, <2>4, <3>1, <3>2
  <2>6. Append(g, i) \in DOMAIN gs
    BY <2>5 DEF Forest
  <2>7. Append(g, i) # Main /\ Parent(Append(g, i)) = g /\ Index(Append(g, i)) = i
    BY <2>5, ChildName DEF MutexTypeOK
  <2>8. gs[Append(g, i)].url = u
    BY <2>2, <2>4, <2>6, <2>7 DEF Forest, Started
  <2> QED
    BY <1>3, <2>6, <2>8 DEF MutexCrawl!Visited
<1> QED
  BY <1>4, <1>5 DEF MutexCrawl!Known

(* A goroutine that is going to fetch a page was started for a link of a   *)
(* page that was fetched, and main's call waits for it.                    *)
LEMMA FetchVisits ==
  ASSUME MutexFullInv, NEW g \in DOMAIN gs, Fetch(g)
  PROVE  MutexCrawl!Visit(gs[g].url) /\ gs[g].url \in Url
<1> USE DEF MutexFullInv, MutexInv, Tree
<1>1. gs[g].url \in Url /\ calls[gs[g].url] = 0
  BY DEF Fetch, OneFetcher, WillFetch, Fetches, MutexTypeOK, Goroutine
<1>2. gs[Main].pc # "exit"
  BY OnlyMainLeft DEF Fetch
<1>3. MutexCrawl!Known(gs[g].url)
  <2>1. CASE g = Main
    BY <2>1 DEF Coverage, MutexCrawl!Known
  <2>2. CASE g # Main
    <3> DEFINE p == gs[Parent(g)].url
    <3>1. p \in DOMAIN web /\ \E i \in DOMAIN web[p] : web[p][i] = gs[g].url
      BY <2>2 DEF Forest, Started
    <3>2. p \in Url /\ calls[p] > 0
      BY <2>2, <3>1, WebsLinkUrls DEF Coverage, MutexTypeOK
    <3> QED
      BY <3>1, <3>2 DEF MutexCrawl!Known, MutexCrawl!LinksTo, MutexCrawl!Visited
  <2> QED
    BY <2>1, <2>2
<1>4. calls' = [calls EXCEPT ![gs[g].url] = 1]
  BY <1>1 DEF Fetch
<1>5. web' = web /\ gs'[Main].pc # "exit"
  <2>1. /\ DOMAIN gs' = DOMAIN gs /\ gs'[g].pc # "exit"
        /\ \A h \in DOMAIN gs : h # g => gs'[h] = gs[h]
    BY CalmEffect DEF Calm
  <2> QED
    BY <1>2, <2>1 DEF Fetch, MutexTypeOK
<1> QED
  BY <1>1, <1>2, <1>3, <1>4, <1>5 DEF MutexCrawl!Visit

LEMMA MutexRefinementInit == MutexInit => MutexCrawl!Init
BY DEF MutexInit, MutexCrawl!Init, Called

LEMMA MutexRefinementStep ==
  ASSUME MutexFullInv, [MutexNext]_mutexVars
  PROVE  [MutexCrawl!Next]_MutexCrawl!vars
<1> USE DEF MutexFullInv, MutexInv
<1>1. CASE UNCHANGED mutexVars
  BY <1>1 DEF mutexVars, MutexCrawl!vars
<1>2. ASSUME NEW g \in DOMAIN gs, Fetch(g) PROVE MutexCrawl!Next
  BY <1>2, FetchVisits DEF MutexCrawl!Next
<1>3. ASSUME NEW g \in DOMAIN gs, Lock(g) \/ Unlock(g) \/ Wait(g) PROVE UNCHANGED MutexCrawl!vars
  <2>1. /\ gs[g].pc # "exit" /\ gs'[g].pc # "exit"
        /\ \A h \in DOMAIN gs : h # g => gs'[h] = gs[h]
    BY <1>3, CalmEffect DEF Calm
  <2>2. gs'[Main].pc = "exit" <=> gs[Main].pc = "exit"
    BY <2>1 DEF MutexTypeOK
  <2>3. web' = web /\ calls' = calls
    BY <1>3 DEF Lock, Unlock, Wait
  <2> QED
    BY <2>2, <2>3 DEF MutexCrawl!vars
<1>4. ASSUME NEW g \in DOMAIN gs, Spawn(g) PROVE UNCHANGED MutexCrawl!vars
  <2>1. Main # Append(g, gs[g].next)
    BY ChildName DEF MutexTypeOK, Goroutine
  <2>2. gs'[Main].pc = gs[Main].pc
    BY <1>4, <2>1, SpawnEffect DEF MutexTypeOK
  <2> QED
    BY <1>4, <2>2 DEF Spawn, MutexCrawl!vars
<1>5. ASSUME NEW g \in DOMAIN gs, Return(g) PROVE [MutexCrawl!Next]_MutexCrawl!vars
  <2>1. /\ web' = web /\ calls' = calls
        /\ gs[g].pc = "return" /\ gs'[g].pc = "exit"
        /\ \A h \in DOMAIN gs : h # g => gs'[h].pc = gs[h].pc
    BY <1>5, ReturnEffect DEF Return
  <2>2. CASE g = Main
    BY <2>1, <2>2, NothingLeft DEF MutexCrawl!Next, MutexCrawl!Return
  <2>3. CASE g # Main
    <3>1. gs'[Main].pc = gs[Main].pc
      BY <2>1, <2>3 DEF MutexTypeOK
    <3> QED
      BY <2>1, <3>1 DEF MutexCrawl!vars
  <2> QED
    BY <2>2, <2>3
<1> QED
  BY <1>1, <1>2, <1>3, <1>4, <1>5 DEF MutexNext, MutexStep, MutexTerminated

(* Every behaviour of the goroutines is, for its safety part, a behaviour  *)
(* of the abstract crawl: nothing out of reach is fetched, and main's call *)
(* returns only when no page is left, also one whose goroutine another one *)
(* did not wait for because its page was marked already (line 47).         *)
THEOREM MutexImplements == MutexSpec => MutexCrawl!Init /\ [][MutexCrawl!Next]_MutexCrawl!vars
<1>1. MutexFullInv /\ [MutexNext]_mutexVars => [MutexCrawl!Next]_MutexCrawl!vars
  BY MutexRefinementStep
<1> QED
  BY <1>1, MutexRefinementInit, MutexFullInvariant, PTL DEF MutexSpec
-----------------------------------------------------------------------------
(* What the crawl keeps of the web: its root and the links of its pages    *)
(* are never left (goroutines fetch nothing else), and are all fetched     *)
(* when Crawl has returned. Steps of the abstract crawl keep both.         *)
LEMMA MutexReachableStep ==
  ASSUME MutexCrawl!OnlyReachable, [MutexCrawl!Next]_(MutexCrawl!vars)
  PROVE  MutexCrawl!OnlyReachable'
<1> SUFFICES ASSUME NEW S \in SUBSET Url, MutexCrawl!Closed(S)'
             PROVE  MutexCrawl!Visited' \subseteq S
  BY DEF MutexCrawl!OnlyReachable
<1>1. web' = web
  BY DEF MutexCrawl!Next, MutexCrawl!Return, MutexCrawl!Visit, MutexCrawl!vars
<1>2. MutexCrawl!Closed(S)
  BY <1>1 DEF MutexCrawl!Closed, MutexCrawl!LinksTo
<1>3. MutexCrawl!Visited \subseteq S
  BY <1>2 DEF MutexCrawl!OnlyReachable
<1>4. CASE MutexCrawl!Return \/ UNCHANGED MutexCrawl!vars
  BY <1>3, <1>4 DEF MutexCrawl!Return, MutexCrawl!vars, MutexCrawl!Visited
<1>5. ASSUME NEW u \in Url, MutexCrawl!Visit(u) PROVE MutexCrawl!Visited' \subseteq S
  <2>1. u \in S
    BY <1>2, <1>3, <1>5 DEF MutexCrawl!Visit, MutexCrawl!Known, MutexCrawl!Closed
  <2>2. \A v \in Url : v # u => calls'[v] = calls[v] \/ v \notin DOMAIN calls
    BY <1>5 DEF MutexCrawl!Visit
  <2> QED
    BY <1>3, <1>5, <2>1, <2>2 DEF MutexCrawl!Visit, MutexCrawl!Visited
<1> QED
  BY <1>4, <1>5 DEF MutexCrawl!Next

LEMMA MutexCompleteStep ==
  ASSUME MutexCrawl!CompleteAtReturn, [MutexCrawl!Next]_(MutexCrawl!vars)
  PROVE  MutexCrawl!CompleteAtReturn'
<1> SUFFICES ASSUME (gs[Main].pc = "exit")' PROVE MutexCrawl!Closed(MutexCrawl!Visited)'
  BY DEF MutexCrawl!CompleteAtReturn
<1>1. CASE MutexCrawl!Return
  <2>1. MutexCrawl!Closed(MutexCrawl!Visited)
    BY <1>1, RootIsUrl
    DEF MutexCrawl!Return, MutexCrawl!Known, MutexCrawl!Closed, MutexCrawl!Visited
  <2> QED
    BY <1>1, <2>1
    DEF MutexCrawl!Return, MutexCrawl!Closed, MutexCrawl!Visited, MutexCrawl!LinksTo
<1>2. ASSUME NEW u \in Url, MutexCrawl!Visit(u) PROVE FALSE
  BY <1>2 DEF MutexCrawl!Visit
<1>3. CASE UNCHANGED MutexCrawl!vars
  BY <1>3 DEF MutexCrawl!vars, MutexCrawl!CompleteAtReturn, MutexCrawl!Closed, MutexCrawl!Visited,
              MutexCrawl!LinksTo
<1> QED
  BY <1>1, <1>2, <1>3 DEF MutexCrawl!Next

(* ConcurrentMutex fetches only pages that hang off the root, and all of   *)
(* them before the call of main returns: done.Wait keeps every call until  *)
(* the goroutines of its page's links have returned (main.go:41-70).       *)
THEOREM MutexFetchesReachable == MutexSpec => [](MutexCrawl!OnlyReachable /\ MutexCrawl!CompleteAtReturn)
<1>1. MutexCrawl!Init => MutexCrawl!OnlyReachable /\ MutexCrawl!CompleteAtReturn
  BY DEF MutexCrawl!Init, MutexCrawl!OnlyReachable, MutexCrawl!CompleteAtReturn, MutexCrawl!Visited
<1>2. /\ MutexCrawl!OnlyReachable /\ MutexCrawl!CompleteAtReturn
      /\ [MutexCrawl!Next]_(MutexCrawl!vars)
      => MutexCrawl!OnlyReachable' /\ MutexCrawl!CompleteAtReturn'
  BY MutexReachableStep, MutexCompleteStep
<1> QED
  BY <1>1, <1>2, MutexImplements, PTL

-----------------------------------------------------------------------------
(* The crawler with a master and workers. *)
Fetching(u) == \E i \in DOMAIN senders : senders[i].pc = "fetch" /\ senders[i].url = u
Sending(u) == \E i \in DOMAIN senders :
                /\ senders[i].pc = "send"
                /\ \E k \in DOMAIN senders[i].urls : senders[i].urls[k] = u
Looping(u) == pc = "loop" /\ \E k \in DOMAIN urls : urls[k] = u

(* Types without the bound on n, which needs CountsOutstanding. *)
Typed == /\ web \in Webs
         /\ calls \in [Url -> Nat]
         /\ pc \in {"recv", "loop", "exit"}
         /\ n \in Int
         /\ fetched \subseteq Url
         /\ urls \in Seq(Url)
         /\ senders \in Seq(Sender)

(* The worker for a URL is unique, and no Fetch was called with it yet. *)
OneWorker ==
  /\ \A i, j \in DOMAIN senders :
       /\ senders[i].pc = "fetch"
       /\ senders[j].pc = "fetch"
       /\ senders[i].url = senders[j].url
       => i = j
  /\ \A u \in Url : Fetching(u) => u \in fetched /\ calls[u] = 0
  /\ \A u \in Url : calls[u] > 0 => u \in fetched

(* Marked URLs are known to the crawl, and so is all that is in flight. *)
AllKnown == \A u \in Url : u \in fetched \/ Sending(u) \/ Looping(u) => ChannelCrawl!Known(u)

(* Known URLs are in flight or marked; marked ones are being fetched or    *)
(* have been.                                                              *)
NoneLost ==
  /\ \A u \in Url : ChannelCrawl!Known(u) => u \in fetched \/ Sending(u) \/ Looping(u)
  /\ \A u \in fetched : Fetching(u) \/ calls[u] > 0

(* The inductive invariant. *)
Counted == CountsOutstanding /\ NobodyLeftBehind
Single == FetchedOnce /\ OneWorker
Tracked == AllKnown /\ NoneLost

ChannelInv == Typed /\ Counted /\ Single /\ Tracked

-----------------------------------------------------------------------------
LEMMA TypedInit == ChannelInit => Typed
<1> SUFFICES ASSUME ChannelInit PROVE Typed
  OBVIOUS
<1>1. [pc |-> "send", url |-> Root, urls |-> <<Root>>] \in Sender
  BY RootIsUrl DEF Sender
<1> QED
  BY <1>1, RootIsUrl DEF ChannelInit, Typed

LEMMA FetchTyped ==
  ASSUME Typed, NEW i \in DOMAIN senders, WorkerFetch(i)
  PROVE  /\ Typed'
         /\ senders[i].url \in Url
         /\ DOMAIN senders' = DOMAIN senders
         /\ senders'[i].pc = "send"
         /\ senders'[i].urls = IF senders[i].url \in DOMAIN web
                                 THEN web[senders[i].url] ELSE <<>>
         /\ \A j \in DOMAIN senders : j # i => senders'[j] = senders[j]
<1> DEFINE u == senders[i].url
           e == [senders[i] EXCEPT !.pc = "send",
                                   !.urls = IF u \in DOMAIN web THEN web[u] ELSE <<>>]
<1>1. senders[i] \in Sender /\ i \in 1..Len(senders) /\ DOMAIN senders = 1..Len(senders)
  BY DEF Typed
<1>2. (IF u \in DOMAIN web THEN web[u] ELSE <<>>) \in Seq(Url)
  BY WebsLinkUrls DEF Typed
<1>3. e \in Sender
  BY <1>1, <1>2 DEF Sender
<1>4. senders' = [senders EXCEPT ![i] = e]
  BY <1>1 DEF WorkerFetch, Typed
<1>5. senders' \in Seq(Sender) /\ Len(senders') = Len(senders)
  BY <1>1, <1>3, <1>4, ExceptSeq DEF Typed
<1>6. DOMAIN senders' = DOMAIN senders
  BY <1>1, <1>4
<1>7. u \in Url
  BY <1>1 DEF Sender
<1>8. calls' \in [Url -> Nat]
  BY <1>7 DEF WorkerFetch, Typed
<1>9. Typed'
  BY <1>5, <1>8 DEF WorkerFetch, Typed, master
<1>10. senders'[i] = e
  BY <1>1, <1>4
<1>11. e.pc = "send" /\ e.urls = IF u \in DOMAIN web THEN web[u] ELSE <<>>
  BY <1>1 DEF Sender
<1>12. \A j \in DOMAIN senders : j # i => senders'[j] = senders[j]
  BY <1>1, <1>4
<1> QED
  BY <1>6, <1>7, <1>9, <1>10, <1>11, <1>12

LEMMA ReceiveTyped ==
  ASSUME Typed, NEW i \in DOMAIN senders, Receive(i)
  PROVE  /\ Typed'
         /\ DOMAIN senders' = DOMAIN senders
         /\ senders'[i].pc = "exit"
         /\ \A j \in DOMAIN senders : j # i => senders'[j] = senders[j]
<1> DEFINE e == [senders[i] EXCEPT !.pc = "exit"]
<1>1. senders[i] \in Sender /\ i \in 1..Len(senders) /\ DOMAIN senders = 1..Len(senders)
  BY DEF Typed
<1>2. e \in Sender /\ e.pc = "exit" /\ senders[i].urls \in Seq(Url)
  BY <1>1 DEF Sender
<1>3. senders' = [senders EXCEPT ![i] = e]
  BY DEF Receive
<1>4. senders' \in Seq(Sender) /\ Len(senders') = Len(senders)
  BY <1>1, <1>2, <1>3, ExceptSeq DEF Typed
<1>5. Typed'
  BY <1>2, <1>4 DEF Receive, Typed
<1>6. senders'[i] = e /\ DOMAIN senders' = DOMAIN senders
  BY <1>1, <1>3
<1>7. \A j \in DOMAIN senders : j # i => senders'[j] = senders[j]
  BY <1>1, <1>3
<1> QED
  BY <1>2, <1>5, <1>6, <1>7

(* The turn of the master's loop that starts a worker. *)
StartsWorker == Visit /\ Head(urls) \notin fetched

LEMMA VisitTyped ==
  ASSUME Typed, Visit
  PROVE  /\ Typed'
         /\ Head(urls) \in Url
         /\ \A k \in DOMAIN urls' : k + 1 \in DOMAIN urls /\ urls'[k] = urls[k + 1]
         /\ \A k \in DOMAIN urls : k = 1 \/ (k - 1 \in DOMAIN urls' /\ urls'[k - 1] = urls[k])
         /\ urls[1] = Head(urls)
<1>1. /\ Head(urls) \in Url
      /\ urls' \in Seq(Url)
      /\ Len(urls') = Len(urls) - 1
      /\ Len(urls) \in Nat
      /\ urls # <<>>
  BY HeadTailProperties DEF Visit, Typed
<1>2. \A k \in 1..Len(urls') : urls'[k] = urls[k + 1]
  BY <1>1 DEF Visit, Typed
<1>3. DOMAIN urls = 1..Len(urls) /\ DOMAIN urls' = 1..Len(urls')
  BY <1>1 DEF Typed
<1>4. Worker(Head(urls)) \in Sender
  BY <1>1 DEF Worker, Sender
<1>5. Typed'
  <2>1. Append(senders, Worker(Head(urls))) \in Seq(Sender)
    BY <1>4, AppendProperties DEF Typed
  <2>2. senders' = senders \/ senders' = Append(senders, Worker(Head(urls)))
    BY DEF Visit
  <2>3. n' \in Int
    BY DEF Visit, Typed
  <2>4. fetched' \subseteq Url
    BY <1>1 DEF Visit, Typed
  <2>5. senders' \in Seq(Sender)
    BY <2>1, <2>2 DEF Typed
  <2>6. /\ web' = web
        /\ calls' = calls
        /\ pc' = pc
    BY DEF Visit
  <2> QED
    BY <1>1, <2>3, <2>4, <2>5, <2>6 DEF Typed
<1>6. \A k \in DOMAIN urls' : k + 1 \in DOMAIN urls /\ urls'[k] = urls[k + 1]
  BY <1>1, <1>2, <1>3
<1>7. \A k \in DOMAIN urls : k = 1 \/ (k - 1 \in DOMAIN urls' /\ urls'[k - 1] = urls[k])
  BY <1>1, <1>2, <1>3
<1>8. urls[1] = Head(urls)
  BY <1>1 DEF Typed
<1> QED
  BY <1>1, <1>5, <1>6, <1>7, <1>8

LEMMA StartTyped ==
  ASSUME Typed, StartsWorker
  PROVE  LET new == Len(senders) + 1
         IN /\ DOMAIN senders' = DOMAIN senders \cup {new}
            /\ new \notin DOMAIN senders
            /\ senders'[new] = Worker(Head(urls))
            /\ \A j \in DOMAIN senders : senders'[j] = senders[j]
<1>1. senders \in Seq(Sender) /\ Len(senders) \in Nat /\ DOMAIN senders = 1..Len(senders)
  BY DEF Typed
<1>2. senders' = Append(senders, Worker(Head(urls)))
  BY DEF StartsWorker, Visit
<1>3. Worker(Head(urls)) \in Sender
  BY VisitTyped DEF Worker, Sender, StartsWorker
<1>4. /\ Len(senders') = Len(senders) + 1
      /\ senders' \in Seq(Sender)
      /\ senders'[Len(senders) + 1] = Worker(Head(urls))
      /\ \A j \in 1..Len(senders) : senders'[j] = senders[j]
  BY <1>1, <1>2, <1>3, AppendProperties
<1> QED
  BY <1>1, <1>4

LEMMA CountDownTyped == ASSUME Typed, CountDown PROVE Typed'
BY DEF Typed, CountDown

LEMMA TypedStep == ASSUME Typed, [ChannelNext]_channelVars PROVE Typed'
<1>1. CASE UNCHANGED channelVars
  BY <1>1 DEF channelVars, master, Typed
<1>2. CASE Visit
  BY <1>2, VisitTyped
<1>3. ASSUME NEW i \in DOMAIN senders, WorkerFetch(i) PROVE Typed'
  BY <1>3, FetchTyped
<1>4. ASSUME NEW i \in DOMAIN senders, Receive(i) PROVE Typed'
  BY <1>4, ReceiveTyped
<1>5. CASE CountDown
  BY <1>5, CountDownTyped
<1> QED
  BY <1>1, <1>2, <1>3, <1>4, <1>5 DEF ChannelNext, ChannelTerminated

-----------------------------------------------------------------------------
(* The counter. *)

LEMMA OutstandingFinite == ASSUME Typed PROVE IsFiniteSet(Outstanding)
<1>1. Outstanding \subseteq 1..Len(senders) /\ Len(senders) \in Nat
  BY DEF Typed, Outstanding
<1>2. IsFiniteSet(1..Len(senders))
  BY <1>1, FS_Interval
<1> QED
  BY <1>1, <1>2, FS_Subset

LEMMA CountedStep ==
  ASSUME Typed, Counted, [ChannelNext]_channelVars
  PROVE  Counted'
<1> DEFINE Out == Outstanding
<1>0. IsFiniteSet(Out) /\ Cardinality(Out) \in Nat /\ (Cardinality(Out) = 0 <=> Out = {})
  BY OutstandingFinite, FS_CardinalityType, FS_EmptySet
<1>1. CASE UNCHANGED channelVars
  BY <1>1 DEF channelVars, master, Counted, CountsOutstanding, NobodyLeftBehind, Outstanding
<1>2. CASE StartsWorker
  <2> DEFINE new == Len(senders) + 1
  <2>1. Out' = Out \cup {new} /\ new \notin Out
    BY <1>2, StartTyped DEF Outstanding, Worker
  <2>2. Cardinality(Out') = Cardinality(Out) + 1
    BY <1>0, <2>1, FS_AddElement
  <2> QED
    BY <1>0, <1>2, <2>2 DEF StartsWorker, Visit, Counted, CountsOutstanding, NobodyLeftBehind, Typed
<1>3. CASE Visit /\ ~StartsWorker
  BY <1>3 DEF StartsWorker, Visit, Counted, CountsOutstanding, NobodyLeftBehind, Outstanding
<1>4. ASSUME NEW i \in DOMAIN senders, WorkerFetch(i) PROVE Counted'
  <2>1. Out' = Out
    BY <1>4, FetchTyped DEF Outstanding, WorkerFetch
  <2> QED
    BY <1>4, <2>1 DEF WorkerFetch, master, Counted, CountsOutstanding, NobodyLeftBehind
<1>5. ASSUME NEW i \in DOMAIN senders, Receive(i) PROVE Counted'
  <2>1. Out' = Out \ {i} /\ i \in Out
    BY <1>5, ReceiveTyped DEF Outstanding, Receive
  <2>2. Cardinality(Out') = Cardinality(Out) - 1
    BY <1>0, <2>1, FS_RemoveElement
  <2> QED
    BY <1>0, <1>5, <2>2 DEF Receive, Counted, CountsOutstanding, NobodyLeftBehind, Typed
<1>6. CASE CountDown
  <2>1. Out' = Out
    BY <1>6 DEF Outstanding, CountDown
  <2> QED
    BY <1>0, <1>6, <2>1 DEF CountDown, Counted, CountsOutstanding, NobodyLeftBehind, Typed
<1> QED
  BY <1>1, <1>2, <1>3, <1>4, <1>5, <1>6 DEF ChannelNext, ChannelTerminated

LEMMA CountedInit == ChannelInit => Counted
<1> SUFFICES ASSUME ChannelInit PROVE Counted
  OBVIOUS
<1>1. Outstanding = {1}
  BY DEF Outstanding, ChannelInit
<1>2. Cardinality({1}) = 1
  BY FS_Singleton
<1> QED
  BY <1>1, <1>2 DEF ChannelInit, Counted, CountsOutstanding, NobodyLeftBehind

-----------------------------------------------------------------------------
(* A worker is alone with its URL. *)

LEMMA SingleStep ==
  ASSUME Typed, Single, [ChannelNext]_channelVars
  PROVE  Single'
<1> USE DEF Single, FetchedOnce, OneWorker, Fetching
<1>1. CASE UNCHANGED channelVars
  BY <1>1 DEF channelVars, master
<1>2. CASE StartsWorker
  <2>1. calls' = calls /\ fetched' = fetched \cup {Head(urls)} /\ Head(urls) \notin fetched
    BY <1>2 DEF StartsWorker, Visit
  <2>2. Head(urls) \in Url /\ calls[Head(urls)] = 0
    BY <1>2, <2>1, VisitTyped DEF StartsWorker, Typed
  <2> QED
    BY <1>2, <2>1, <2>2, StartTyped DEF Worker
<1>3. CASE Visit /\ ~StartsWorker
  BY <1>3 DEF StartsWorker, Visit
<1>4. ASSUME NEW i \in DOMAIN senders, WorkerFetch(i) PROVE Single'
  <2> DEFINE u == senders[i].url
  <2>1. u \in Url /\ Fetching(u) /\ senders[i].pc = "fetch"
    BY <1>4, FetchTyped DEF WorkerFetch
  <2>2. calls[u] = 0 /\ u \in fetched /\ fetched' = fetched
    BY <1>4, <2>1 DEF WorkerFetch, master
  <2>3. calls' = [calls EXCEPT ![u] = 1]
    BY <1>4, <2>2 DEF WorkerFetch
  <2>4. \A v \in Url : calls'[v] = IF v = u THEN 1 ELSE calls[v]
    BY <2>3 DEF Typed
  <2>5. \A j \in DOMAIN senders' : /\ j \in DOMAIN senders
                                   /\ j # i => senders'[j] = senders[j]
                                   /\ j = i => senders'[j].pc # "fetch"
    BY <1>4, FetchTyped
  <2>6. \A v \in Url : Fetching(v)' => Fetching(v) /\ v # u
    BY <2>1, <2>5
  <2> QED
    BY <2>1, <2>2, <2>4, <2>5, <2>6
<1>5. ASSUME NEW i \in DOMAIN senders, Receive(i) PROVE Single'
  <2>1. \A j \in DOMAIN senders' : /\ j \in DOMAIN senders
                                   /\ j # i => senders'[j] = senders[j]
                                   /\ j = i => senders'[j].pc # "fetch"
    BY <1>5, ReceiveTyped
  <2> QED
    BY <1>5, <2>1 DEF Receive
<1>6. CASE CountDown
  BY <1>6 DEF CountDown
<1> QED
  BY <1>1, <1>2, <1>3, <1>4, <1>5, <1>6 DEF ChannelNext, ChannelTerminated

LEMMA SingleInit == ChannelInit => Single
BY DEF ChannelInit, Single, FetchedOnce, OneWorker, Fetching

-----------------------------------------------------------------------------
(* What is known to the crawl is in flight, marked or visited. *)

(* The steps of the crawlers change no link of the web. *)
LEMMA WebFixed == ASSUME [ChannelNext]_channelVars PROVE web' = web
BY DEF ChannelNext, ChannelTerminated, Visit, CountDown, WorkerFetch, Receive, channelVars

(* A step that fetches nothing leaves what is known as it is. *)
LEMMA KnownKept ==
  ASSUME web' = web, calls' = calls
  PROVE  \A u : ChannelCrawl!Known(u)' = ChannelCrawl!Known(u)
BY DEF ChannelCrawl!Known, ChannelCrawl!Visited, ChannelCrawl!LinksTo

LEMMA TrackedInit == ChannelInit => Tracked
<1> SUFFICES ASSUME ChannelInit PROVE Tracked
  OBVIOUS
<1>1. \A u \in Url : ChannelCrawl!Known(u) <=> u = Root
  BY DEF ChannelInit, ChannelCrawl!Known, ChannelCrawl!Visited
<1>2. \A u \in Url : Sending(u) <=> u = Root
  BY DEF ChannelInit, Sending
<1>3. \A u \in Url : ~Looping(u) /\ u \notin fetched
  BY DEF ChannelInit, Looping
<1> QED
  BY <1>1, <1>2, <1>3 DEF ChannelInit, Tracked, AllKnown, NoneLost

LEMMA TrackedVisit ==
  ASSUME Typed, Tracked, Visit
  PROVE  Tracked'
<1> DEFINE u == Head(urls)
<1>1. \A v : ChannelCrawl!Known(v)' = ChannelCrawl!Known(v)
  BY KnownKept DEF Visit
<1>2. u \in Url /\ fetched' = fetched \cup {u} /\ calls' = calls
  BY VisitTyped DEF Visit
<1>3. \A v \in Url : Looping(v) <=> v = u \/ Looping(v)'
  <2>1. pc = "loop" /\ pc' = "loop" /\ 1 \in DOMAIN urls
    BY DEF Visit, Typed
  <2> QED
    BY <2>1, VisitTyped DEF Looping
<1>4. \A v \in Url : Sending(v)' <=> Sending(v)
  <2>1. CASE StartsWorker
    BY <2>1, StartTyped DEF Sending, Worker
  <2>2. CASE ~StartsWorker
    BY <2>2 DEF StartsWorker, Visit, Sending
  <2> QED
    BY <2>1, <2>2
<1>5. \A v \in Url : Fetching(v)' <=> Fetching(v) \/ (v = u /\ u \notin fetched)
  <2>1. CASE StartsWorker
    BY <2>1, StartTyped DEF Fetching, Worker, StartsWorker
  <2>2. CASE ~StartsWorker
    BY <2>2 DEF StartsWorker, Visit, Fetching
  <2> QED
    BY <2>1, <2>2
<1>6. Looping(u)
  BY <1>2, <1>3
<1>7. fetched \subseteq Url
  BY DEF Typed
<1> QED
  BY <1>1, <1>2, <1>3, <1>4, <1>5, <1>6, <1>7 DEF Tracked, AllKnown, NoneLost

LEMMA TrackedFetch ==
  ASSUME Typed, Tracked, NEW i \in DOMAIN senders, WorkerFetch(i)
  PROVE  Tracked'
<1> DEFINE u == senders[i].url
<1>1. u \in Url /\ senders[i].pc = "fetch"
  BY FetchTyped DEF WorkerFetch
<1>2. /\ web' = web /\ fetched' = fetched /\ pc' = pc /\ urls' = urls
      /\ \A v \in Url : calls'[v] = IF v = u THEN calls[u] + 1 ELSE calls[v]
      /\ calls \in [Url -> Nat] /\ calls' \in [Url -> Nat]
  BY <1>1, FetchTyped DEF WorkerFetch, master, Typed
<1>3. ChannelCrawl!Visited' = ChannelCrawl!Visited \cup {u}
  BY <1>1, <1>2 DEF ChannelCrawl!Visited
<1>4. \A v : ChannelCrawl!Known(v)' <=> ChannelCrawl!Known(v) \/ ChannelCrawl!LinksTo(u, v)
  BY <1>2, <1>3 DEF ChannelCrawl!Known, ChannelCrawl!LinksTo
<1>5. \A v \in Url : Looping(v)' <=> Looping(v)
  BY <1>2 DEF Looping
<1>6. \A v \in Url : Sending(v)' <=> Sending(v) \/ ChannelCrawl!LinksTo(u, v)
  <2>1. \A v \in Url : ChannelCrawl!LinksTo(u, v)
                       <=> \E k \in DOMAIN senders'[i].urls : senders'[i].urls[k] = v
    BY FetchTyped DEF ChannelCrawl!LinksTo
  <2> QED
    BY <1>1, <2>1, FetchTyped DEF Sending
<1>7. \A v \in Url : Fetching(v) => v = u \/ Fetching(v)'
  BY FetchTyped DEF Fetching
<1>8. AllKnown'
  BY <1>2, <1>4, <1>5, <1>6 DEF Tracked, AllKnown
<1>9. NoneLost'
  BY <1>1, <1>2, <1>4, <1>5, <1>6, <1>7 DEF Tracked, NoneLost, Typed
<1> QED
  BY <1>8, <1>9 DEF Tracked

LEMMA TrackedReceive ==
  ASSUME Typed, Tracked, NEW i \in DOMAIN senders, Receive(i)
  PROVE  Tracked'
<1>1. \A v : ChannelCrawl!Known(v)' = ChannelCrawl!Known(v)
  BY KnownKept DEF Receive
<1>2. \A v \in Url : Fetching(v) <=> Fetching(v)'
  BY ReceiveTyped DEF Fetching, Receive
<1>3. \A v \in Url : Sending(v) <=> Sending(v)' \/ Looping(v)'
  BY ReceiveTyped DEF Sending, Looping, Receive
<1>4. \A v \in Url : ~Looping(v)
  BY DEF Looping, Receive
<1> QED
  BY <1>1, <1>2, <1>3, <1>4 DEF Tracked, AllKnown, NoneLost, Receive, Typed

LEMMA TrackedStep ==
  ASSUME Typed, Tracked, [ChannelNext]_channelVars
  PROVE  Tracked'
<1>1. CASE UNCHANGED channelVars \/ CountDown
  <2>1. \A v : ChannelCrawl!Known(v)' = ChannelCrawl!Known(v)
    BY <1>1, KnownKept DEF channelVars, CountDown
  <2>2. \A v \in Url : /\ Fetching(v)' <=> Fetching(v)
                       /\ Sending(v)' <=> Sending(v)
                       /\ Looping(v)' <=> Looping(v)
    BY <1>1 DEF channelVars, master, CountDown, Fetching, Sending, Looping
  <2>3. fetched' = fetched /\ calls' = calls
    BY <1>1 DEF channelVars, master, CountDown
  <2> QED
    BY <2>1, <2>2, <2>3 DEF Tracked, AllKnown, NoneLost, Typed
<1> QED
  BY <1>1, TrackedVisit, TrackedFetch, TrackedReceive DEF ChannelNext, ChannelTerminated

-----------------------------------------------------------------------------
LEMMA ChannelInvariant == ChannelSpec => []ChannelInv
<1>1. ChannelInit => ChannelInv
  BY TypedInit, CountedInit, SingleInit, TrackedInit DEF ChannelInv
<1>2. ChannelInv /\ [ChannelNext]_channelVars => ChannelInv'
  BY TypedStep, CountedStep, SingleStep, TrackedStep DEF ChannelInv
<1> QED
  BY <1>1, <1>2, PTL DEF ChannelSpec

(* Every variable keeps its type: in particular n never becomes negative.  *)
THEOREM ChannelTypeCorrect == ChannelSpec => []ChannelTypeOK
<1>1. ChannelInv => ChannelTypeOK
  BY OutstandingFinite, FS_CardinalityType DEF ChannelInv, Counted, CountsOutstanding, Typed, ChannelTypeOK
<1> QED
  BY <1>1, ChannelInvariant, PTL

(* Fetch is called at most once with each URL, whatever the order of the   *)
(* answers: the master alone decides, on a map nobody else touches.        *)
THEOREM ChannelFetchesOnce == ChannelSpec => []FetchedOnce
BY ChannelInvariant, PTL DEF ChannelInv, Single

(* n is the number of goroutines that have still to send, and of the slice *)
(* the master is working on.                                               *)
THEOREM CountIsExact == ChannelSpec => []CountsOutstanding
BY ChannelInvariant, PTL DEF ChannelInv, Counted

(* No goroutine is left blocked on the channel when the master has left.   *)
THEOREM LeavesNobody == ChannelSpec => []NobodyLeftBehind
BY ChannelInvariant, PTL DEF ChannelInv, Counted

(* Every step of the channel crawler is a step of the abstract crawl, or   *)
(* none: a worker fetches a page that is known and was not visited, and    *)
(* the master breaks only when every known page was.                       *)
THEOREM ChannelImplements == ChannelSpec => ChannelCrawl!Init /\ [][ChannelCrawl!Next]_(ChannelCrawl!vars)
<1>1. ChannelInit => ChannelCrawl!Init
  BY DEF ChannelInit, ChannelCrawl!Init
<1>2. ASSUME ChannelInv, [ChannelNext]_channelVars
      PROVE  [ChannelCrawl!Next]_(ChannelCrawl!vars)
  <2>1. CASE UNCHANGED channelVars \/ Visit
    BY <2>1 DEF channelVars, master, Visit, ChannelCrawl!vars
  <2>2. ASSUME NEW i \in DOMAIN senders, Receive(i)
        PROVE  UNCHANGED ChannelCrawl!vars
    BY <2>2 DEF Receive, ChannelCrawl!vars
  <2>3. ASSUME NEW i \in DOMAIN senders, WorkerFetch(i)
        PROVE  ChannelCrawl!Visit(senders[i].url) /\ senders[i].url \in Url
    <3> DEFINE u == senders[i].url
    <3>1. u \in Url /\ Fetching(u)
      BY <1>2, <2>3, FetchTyped DEF ChannelInv, WorkerFetch, Fetching
    <3>2. u \in fetched /\ calls[u] = 0
      BY <1>2, <3>1 DEF ChannelInv, Single, OneWorker
    <3>3. ChannelCrawl!Known(u)
      BY <1>2, <3>1, <3>2 DEF ChannelInv, Tracked, AllKnown
    <3>4. pc # "exit" /\ pc' = pc /\ web' = web
      BY <1>2, <2>3 DEF ChannelInv, Counted, NobodyLeftBehind, Outstanding, WorkerFetch, master
    <3>5. calls' = [calls EXCEPT ![u] = 1]
      BY <2>3, <3>2 DEF WorkerFetch
    <3> QED
      BY <3>1, <3>2, <3>3, <3>4, <3>5 DEF ChannelCrawl!Visit
  <2>4. CASE CountDown
    <3>1. CASE n' # 0
      BY <2>4, <3>1 DEF CountDown, ChannelCrawl!vars
    <3>2. CASE n' = 0
      <4>1. pc = "loop" /\ pc' = "exit" /\ web' = web /\ calls' = calls /\ urls = <<>>
        BY <2>4, <3>2 DEF CountDown
      <4>2. Outstanding = {}
        BY <1>2, <2>4, <3>2, <4>1, OutstandingFinite, FS_CardinalityType, FS_EmptySet
        DEF ChannelInv, CountDown, Counted, CountsOutstanding, Typed
      <4>3. \A u \in Url : ~Fetching(u) /\ ~Sending(u) /\ ~Looping(u)
        BY <4>1, <4>2 DEF Fetching, Sending, Looping, Outstanding
      <4>4. \A u \in Url : ChannelCrawl!Known(u) => u \in ChannelCrawl!Visited
        BY <1>2, <4>3 DEF ChannelInv, Tracked, NoneLost, Typed, ChannelCrawl!Visited
      <4> QED
        BY <4>1, <4>4 DEF ChannelCrawl!Next, ChannelCrawl!Return
    <3> QED
      BY <3>1, <3>2
  <2> QED
    BY <1>2, <2>1, <2>2, <2>3, <2>4 DEF ChannelNext, ChannelTerminated, ChannelCrawl!Next
<1> QED
  BY <1>1, <1>2, ChannelInvariant, PTL DEF ChannelSpec
-----------------------------------------------------------------------------
(* What the crawl keeps of the web: its root and the links of its pages    *)
(* are never left (goroutines fetch nothing else), and are all fetched     *)
(* when Crawl has returned. Steps of the abstract crawl keep both.         *)
LEMMA ChannelReachableStep ==
  ASSUME ChannelCrawl!OnlyReachable, [ChannelCrawl!Next]_(ChannelCrawl!vars)
  PROVE  ChannelCrawl!OnlyReachable'
<1> SUFFICES ASSUME NEW S \in SUBSET Url, ChannelCrawl!Closed(S)'
             PROVE  ChannelCrawl!Visited' \subseteq S
  BY DEF ChannelCrawl!OnlyReachable
<1>1. web' = web
  BY DEF ChannelCrawl!Next, ChannelCrawl!Return, ChannelCrawl!Visit, ChannelCrawl!vars
<1>2. ChannelCrawl!Closed(S)
  BY <1>1 DEF ChannelCrawl!Closed, ChannelCrawl!LinksTo
<1>3. ChannelCrawl!Visited \subseteq S
  BY <1>2 DEF ChannelCrawl!OnlyReachable
<1>4. CASE ChannelCrawl!Return \/ UNCHANGED ChannelCrawl!vars
  BY <1>3, <1>4 DEF ChannelCrawl!Return, ChannelCrawl!vars, ChannelCrawl!Visited
<1>5. ASSUME NEW u \in Url, ChannelCrawl!Visit(u) PROVE ChannelCrawl!Visited' \subseteq S
  <2>1. u \in S
    BY <1>2, <1>3, <1>5 DEF ChannelCrawl!Visit, ChannelCrawl!Known, ChannelCrawl!Closed
  <2>2. \A v \in Url : v # u => calls'[v] = calls[v] \/ v \notin DOMAIN calls
    BY <1>5 DEF ChannelCrawl!Visit
  <2> QED
    BY <1>3, <1>5, <2>1, <2>2 DEF ChannelCrawl!Visit, ChannelCrawl!Visited
<1> QED
  BY <1>4, <1>5 DEF ChannelCrawl!Next

LEMMA ChannelCompleteStep ==
  ASSUME ChannelCrawl!CompleteAtReturn, [ChannelCrawl!Next]_(ChannelCrawl!vars)
  PROVE  ChannelCrawl!CompleteAtReturn'
<1> SUFFICES ASSUME (pc = "exit")' PROVE ChannelCrawl!Closed(ChannelCrawl!Visited)'
  BY DEF ChannelCrawl!CompleteAtReturn
<1>1. CASE ChannelCrawl!Return
  <2>1. ChannelCrawl!Closed(ChannelCrawl!Visited)
    BY <1>1, RootIsUrl
    DEF ChannelCrawl!Return, ChannelCrawl!Known, ChannelCrawl!Closed, ChannelCrawl!Visited
  <2> QED
    BY <1>1, <2>1
    DEF ChannelCrawl!Return, ChannelCrawl!Closed, ChannelCrawl!Visited, ChannelCrawl!LinksTo
<1>2. ASSUME NEW u \in Url, ChannelCrawl!Visit(u) PROVE FALSE
  BY <1>2 DEF ChannelCrawl!Visit
<1>3. CASE UNCHANGED ChannelCrawl!vars
  BY <1>3 DEF ChannelCrawl!vars, ChannelCrawl!CompleteAtReturn, ChannelCrawl!Closed, ChannelCrawl!Visited,
              ChannelCrawl!LinksTo
<1> QED
  BY <1>1, <1>2, <1>3 DEF ChannelCrawl!Next

(* master and its workers fetch only pages that hang off the root, and all *)
(* of them before master leaves its loop: it breaks when n is 0, so that   *)
(* no worker is left whose page could have named another (main.go:82-115). *)
THEOREM ChannelFetchesReachable == ChannelSpec => [](ChannelCrawl!OnlyReachable /\ ChannelCrawl!CompleteAtReturn)
<1>1. ChannelCrawl!Init => ChannelCrawl!OnlyReachable /\ ChannelCrawl!CompleteAtReturn
  BY DEF ChannelCrawl!Init, ChannelCrawl!OnlyReachable, ChannelCrawl!CompleteAtReturn, ChannelCrawl!Visited
<1>2. /\ ChannelCrawl!OnlyReachable /\ ChannelCrawl!CompleteAtReturn
      /\ [ChannelCrawl!Next]_(ChannelCrawl!vars)
      => ChannelCrawl!OnlyReachable' /\ ChannelCrawl!CompleteAtReturn'
  BY ChannelReachableStep, ChannelCompleteStep
<1> QED
  BY <1>1, <1>2, ChannelImplements, PTL
=============================================================================
