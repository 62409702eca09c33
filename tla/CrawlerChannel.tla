--------------------------- MODULE CrawlerChannel ---------------------------
(***************************************************************************)
(* ConcurrentChannel of ds/6.824/code/crawler/main.go: a master that owns  *)
(* the map of fetched URLs and a counter n, and one worker goroutine per   *)
(* URL; a worker sends the links of its page over an unbuffered channel.   *)
(***************************************************************************)
EXTENDS Integers, FiniteSets, Web

VARIABLES pc,       \* of the master: "recv", "loop" or "exit"
          n,        \* the master's n
          fetched,  \* the master's fetched
          urls,     \* what is left of the slice the master iterates over
          senders   \* the goroutines started so far, in order

master == <<pc, n, fetched, urls>>
channelVars == <<web, calls, master, senders>>

(* A goroutine fetches a URL or waits to send the slice urls; the first    *)
(* one is the literal of lines 111-113, which only sends.                  *)
Sender == [pc : {"fetch", "send", "exit"}, url : Url, urls : Seq(Url)]

Worker(u) == [pc |-> "fetch", url |-> u, urls |-> <<>>]

ChannelTypeOK == /\ web \in Webs
                 /\ calls \in [Url -> Nat]
                 /\ pc \in {"recv", "loop", "exit"}
                 /\ n \in Nat
                 /\ fetched \subseteq Url
                 /\ urls \in Seq(Url)
                 /\ senders \in Seq(Sender)

ChannelInit == /\ web \in Webs
               /\ calls = [u \in Url |-> 0]
               /\ pc = "recv"
               /\ n = 1
               /\ fetched = {}
               /\ urls = <<>>
               /\ senders = <<[pc |-> "send", url |-> Root, urls |-> <<Root>>]>>

(* worker, lines 83-88: an error is answered with an empty slice. *)
WorkerFetch(i) ==
  /\ senders[i].pc = "fetch"
  /\ LET u == senders[i].url
     IN /\ calls' = [calls EXCEPT ![u] = @ + 1]
        /\ senders' = [senders EXCEPT ![i].pc = "send",
                                      ![i].urls = IF u \in DOMAIN web THEN web[u] ELSE <<>>]
  /\ UNCHANGED <<web, master>>

(* A sender and the master's range over ch meet (lines 85, 87, 112, 94). *)
Receive(i) ==
  /\ senders[i].pc = "send"
  /\ pc = "recv"
  /\ pc' = "loop"
  /\ urls' = senders[i].urls
  /\ senders' = [senders EXCEPT ![i].pc = "exit"]
  /\ UNCHANGED <<web, calls, n, fetched>>

(* Mutant: URLs that were seen before are fetched again. *)
Visit_Refetch ==
  /\ pc = "loop"
  /\ urls # <<>>
  /\ urls' = Tail(urls)
  /\ fetched' = fetched \cup {Head(urls)}
  /\ n' = n + 1
  /\ senders' = Append(senders, Worker(Head(urls)))
  /\ UNCHANGED <<web, calls, pc>>

(* Mutant: n counts down for every URL seen before. *)
Visit_CountsSeen ==
  /\ pc = "loop"
  /\ urls # <<>>
  /\ urls' = Tail(urls)
  /\ \/ /\ Head(urls) \in fetched
        /\ n' = n - 1
        /\ UNCHANGED <<fetched, senders>>
     \/ /\ Head(urls) \notin fetched
        /\ fetched' = fetched \cup {Head(urls)}
        /\ n' = n + 1
        /\ senders' = Append(senders, Worker(Head(urls)))
  /\ UNCHANGED <<web, calls, pc>>

(* One turn of the loop over urls (lines 95-101). *)
Visit ==
  /\ pc = "loop"
  /\ urls # <<>>
  /\ urls' = Tail(urls)
  /\ \/ /\ Head(urls) \in fetched
        /\ UNCHANGED <<n, fetched, senders>>
     \/ /\ Head(urls) \notin fetched
        /\ fetched' = fetched \cup {Head(urls)}
        /\ n' = n + 1
        /\ senders' = Append(senders, Worker(Head(urls)))
  /\ UNCHANGED <<web, calls, pc>>

(* Mutant: the master forgets that the slice itself was counted. *)
CountDown_Never ==
  /\ pc = "loop"
  /\ urls = <<>>
  /\ pc' = IF n = 1 THEN "exit" ELSE "recv"
  /\ UNCHANGED <<web, calls, n, fetched, urls, senders>>

(* Mutant: the master breaks one answer too early. *)
CountDown_Early ==
  /\ pc = "loop"
  /\ urls = <<>>
  /\ n' = n - 1
  /\ pc' = IF n' <= 1 THEN "exit" ELSE "recv"
  /\ UNCHANGED <<web, calls, fetched, urls, senders>>

(* Mutant: the rest of the slice is dropped. *)
CountDown_DropsRest ==
  /\ pc = "loop"
  /\ urls' = <<>>
  /\ n' = n - 1
  /\ pc' = IF n' = 0 THEN "exit" ELSE "recv"
  /\ UNCHANGED <<web, calls, fetched, senders>>

(* The slice is exhausted: n -= 1, and break when nobody is left. *)
CountDown ==
  /\ pc = "loop"
  /\ urls = <<>>
  /\ n' = n - 1
  /\ pc' = IF n' = 0 THEN "exit" ELSE "recv"
  /\ UNCHANGED <<web, calls, fetched, urls, senders>>

Outstanding == {i \in DOMAIN senders : senders[i].pc # "exit"}

(* The crawl is over: TLC takes any other standstill for a deadlock. *)
ChannelTerminated == pc = "exit" /\ Outstanding = {} /\ UNCHANGED channelVars

ChannelNext == \/ ChannelTerminated
               \/ Visit
               \/ CountDown
               \/ \E i \in DOMAIN senders : WorkerFetch(i) \/ Receive(i)

(* The Go scheduler lets some runnable goroutine run. *)
ChannelSpec == ChannelInit /\ [][ChannelNext]_channelVars /\ WF_channelVars(ChannelNext)

-----------------------------------------------------------------------------
(* The master's n counts the goroutines that have still to send, and the   *)
(* slice it is working on (lines 92-105).                                  *)
CountsOutstanding ==
  n = Cardinality(Outstanding) + (IF pc = "loop" THEN 1 ELSE 0)

(* The master leaves its loop only when every goroutine has delivered its  *)
(* slice: none is left blocked on a channel that nobody receives from.     *)
NobodyLeftBehind == pc = "exit" => Outstanding = {}

(* ConcurrentChannel implements the crawl. *)
ChannelCrawl == INSTANCE Crawl WITH returned <- (pc = "exit")

ChannelImplementsCrawl == ChannelCrawl!Spec
=============================================================================
