------------------------------ MODULE GoChannels ------------------------------
(***************************************************************************)
(* The channel programs of language/go/goroutine: 2.go adds up two halves  *)
(* of a slice, 4.go sends Fibonacci numbers through a buffered channel and *)
(* closes it, 5.go sends them through an unbuffered one until it is told   *)
(* to quit on another.                                                     *)
(***************************************************************************)
EXTENDS Integers, Sequences, SequencesExt

CONSTANTS Cap         \* the capacity of the channel of 4.go, and how many
                      \* numbers both programs receive: 10 in the code

VARIABLES prog,       \* the program
          buf,        \* the buffer of c
          closed,     \* c is closed
          pair,       \* x and y
          i,          \* the turns of the producer's loop
          halves,     \* the halves whose sums were sent
          got,        \* what was received
          ended       \* main has returned

goVars == <<prog, buf, closed, pair, i, halves, got, ended>>

Programs == {"2.go", "4.go", "5.go"}

TypeOK == /\ prog \in Programs
          /\ buf \in Seq(Nat) /\ Len(buf) <= Cap
          /\ closed \in BOOLEAN
          /\ pair \in Nat \X Nat
          /\ i \in 0..Cap
          /\ halves \subseteq {1, 2}
          /\ got \in Seq(Int)
          /\ ended \in BOOLEAN

Init == /\ prog \in Programs
        /\ buf = <<>> /\ closed = FALSE
        /\ pair = <<0, 1>>
        /\ i = 0 /\ halves = {}
        /\ got = <<>>
        /\ ended = FALSE

(* What 2.go adds up. *)
Slice == <<7, 2, 8, -9, 4, 0>>

(* 2.go: sum(s[:len(s)/2], c) and sum(s[len(s)/2:], c). A send on the      *)
(* unbuffered channel is a receive of main.                                *)
Half(h) == LET m == Len(Slice) \div 2
           IN IF h = 1 THEN SubSeq(Slice, 1, m) ELSE SubSeq(Slice, m + 1, Len(Slice))

Total(s) == FoldLeft(LAMBDA a, b : a + b, 0, s)

(* Mutant: a goroutine is started for the first half twice. *)
SendSum_FirstHalf(h) ==
  /\ prog = "2.go"
  /\ h \notin halves
  /\ Len(got) < 2
  /\ halves' = halves \cup {h}
  /\ got' = Append(got, Total(Half(1)))
  /\ UNCHANGED <<prog, buf, closed, pair, i, ended>>

SendSum(h) == /\ prog = "2.go"
              /\ h \notin halves
              /\ Len(got) < 2
              /\ halves' = halves \cup {h}
              /\ got' = Append(got, Total(Half(h)))
              /\ UNCHANGED <<prog, buf, closed, pair, i, ended>>

SumsPrinted == /\ prog = "2.go" /\ ~ended
               /\ Len(got) = 2
               /\ ended' = TRUE
               /\ UNCHANGED <<prog, buf, closed, pair, i, halves, got>>

(* x, y = y, x+y *)
NextPair == pair' = <<pair[2], pair[1] + pair[2]>>

(* 4.go: the i-th turn of the loop blocks while the buffer is full. *)
Send == /\ prog = "4.go" /\ ~closed
        /\ i < Cap
        /\ Len(buf) < Cap
        /\ buf' = Append(buf, pair[1])
        /\ i' = i + 1
        /\ NextPair
        /\ UNCHANGED <<prog, closed, halves, got, ended>>

(* Mutant: the channel is not closed. *)
Close_Never == /\ prog = "4.go" /\ ~closed
               /\ i = Cap
               /\ UNCHANGED goVars

Close == /\ prog = "4.go" /\ ~closed
         /\ i = Cap
         /\ closed' = TRUE
         /\ UNCHANGED <<prog, buf, pair, i, halves, got, ended>>

(* for i := range c *)
Receive == /\ prog = "4.go" /\ ~ended
           /\ buf # <<>>
           /\ got' = Append(got, Head(buf))
           /\ buf' = Tail(buf)
           /\ UNCHANGED <<prog, closed, pair, i, halves, ended>>

RangeEnds == /\ prog = "4.go" /\ ~ended
             /\ buf = <<>> /\ closed
             /\ ended' = TRUE
             /\ UNCHANGED <<prog, buf, closed, pair, i, halves, got>>

(* 5.go: select takes the send, which the other goroutine receives, or     *)
(* that goroutine's send on quit, after which main returns.                *)
SelectSend == /\ prog = "5.go" /\ ~ended
              /\ Len(got) < Cap
              /\ got' = Append(got, pair[1])
              /\ NextPair
              /\ UNCHANGED <<prog, buf, closed, i, halves, ended>>

SelectQuit == /\ prog = "5.go" /\ ~ended
              /\ Len(got) = Cap
              /\ ended' = TRUE
              /\ UNCHANGED <<prog, buf, closed, pair, i, halves, got>>

Next == \/ \E h \in {1, 2} : SendSum(h)
        \/ SumsPrinted \/ Send \/ Close \/ Receive \/ RangeEnds \/ SelectSend \/ SelectQuit

-----------------------------------------------------------------------------
Fib[n \in Nat] == IF n < 2 THEN n ELSE Fib[n - 1] + Fib[n - 2]

(* The receiver gets the numbers in order, none lost or twice, although    *)
(* sender and receiver run apart, and all of them by the time main         *)
(* returns; the two sums add up to the slice in whatever order they come.  *)
Delivered ==
  IF prog = "2.go"
    THEN ended => got[1] + got[2] = Total(Slice)
    ELSE /\ got = [k \in DOMAIN got |-> Fib[k - 1]]
         /\ ended => Len(got) = Cap /\ buf = <<>>

(* main returns. *)
Returns == <>ended
=============================================================================
