------------------------ MODULE SmallProgramsProofs -------------------------
(***************************************************************************)
(* Proofs about the small concurrent programs, for every number of         *)
(* threads, goroutines, workers, directories and files, and every length   *)
(* of the loops and channels: each program has an inductive invariant of   *)
(* its own (CVInv, SCInv, TLInv, CCInv, GCInv) with three lemmas: it holds *)
(* initially, while the program idles, and after each of its steps. Inv is *)
(* all five; it implies TypeOK and Safe.                                   *)
(***************************************************************************)
EXTENDS SmallPrograms, FiniteSetTheorems, NaturalsInduction, SequenceTheorems, TLAPS

(* The instances have a cardinality of their own. *)
LEMMA SameCardinality == \A S : CV!Cardinality(S) = Cardinality(S) /\ SC!Cardinality(S) = Cardinality(S)
BY DEF Cardinality, CV!Cardinality, SC!Cardinality

(* One more element of a finite set has a property, or none more. *)
LEMMA OneMore ==
  ASSUME NEW S, IsFiniteSet(S), NEW A \in SUBSET S, NEW x \in S \ A
  PROVE  /\ Cardinality(A \cup {x}) = Cardinality(A) + 1
         /\ Cardinality(A) \in Nat /\ Cardinality(S) \in Nat
         /\ Cardinality(A) + 1 <= Cardinality(S)
<1>1. IsFiniteSet(A) /\ IsFiniteSet(A \cup {x}) /\ A \cup {x} \subseteq S
  BY FS_Subset
<1> QED
  BY <1>1, FS_AddElement, FS_CardinalityType, FS_Subset

(* A part of a finite set has no more elements than all of it. *)
LEMMA PartCounted ==
  ASSUME NEW S, IsFiniteSet(S), NEW A \in SUBSET S
  PROVE  Cardinality(A) \in Nat /\ Cardinality(A) <= Cardinality(S) /\ Cardinality(S) \in Nat
BY FS_Subset, FS_CardinalityType

-----------------------------------------------------------------------------
(* cv.cpp. What the permits amount to is inductive as it stands. *)
CVInv == CV!TypeOK /\ CV!PermitsTaken

LEMMA CVInit == CV!Init => CVInv
<1> SUFFICES ASSUME CV!Init PROVE CVInv
  OBVIOUS
<1>1. CV!Passed = {}
  BY DEF CV!Init, CV!Passed
<1> QED
  BY <1>1, FS_EmptySet, SameCardinality, PermitsNat DEF CVInv, CV!Init, CV!TypeOK, CV!PermitsTaken

LEMMA CVIdle == CVInv /\ UNCHANGED cvVars => CVInv'
BY DEF CVInv, cvVars, CV!TypeOK, CV!PermitsTaken, CV!Passed

LEMMA CVStep == CVInv /\ CV!Next => CVInv'
<1> SUFFICES ASSUME CVInv, CV!Next PROVE CVInv'
  OBVIOUS
<1> USE PermitsNat
<1>0. CV!TypeOK /\ CV!PermitsTaken /\ CV!Passed \in SUBSET Thread /\ Cardinality(CV!Passed) \in Nat
  BY ThreadsFinite, PartCounted DEF CVInv, CV!Passed
<1>1. CASE \E t \in Thread : CV!Take(t)
  <2>1. PICK t \in Thread : CV!Take(t)
    BY <1>1
  <2>2. CV!TypeOK'
    BY <1>0, <2>1 DEF CV!TypeOK, CV!Take, CV!Move
  <2>3. CV!Passed' = CV!Passed \cup {t} /\ t \notin CV!Passed
    BY <1>0, <2>1 DEF CV!TypeOK, CV!Take, CV!Move, CV!Passed
  <2>4. Cardinality(CV!Passed') = Cardinality(CV!Passed) + 1
    BY <1>0, <2>3, ThreadsFinite, OneMore
  <2>5. ready \in Nat /\ ready' = ready - 1 /\ waker' = waker
    BY <1>0, <2>1 DEF CV!TypeOK, CV!Take
  <2> QED
    BY <1>0, <2>2, <2>3, <2>4, <2>5, SameCardinality DEF CVInv, CV!PermitsTaken, CV!TypeOK
<1>2. CASE CV!GoSet
  <2>1. CV!Passed' = CV!Passed /\ ready \in Nat
    BY <1>0, <1>2 DEF CV!GoSet, CV!Passed, CV!TypeOK
  <2>2. ready = 0 /\ Cardinality(CV!Passed) = 0
    BY <1>0, <1>2, <2>1, SameCardinality DEF CV!PermitsTaken, CV!GoSet
  <2>3. CV!TypeOK'
    BY <1>0, <1>2 DEF CV!TypeOK, CV!GoSet
  <2> QED
    BY <1>2, <2>1, <2>2, <2>3, SameCardinality DEF CVInv, CV!PermitsTaken, CV!GoSet
<1>3. CASE CV!Join
  <2>1. CV!Passed' = CV!Passed /\ CV!Passed' = Thread /\ ready' = ready
    BY <1>3 DEF CV!Join, CV!Passed
  <2> QED
    BY <1>0, <1>3, <2>1 DEF CVInv, CV!TypeOK, CV!PermitsTaken, CV!Join
<1>4. ASSUME \/ CV!GoLock \/ CV!NotifyAll \/ CV!GoUnlock
             \/ \E t \in Thread : CV!Spawn(t) \/ CV!Wait(t) \/ CV!Leave(t) \/ CV!Acquire(t)
                                  \/ CV!WakeUp(t)
      PROVE  CVInv'
  <2>1. CV!TypeOK' /\ ready' = ready
    BY <1>0, <1>4 DEF CV!TypeOK, CV!GoLock, CV!NotifyAll, CV!GoUnlock, CV!Spawn, CV!Wait,
         CV!Leave, CV!Acquire, CV!WakeUp, CV!Move
  <2>2. CV!Passed' = CV!Passed
    BY <1>0, <1>4 DEF CV!TypeOK, CV!GoLock, CV!NotifyAll, CV!GoUnlock, CV!Spawn, CV!Wait,
         CV!Leave, CV!Acquire, CV!WakeUp, CV!Move, CV!Passed
  <2>3. /\ waker' = "exit" => waker = "exit"
        /\ waker' \in {"spawn", "set"} <=> waker \in {"spawn", "set"}
    BY <1>0, <1>4 DEF CV!TypeOK, CV!GoLock, CV!NotifyAll, CV!GoUnlock, CV!Spawn, CV!Wait,
         CV!Leave, CV!Acquire, CV!WakeUp, CV!Move
  <2> QED
    BY <1>0, <2>1, <2>2, <2>3 DEF CVInv, CV!PermitsTaken
<1> QED
  BY <1>1, <1>2, <1>3, <1>4 DEF CV!Next, CV!Main, CV!Step

-----------------------------------------------------------------------------
(* safe_counter.go. c.mux admits one at a time, so what Inc has read is    *)
(* still the counter when it writes.                                       *)
Stored == {g \in Counting : inc[g] \in {"unlock", "exit"}}
Within(g) == inc[g] \in {"load", "store", "unlock"}
Reads == printer \in {"load", "unlock"}

SCInv == /\ SC!TypeOK /\ SC!NoIncLost
         /\ \A g, h \in Counting : Within(g) /\ Within(h) => g = h
         /\ (Reads \/ \E g \in Counting : Within(g)) => counterMu
         /\ Reads => \A g \in Counting : ~Within(g)
         /\ \A g \in Counting : inc[g] = "store" => seenByInc[g] = counter

LEMMA SCInit == SC!Init => SCInv
<1> SUFFICES ASSUME SC!Init PROVE SCInv
  OBVIOUS
<1>1. /\ {g \in Counting : inc[g] \in {"unlock", "exit"}} = {}
      /\ SC!Cardinality(Counting) \in Nat /\ SC!Cardinality({}) = 0
  BY ThreadsFinite, FS_CardinalityType, FS_EmptySet, SameCardinality DEF SC!Init
<1>2. SC!TypeOK
  <2> DEFINE n == SC!Cardinality(Counting)
  <2>1. n \in Nat
    BY <1>1
  <2> HIDE DEF n
  <2>2. {counter, printed} \subseteq 0..n /\ seenByInc \in [Counting -> 0..n]
    BY <2>1 DEF SC!Init
  <2> QED
    BY <2>2 DEF SC!Init, SC!TypeOK, n
<1>3. SC!NoIncLost
  BY <1>1 DEF SC!Init, SC!NoIncLost
<1> QED
  BY <1>2, <1>3 DEF SCInv, SC!Init, Within, Reads

LEMMA SCIdle == SCInv /\ UNCHANGED counterVars => SCInv'
BY DEF SCInv, counterVars, SC!TypeOK, SC!NoIncLost, Within, Reads

LEMMA SCStep == SCInv /\ SC!Next => SCInv'
<1> SUFFICES ASSUME SCInv, SC!Next PROVE SCInv'
  OBVIOUS
<1>0. /\ SC!TypeOK /\ counter = Cardinality(Stored) /\ (printer = "unlock" => printed = counter)
      /\ Stored \in SUBSET Counting /\ Cardinality(Counting) \in Nat
      /\ (SC!TypeOK' /\ counter' = Cardinality(Stored') /\ (printer' = "unlock" => printed' = counter')
            => SC!TypeOK' /\ SC!NoIncLost')
  BY ThreadsFinite, FS_CardinalityType, SameCardinality DEF SCInv, SC!NoIncLost, Stored
<1>1. CASE \E g \in Counting : SC!Store(g)
  <2>1. PICK g \in Counting : SC!Store(g)
    BY <1>1
  <2>2. Stored' = Stored \cup {g} /\ g \notin Stored
    BY <1>0, <2>1 DEF SC!TypeOK, SC!Store, SC!Move, Stored
  <2>3. /\ Cardinality(Stored') = counter + 1 /\ counter + 1 <= Cardinality(Counting)
        /\ counter \in Nat
    BY <1>0, <2>2, ThreadsFinite, OneMore
  <2>4. counter' = counter + 1 /\ ~Reads /\ printer' = printer /\ printed' = printed
    BY <2>1 DEF SCInv, SC!Store, SC!Move, Within
  <2>5. SC!TypeOK'
    BY <1>0, <2>1, <2>3, <2>4, SameCardinality DEF SC!TypeOK, SC!Store, SC!Move
  <2> QED
    BY <1>0, <2>1, <2>3, <2>4, <2>5 DEF SCInv, SC!Store, SC!Move, SC!TypeOK, Within, Reads
<1>2. CASE \E g \in Counting : SC!Go(g) \/ SC!Lock(g) \/ SC!Load(g) \/ SC!Unlock(g)
  <2>1. PICK g \in Counting : SC!Go(g) \/ SC!Lock(g) \/ SC!Load(g) \/ SC!Unlock(g)
    BY <1>2
  <2>2. Stored' = Stored /\ counter' = counter /\ printer' = printer /\ printed' = printed
    BY <1>0, <2>1 DEF SC!TypeOK, SC!Go, SC!Lock, SC!Load, SC!Unlock, SC!Move, Stored
  <2>3. SC!TypeOK'
    BY <1>0, <2>1 DEF SC!TypeOK, SC!Go, SC!Lock, SC!Load, SC!Unlock, SC!Move
  <2>4. /\ \A h \in Counting \ {g} : inc'[h] = inc[h] /\ seenByInc'[h] = seenByInc[h]
        /\ g \in DOMAIN inc /\ g \in DOMAIN seenByInc
    BY <1>0, <2>1 DEF SC!TypeOK, SC!Go, SC!Lock, SC!Load, SC!Unlock, SC!Move
  <2>5. CASE SC!Lock(g)
    BY <1>0, <2>2, <2>3, <2>4, <2>5 DEF SCInv, SC!Lock, SC!Move, Within, Reads
  <2>6. CASE SC!Unlock(g)
    BY <1>0, <2>2, <2>3, <2>4, <2>6 DEF SCInv, SC!Unlock, SC!Move, Within, Reads
  <2>7. CASE SC!Go(g) \/ SC!Load(g)
    BY <1>0, <2>2, <2>3, <2>4, <2>7 DEF SCInv, SC!Go, SC!Load, SC!Move, Within, Reads
  <2> QED
    BY <2>1, <2>5, <2>6, <2>7
<1>3. CASE SC!ValueLock \/ SC!ValueLoad \/ SC!ValueUnlock
  <2>1. Stored' = Stored
    BY <1>3 DEF SC!ValueLock, SC!ValueLoad, SC!ValueUnlock, Stored
  <2>2. SC!TypeOK'
    BY <1>0, <1>3 DEF SC!TypeOK, SC!ValueLock, SC!ValueLoad, SC!ValueUnlock
  <2> QED
    BY <1>0, <1>3, <2>1, <2>2 DEF SCInv, SC!ValueLock, SC!ValueLoad, SC!ValueUnlock, Within, Reads
<1> QED
  BY <1>1, <1>2, <1>3 DEF SC!Next, SC!Inc, SC!Main

-----------------------------------------------------------------------------
(* thread.cpp. A thread that was started at a line has Rounds to go, less  *)
(* what its variable has grown by; t2 to t6 and g are handles from the     *)
(* line after their start to that of their join.                           *)
StartedAt(f) == IF f = "f1" THEN 58 ELSE IF f = "f2" THEN 60 ELSE IF f = "gg" THEN 61
                ELSE IF f = "foo::bar" THEN 65 ELSE 66
JoinedAt(f) == IF f = "f1" THEN 67 ELSE IF f = "f2" THEN 68 ELSE IF f = "gg" THEN 71
               ELSE IF f = "foo::bar" THEN 69 ELSE 70
HandleOf(f, at) == IF f = "f1" THEN "t2" ELSE IF f = "f2" THEN (IF at <= 63 THEN "t3" ELSE "t4")
                   ELSE IF f = "gg" THEN "g" ELSE IF f = "foo::bar" THEN "t5" ELSE "t6"
Counted(f) == IF f = "f1" THEN "f1's n" ELSE IF f = "f2" THEN "n"
              ELSE IF f = "foo::bar" THEN "f.n" ELSE "copy of b.n"
Final(f) == IF f = "f1" THEN Rounds + 1 ELSE Rounds
Counters == TL!Function \ {"gg"}

TLHandles ==
  /\ DOMAIN handles = {HandleOf(f, line) : f \in {g \in DOMAIN left : line <= JoinedAt(g)}}
  /\ \A f \in DOMAIN left : line <= JoinedAt(f) => handles[HandleOf(f, line)] = f
  /\ \A f \in DOMAIN left : line > JoinedAt(f) => left[f] = 0

TLCounts ==
  /\ \A f \in Counters \cap DOMAIN left : mem[Counted(f)] + left[f] = Final(f)
  /\ \A f \in Counters \ DOMAIN left : f # "f1" => mem[Counted(f)] = 0
  /\ mem["b.n"] = 0
  /\ \A f \in DOMAIN loaded : f \in Counters /\ loaded[f] = mem[Counted(f)]

TLInv ==
  /\ TL!TypeOK
  /\ line \in {58, 60, 61, 63, 65, 66, 67, 68, 69, 70, 71, 72, 75}
  /\ DOMAIN left = {f \in TL!Function : StartedAt(f) < line}
  /\ TLHandles
  /\ TLCounts

(* Each thread counts in a variable that no other thread counts in. *)
LEMMA CountsAre ==
  \A f \in TL!Function : TL!Counts(f) = IF f = "gg" THEN {} ELSE {Counted(f)}
<1>1. /\ TL!Counts("f1") = {"f1's n"} /\ TL!Counts("f2") = {"n"} /\ TL!Counts("gg") = {}
      /\ TL!Counts("foo::bar") = {"f.n"} /\ TL!Counts("baz") = {"copy of b.n"}
  BY Zenon DEF TL!Counts
<1> QED
  BY <1>1 DEF TL!Function, Counted

LEMMA TLInit == TL!Init => TLInv
<1> SUFFICES ASSUME TL!Init PROVE TLInv
  OBVIOUS
<1>1. /\ DOMAIN handles = {} /\ DOMAIN left = {} /\ DOMAIN loaded = {} /\ line = 58
      /\ handles = [h \in DOMAIN handles |-> handles[h]] /\ left = [h \in DOMAIN left |-> left[h]]
      /\ mem = [v \in TL!Variable |-> 0]
  BY DEF TL!Init
<1>2. handles \in [DOMAIN handles -> TL!Function] /\ left \in [DOMAIN left -> 0..Rounds]
  BY <1>1
<1>3. TL!TypeOK
  BY <1>1, <1>2, RoundsNat DEF TL!TypeOK
<1>4. \A f \in TL!Function : ~(StartedAt(f) < line)
  BY <1>1 DEF StartedAt, TL!Function
<1>5. \A v \in TL!Variable : mem[v] = 0
  BY <1>1
<1>6. \A f \in Counters : Counted(f) \in TL!Variable
  BY DEF Counters, Counted, TL!Function, TL!Variable
<1>7. TLHandles
  BY <1>1 DEF TLHandles
<1>8. TLCounts
  BY <1>1, <1>5, <1>6 DEF TLCounts, TL!Variable
<1> QED
  BY <1>1, <1>3, <1>4, <1>7, <1>8 DEF TLInv

LEMMA TLIdle == TLInv /\ UNCHANGED threadVars => TLInv'
<1> SUFFICES ASSUME TLInv, UNCHANGED threadVars PROVE TLInv'
  OBVIOUS
<1>1. /\ mem' = mem /\ handles' = handles /\ left' = left /\ loaded' = loaded /\ line' = line
  BY DEF threadVars
<1>2. TL!TypeOK'
  BY <1>1 DEF TLInv, TL!TypeOK
<1>3. TLHandles'
  BY <1>1 DEF TLInv, TLHandles
<1>4. TLCounts'
  BY <1>1 DEF TLInv, TLCounts
<1> QED
  BY <1>1, <1>2, <1>3, <1>4 DEF TLInv

Values == 0..(2 * Rounds + 1)

Lines == {58, 60, 61, 63, 65, 66, 67, 68, 69, 70, 71, 72, 75}

StartsHere(h, f, next) ==
  <<line, h, f, next>> \in {<<58, "t2", "f1", 60>>, <<60, "t3", "f2", 61>>,
                            <<61, "g", "gg", 63>>, <<65, "t5", "foo::bar", 66>>,
                            <<66, "t6", "baz", 67>>}

(* Each statement that starts a thread. *)
LEMMA TLStart ==
  ASSUME TLInv, NEW f, NEW h, NEW next, TL!Start(line, h, f, next), StartsHere(h, f, next)
  PROVE  TLInv'
<1>1. /\ f \in TL!Function /\ h \in TL!Handle /\ h = HandleOf(f, next) /\ next \in Lines
      /\ ~(StartedAt(f) < line) /\ Rounds \in Nat
  BY RoundsNat DEF StartsHere, TL!Function, TL!Handle, HandleOf, StartedAt, Lines
<1>2. \A g \in TL!Function :
        /\ StartedAt(g) < next <=> StartedAt(g) < line \/ g = f
        /\ next <= JoinedAt(g) /\ line <= JoinedAt(g)
        /\ g # f => HandleOf(g, next) # h
        /\ StartedAt(g) < line => HandleOf(g, next) = HandleOf(g, line)
  BY DEF StartsHere, TL!Function, HandleOf, StartedAt, JoinedAt
<1>3. /\ TL!TypeOK /\ TLHandles /\ TLCounts /\ DOMAIN left = {g \in TL!Function : StartedAt(g) < line}
      /\ f \notin DOMAIN left
  BY <1>1 DEF TLInv
<1>4. /\ handles' = TL!With(handles, h, f) /\ left' = TL!With(left, f, Rounds)
      /\ loaded' = loaded /\ line' = next
      /\ f = "f1" => mem' = [mem EXCEPT !["f1's n"] = mem["n"] + 1]
      /\ f = "baz" => mem' = [mem EXCEPT !["copy of b.n"] = mem["b.n"]]
      /\ f \notin {"f1", "baz"} => mem' = mem
  BY Zenon DEF TL!Start
<1>5. /\ DOMAIN left' = DOMAIN left \cup {f} /\ left'[f] = Rounds
      /\ \A g \in DOMAIN left : left'[g] = left[g]
      /\ left' \in [DOMAIN left' -> 0..Rounds]
  <2>1. left \in [DOMAIN left -> 0..Rounds] /\ Rounds \in 0..Rounds
    BY <1>1, <1>3 DEF TL!TypeOK
  <2>2. left' = [z \in DOMAIN left \cup {f} |-> IF z = f THEN Rounds ELSE left[z]]
    BY <1>4 DEF TL!With
  <2>3. f \notin DOMAIN left
    BY <1>3
  <2> QED
    BY <2>1, <2>2, <2>3
<1>6. /\ DOMAIN handles' = DOMAIN handles \cup {h} /\ handles'[h] = f
      /\ \A k \in DOMAIN handles \ {h} : handles'[k] = handles[k]
      /\ handles' \in [DOMAIN handles' -> TL!Function]
  <2>1. handles \in [DOMAIN handles -> TL!Function] /\ f \in TL!Function
    BY <1>1, <1>3 DEF TL!TypeOK
  <2>2. handles' = [z \in DOMAIN handles \cup {h} |-> IF z = h THEN f ELSE handles[z]]
    BY <1>4 DEF TL!With
  <2> QED
    BY <2>1, <2>2
<1>7. /\ mem' \in [TL!Variable -> Values] /\ mem'["b.n"] = 0
      /\ \A g \in Counters \ {f} : mem'[Counted(g)] = mem[Counted(g)]
      /\ f \in Counters => mem'[Counted(f)] + Rounds = Final(f)
  <2>1. mem["b.n"] = 0 /\ (f \in Counters /\ f # "f1" => mem[Counted(f)] = 0)
    BY <1>3 DEF TLCounts
  <2>2. 0 \in Values /\ 1 \in Values
    BY <1>1 DEF Values
  <2>3. mem \in [TL!Variable -> Values]
    BY <1>3 DEF TL!TypeOK, Values
  <2>4. \A g \in Counters : Counted(g) \in TL!Variable \ {"b.n"}
    BY DEF Counters, TL!Function, Counted, TL!Variable
  <2>5. \A g, k \in Counters : Counted(g) = Counted(k) => g = k
    BY DEF Counters, TL!Function, Counted
  <2>6. CASE f = "f1"
    <3>1. "f2" \in Counters /\ "f2" \notin DOMAIN left /\ Counted("f2") = "n"
      <4>1. line \in Lines /\ ~(58 < line)
        BY <1>1, <2>6 DEF TLInv, Lines, StartedAt
      <4>2. ~(60 < line) /\ StartedAt("f2") = 60
        BY <4>1 DEF Lines, StartedAt
      <4> QED
        BY <1>3, <4>2 DEF Counters, TL!Function, Counted
    <3>2. mem["n"] = 0
      BY <1>3, <3>1 DEF TLCounts
    <3>3. mem' = [mem EXCEPT !["f1's n"] = 1] /\ Counted(f) = "f1's n" /\ f \in Counters
      <4>1. mem["n"] + 1 = 1
        BY <3>2
      <4> QED
        BY <1>1, <1>4, <2>6, <4>1 DEF Counted, Counters
    <3>4. mem' \in [TL!Variable -> Values] /\ mem'[Counted(f)] = 1
          /\ \A v \in TL!Variable \ {Counted(f)} : mem'[v] = mem[v]
      BY <2>2, <2>3, <2>4, <3>3
    <3>5. 1 + Rounds = Final(f)
      BY <1>1, <2>6 DEF Final
    <3>6. "b.n" \in TL!Variable
      BY DEF TL!Variable
    <3> QED
      BY <2>1, <2>4, <2>5, <3>3, <3>4, <3>5, <3>6
  <2>7. CASE f = "baz"
    <3>1. mem' = [mem EXCEPT !["copy of b.n"] = 0] /\ Counted(f) = "copy of b.n" /\ f \in Counters
      BY <1>1, <1>4, <2>1, <2>7 DEF Counted, Counters
    <3>2. mem' \in [TL!Variable -> Values] /\ mem'[Counted(f)] = 0
          /\ \A v \in TL!Variable \ {Counted(f)} : mem'[v] = mem[v]
      BY <2>2, <2>3, <2>4, <3>1
    <3>3. 0 + Rounds = Final(f)
      BY <1>1, <2>7 DEF Final
    <3>4. "b.n" \in TL!Variable
      BY DEF TL!Variable
    <3> QED
      BY <2>1, <2>4, <2>5, <3>1, <3>2, <3>3, <3>4
  <2>8. CASE f \notin {"f1", "baz"}
    <3>1. mem' = mem
      BY <1>4, <2>8
    <3>2. 0 + Rounds = Final(f)
      BY <1>1, <2>8 DEF Final
    <3> QED
      BY <2>1, <2>3, <2>8, <3>1, <3>2
  <2> QED
    BY <2>6, <2>7, <2>8
<1>8. TL!TypeOK'
  <2>1. next \in 58..75
    BY <1>1 DEF Lines
  <2>2. DOMAIN left' \subseteq TL!Function /\ DOMAIN handles' \subseteq TL!Handle
        /\ DOMAIN loaded' \subseteq DOMAIN left'
    BY <1>1, <1>3, <1>4, <1>5, <1>6 DEF TL!TypeOK
  <2> QED
    BY <1>4, <1>5, <1>6, <1>7, <2>1, <2>2 DEF TL!TypeOK, Values
<1>9. TLHandles'
  <2>1. DOMAIN handles = {HandleOf(g, line) : g \in DOMAIN left}
    BY <1>2, <1>3 DEF TLHandles
  <2>2. \A g \in DOMAIN left : HandleOf(g, next) = HandleOf(g, line) /\ HandleOf(g, next) # h
    BY <1>2, <1>3
  <2>3. DOMAIN handles' = {HandleOf(g, next) : g \in DOMAIN left'}
    BY <1>1, <1>5, <1>6, <2>1, <2>2
  <2>4. \A g \in DOMAIN left' : next <= JoinedAt(g) /\ ~(next > JoinedAt(g))
    BY <1>1, <1>2, <1>3, <1>5 DEF JoinedAt, Lines
  <2>5. \A g \in DOMAIN left' : handles'[HandleOf(g, next)] = g
    BY <1>1, <1>2, <1>3, <1>5, <1>6, <2>1, <2>2 DEF TLHandles
  <2>6. {g \in DOMAIN left' : next <= JoinedAt(g)} = DOMAIN left'
    BY <2>4
  <2>7. line' = next
    BY <1>4
  <2>8. /\ DOMAIN handles' = {HandleOf(g, line') : g \in {k \in DOMAIN left' : line' <= JoinedAt(k)}}
        /\ \A g \in DOMAIN left' : line' <= JoinedAt(g) => handles'[HandleOf(g, line')] = g
        /\ \A g \in DOMAIN left' : line' > JoinedAt(g) => left'[g] = 0
    BY <2>3, <2>4, <2>5, <2>6, <2>7
  <2> QED
    BY <2>8 DEF TLHandles
<1>10. TLCounts'
  BY <1>3, <1>4, <1>5, <1>7 DEF TLCounts, TL!TypeOK
<1>11. DOMAIN left' = {g \in TL!Function : StartedAt(g) < line'}
  BY <1>1, <1>2, <1>3, <1>4, <1>5
<1> QED
  BY <1>1, <1>4, <1>8, <1>9, <1>10, <1>11 DEF TLInv, Lines

(* t4 = std::move(t3) *)
LEMMA TLMove ==
  ASSUME TLInv, TL!MoveThread
  PROVE  TLInv'
<1>1. /\ TL!TypeOK /\ TLHandles /\ TLCounts /\ DOMAIN left = {g \in TL!Function : StartedAt(g) < 63}
      /\ line = 63 /\ line' = 65 /\ mem' = mem /\ left' = left /\ loaded' = loaded
      /\ handles' = TL!With(TL!Without(handles, "t3"), "t4", handles["t3"])
  BY DEF TLInv, TL!MoveThread
<1>2. \A g \in TL!Function : /\ StartedAt(g) < 63 <=> StartedAt(g) < 65
                             /\ 63 <= JoinedAt(g) /\ 65 <= JoinedAt(g)
                             /\ g # "f2" => HandleOf(g, 65) = HandleOf(g, 63)
                                            /\ HandleOf(g, 65) \notin {"t3", "t4"}
  BY DEF TL!Function, StartedAt, JoinedAt, HandleOf
<1>3. /\ "f2" \in DOMAIN left /\ HandleOf("f2", 63) = "t3" /\ HandleOf("f2", 65) = "t4"
      /\ "f2" \in TL!Function /\ "t4" \in TL!Handle
  BY <1>1 DEF TL!Function, StartedAt, HandleOf, TL!Handle
<1>4. /\ DOMAIN handles = {HandleOf(g, 63) : g \in DOMAIN left} /\ handles["t3"] = "f2"
      /\ \A g \in DOMAIN left : handles[HandleOf(g, 63)] = g
  BY <1>1, <1>2, <1>3 DEF TLHandles
<1>5. /\ DOMAIN handles' = (DOMAIN handles \ {"t3"}) \cup {"t4"} /\ handles'["t4"] = "f2"
      /\ \A k \in DOMAIN handles \ {"t3", "t4"} : handles'[k] = handles[k]
      /\ handles' \in [DOMAIN handles' -> TL!Function]
  BY <1>1, <1>3, <1>4 DEF TL!With, TL!Without, TL!TypeOK
<1>6. TL!TypeOK'
  BY <1>1, <1>3, <1>5 DEF TL!TypeOK
<1>7. TLHandles'
  <2>1. DOMAIN handles' = {HandleOf(g, 65) : g \in DOMAIN left}
    BY <1>1, <1>2, <1>3, <1>4, <1>5
  <2>2. \A g \in DOMAIN left : handles'[HandleOf(g, 65)] = g
    BY <1>1, <1>2, <1>3, <1>4, <1>5
  <2>3. \A g \in DOMAIN left : 65 <= JoinedAt(g) /\ ~(65 > JoinedAt(g))
    BY <1>1 DEF JoinedAt
  <2> QED
    BY <1>1, <2>1, <2>2, <2>3 DEF TLHandles
<1> QED
  BY <1>1, <1>2, <1>6, <1>7 DEF TLInv, TLCounts

JoinsHere(h, next) ==
  <<line, h, next>> \in {<<67, "t2", 68>>, <<68, "t4", 69>>, <<69, "t5", 70>>,
                         <<70, "t6", 71>>, <<71, "g", 72>>}

(* Each join: the thread has no turn left. *)
LEMMA TLJoin ==
  ASSUME TLInv, NEW h, NEW next, TL!Join(line, h, next), JoinsHere(h, next)
  PROVE  TLInv'
<1>1. PICK f \in TL!Function : JoinedAt(f) = line /\ HandleOf(f, line) = h
  <2>1. \E f \in {"f1", "f2", "foo::bar", "baz", "gg"} : JoinedAt(f) = line /\ HandleOf(f, line) = h
    BY DEF JoinsHere, JoinedAt, HandleOf
  <2> QED
    BY <2>1 DEF TL!Function
<1>2. \A g \in TL!Function : /\ StartedAt(g) < line /\ StartedAt(g) < next
                             /\ next <= JoinedAt(g) <=> line <= JoinedAt(g) /\ g # f
                             /\ next > JoinedAt(g) <=> ~(next <= JoinedAt(g))
                             /\ line > JoinedAt(g) <=> ~(line <= JoinedAt(g))
                             /\ HandleOf(g, next) = HandleOf(g, line)
                             /\ g # f => HandleOf(g, line) # h
  BY <1>1 DEF JoinsHere, TL!Function, StartedAt, JoinedAt, HandleOf
<1>3. /\ TL!TypeOK /\ TLHandles /\ TLCounts /\ DOMAIN left = TL!Function
      /\ mem' = mem /\ left' = left /\ loaded' = loaded /\ next \in Lines
  BY <1>2 DEF JoinsHere, TLInv, TL!Join, Lines
<1>4. h \in DOMAIN handles /\ handles[h] = f
  <2>1. f \in DOMAIN left /\ line <= JoinedAt(f)
    BY <1>1, <1>3 DEF JoinedAt
  <2> QED
    BY <1>1, <2>1, <1>3 DEF TLHandles
<1>5. left[f] = 0 /\ handles' = TL!Without(handles, h) /\ line' = next
  BY <1>4 DEF TL!Join
<1>6. /\ DOMAIN handles' = DOMAIN handles \ {h}
      /\ \A k \in DOMAIN handles' : handles'[k] = handles[k]
      /\ handles' \in [DOMAIN handles' -> TL!Function]
  BY <1>3, <1>5 DEF TL!Without, TL!TypeOK
<1>7. TL!TypeOK'
  BY <1>3, <1>5, <1>6 DEF TL!TypeOK, Lines
<1>8. TLHandles'
  <2>1. DOMAIN handles' = {HandleOf(g, next) : g \in {k \in DOMAIN left : next <= JoinedAt(k)}}
    <3>1. DOMAIN handles = {HandleOf(g, line) : g \in {k \in DOMAIN left : line <= JoinedAt(k)}}
      BY <1>3 DEF TLHandles
    <3> QED
      BY <1>1, <1>2, <1>3, <1>6, <3>1
  <2>2. \A g \in DOMAIN left : next <= JoinedAt(g) => handles'[HandleOf(g, next)] = g
    BY <1>2, <1>3, <1>6, <2>1 DEF TLHandles
  <2>3. \A g \in DOMAIN left : next > JoinedAt(g) => left[g] = 0
    BY <1>2, <1>3, <1>5 DEF TLHandles
  <2> QED
    BY <1>3, <1>5, <2>1, <2>2, <2>3 DEF TLHandles
<1>9. TLCounts' /\ DOMAIN left' = {g \in TL!Function : StartedAt(g) < line'}
  BY <1>2, <1>3, <1>5 DEF TLCounts
<1> QED
  BY <1>3, <1>5, <1>7, <1>8, <1>9 DEF TLInv, Lines

LEMMA TLReturn ==
  ASSUME TLInv, TL!Return
  PROVE  TLInv'
<1>1. /\ TL!TypeOK /\ TLHandles /\ TLCounts /\ DOMAIN left = {g \in TL!Function : StartedAt(g) < 72}
      /\ line = 72 /\ mem' = mem /\ left' = left /\ loaded' = loaded /\ handles' = handles
      /\ line' = IF handles = [h \in {} |-> h] THEN 75 ELSE TL!Terminate
  BY DEF TLInv, TL!Return
<1>2. \A g \in TL!Function : /\ StartedAt(g) < 72 /\ StartedAt(g) < 75
                             /\ ~(72 <= JoinedAt(g)) /\ ~(75 <= JoinedAt(g)) /\ 72 > JoinedAt(g)
  BY DEF TL!Function, StartedAt, JoinedAt
<1>3. DOMAIN handles = {}
  BY <1>1, <1>2 DEF TLHandles
<1>4. handles = [h \in {} |-> h]
  <2>1. handles \in [{} -> TL!Function]
    BY <1>1, <1>3 DEF TL!TypeOK
  <2> QED
    BY <2>1
<1>5. line' = 75
  BY <1>1, <1>4
<1>6. TL!TypeOK'
  BY <1>1, <1>5 DEF TL!TypeOK
<1>7. TLHandles'
  BY <1>1, <1>2, <1>3, <1>5 DEF TLHandles
<1> QED
  BY <1>1, <1>2, <1>5, <1>6, <1>7 DEF TLInv, TLCounts

(* A turn of a thread, in its one or two steps. *)
LEMMA TLTurn ==
  ASSUME TLInv, NEW f \in TL!Function, TL!Turn(f)
  PROVE  TLInv'
<1>1. /\ TL!TypeOK /\ TLHandles /\ TLCounts /\ DOMAIN left = {g \in TL!Function : StartedAt(g) < line}
      /\ line \in Lines /\ Rounds \in Nat
  BY RoundsNat DEF TLInv, Lines
<1>2. f \in DOMAIN left /\ left[f] > 0 /\ line' = line /\ handles' = handles
  BY DEF TL!Turn, TL!Load, TL!Store, TL!Round, TL!Running
<1>3. left[f] \in 1..Rounds /\ left \in [DOMAIN left -> 0..Rounds]
  BY <1>1, <1>2 DEF TL!TypeOK
<1>4. line <= JoinedAt(f)
  <2>1. line > JoinedAt(f) => left[f] = 0
    BY <1>1, <1>2 DEF TLHandles
  <2> QED
    BY <1>1, <1>3, <2>1 DEF JoinedAt, Lines
<1>5. CASE TL!Load(f)
  <2>1. /\ f \in Counters /\ f \notin DOMAIN loaded /\ mem' = mem /\ left' = left
        /\ loaded' = TL!With(loaded, f, mem[Counted(f)])
    <3>1. \E v \in TL!Counts(f) : loaded' = TL!With(loaded, f, mem[v])
      BY <1>5 DEF TL!Load
    <3>2. f # "gg" /\ TL!Counts(f) = {Counted(f)}
      BY <3>1, CountsAre
    <3> QED
      BY <1>5, <3>1, <3>2 DEF TL!Load, Counters
  <2>2. /\ DOMAIN loaded' = DOMAIN loaded \cup {f} /\ loaded'[f] = mem[Counted(f)]
        /\ \A g \in DOMAIN loaded : loaded'[g] = loaded[g]
    BY <2>1 DEF TL!With
  <2>3. TL!TypeOK'
    BY <1>1, <1>2, <2>1, <2>2 DEF TL!TypeOK
  <2>4. TLCounts'
    BY <1>1, <2>1, <2>2 DEF TLCounts
  <2>5. TLHandles'
    BY <1>1, <1>2, <2>1 DEF TLHandles
  <2> QED
    BY <1>1, <1>2, <2>1, <2>3, <2>4, <2>5 DEF TLInv, Lines
<1>6. ASSUME NEW w, w = left[f] - 1, left' = [left EXCEPT ![f] = w]
      PROVE  /\ DOMAIN left' = DOMAIN left /\ left'[f] = left[f] - 1
             /\ left' \in [DOMAIN left -> 0..Rounds] /\ \A g \in DOMAIN left \ {f} : left'[g] = left[g]
             /\ TLHandles'
  <2>1. w \in 0..Rounds
    BY <1>1, <1>3, <1>6
  <2>2. /\ DOMAIN left' = DOMAIN left /\ left'[f] = w
        /\ left' \in [DOMAIN left -> 0..Rounds] /\ \A g \in DOMAIN left \ {f} : left'[g] = left[g]
    BY <1>2, <1>3, <1>6, <2>1
  <2>3. ~(line > JoinedAt(f))
    BY <1>1, <1>4 DEF JoinedAt, Lines
  <2>4. TLHandles'
    BY <1>1, <1>2, <2>2, <2>3 DEF TLHandles
  <2> QED
    BY <1>6, <2>2, <2>4
<1>7. CASE TL!Round(f)
  <2>1. f \notin Counters /\ mem' = mem /\ loaded' = loaded /\ left' = [left EXCEPT ![f] = left[f] - 1]
    BY <1>7, CountsAre DEF TL!Round, Counters
  <2>2. /\ DOMAIN left' = DOMAIN left /\ left' \in [DOMAIN left -> 0..Rounds]
        /\ \A g \in DOMAIN left \ {f} : left'[g] = left[g]
        /\ TLHandles'
    BY <1>6, <2>1
  <2>3. TL!TypeOK'
    BY <1>1, <1>2, <2>1, <2>2 DEF TL!TypeOK
  <2>4. TLCounts'
    BY <1>1, <2>1, <2>2 DEF TLCounts
  <2> QED
    BY <1>1, <1>2, <2>2, <2>3, <2>4 DEF TLInv, Lines
<1>8. CASE TL!Store(f)
  <2>1. /\ f \in Counters /\ f \in DOMAIN loaded /\ left' = [left EXCEPT ![f] = left[f] - 1]
        /\ mem' = [mem EXCEPT ![Counted(f)] = loaded[f] + 1]
        /\ loaded' = TL!Without(loaded, f)
    <3>1. \E v \in TL!Counts(f) : mem' = [mem EXCEPT ![v] = loaded[f] + 1]
      BY <1>8 DEF TL!Store
    <3>2. f # "gg" /\ TL!Counts(f) = {Counted(f)}
      BY <3>1, CountsAre
    <3> QED
      BY <1>8, <3>1, <3>2 DEF TL!Store, Counters
  <2>2. /\ DOMAIN left' = DOMAIN left /\ left'[f] = left[f] - 1 /\ left' \in [DOMAIN left -> 0..Rounds]
        /\ \A g \in DOMAIN left \ {f} : left'[g] = left[g]
        /\ TLHandles'
    BY <1>6, <2>1
  <2>3. /\ DOMAIN loaded' = DOMAIN loaded \ {f}
        /\ \A g \in DOMAIN loaded' : loaded'[g] = loaded[g]
    BY <2>1 DEF TL!Without
  <2>4. \A g \in Counters : Counted(g) \in TL!Variable \ {"b.n"} /\ (g # f => Counted(g) # Counted(f))
    BY <2>1 DEF Counters, TL!Function, Counted, TL!Variable
  <2>5. /\ mem \in [TL!Variable -> Values] /\ mem[Counted(f)] + left[f] = Final(f)
        /\ loaded[f] = mem[Counted(f)]
    BY <1>1, <1>2, <2>1 DEF TL!TypeOK, Values, TLCounts
  <2>6. mem[Counted(f)] + 1 \in Values /\ mem[Counted(f)] + 1 + (left[f] - 1) = Final(f)
    <3>1. mem[Counted(f)] \in Values
      BY <2>1, <2>4, <2>5
    <3>2. Final(f) \in {Rounds, Rounds + 1}
      BY DEF Final
    <3> QED
      BY <1>1, <1>3, <2>5, <3>1, <3>2 DEF Values
  <2>7. /\ mem' \in [TL!Variable -> Values] /\ mem'[Counted(f)] = mem[Counted(f)] + 1
        /\ \A v \in TL!Variable \ {Counted(f)} : mem'[v] = mem[v]
    BY <2>1, <2>4, <2>5, <2>6
  <2>8. TL!TypeOK'
    BY <1>1, <1>2, <2>2, <2>3, <2>7 DEF TL!TypeOK, Values
  <2>9. TLCounts'
    <3>1. "b.n" \in TL!Variable
      BY DEF TL!Variable
    <3> QED
      BY <1>1, <2>1, <2>2, <2>3, <2>4, <2>6, <2>7, <3>1 DEF TLCounts
  <2> QED
    BY <1>1, <1>2, <2>2, <2>8, <2>9 DEF TLInv, Lines
<1> QED
  BY <1>5, <1>7, <1>8 DEF TL!Turn

LEMMA TLStep == TLInv /\ TL!Next => TLInv'
<1> SUFFICES ASSUME TLInv, TL!Next PROVE TLInv'
  OBVIOUS
<1>1. CASE TL!Starts
  <2>1. /\ TL!Start(58, "t2", "f1", 60) => line = 58
        /\ TL!Start(60, "t3", "f2", 61) => line = 60
        /\ TL!Start(61, "g", "gg", 63) => line = 61
        /\ TL!Start(65, "t5", "foo::bar", 66) => line = 65
        /\ TL!Start(66, "t6", "baz", 67) => line = 66
    BY Zenon DEF TL!Start
  <2>2. CASE TL!Start(58, "t2", "f1", 60)
    BY <2>1, <2>2, TLStart DEF StartsHere
  <2>3. CASE TL!Start(60, "t3", "f2", 61)
    BY <2>1, <2>3, TLStart DEF StartsHere
  <2>4. CASE TL!Start(61, "g", "gg", 63)
    BY <2>1, <2>4, TLStart DEF StartsHere
  <2>5. CASE TL!Start(65, "t5", "foo::bar", 66)
    BY <2>1, <2>5, TLStart DEF StartsHere
  <2>6. CASE TL!Start(66, "t6", "baz", 67)
    BY <2>1, <2>6, TLStart DEF StartsHere
  <2> QED
    BY <1>1, <2>2, <2>3, <2>4, <2>5, <2>6 DEF TL!Starts
<1>2. CASE TL!MoveThread
  BY <1>2, TLMove
<1>3. CASE TL!Joins
  <2>1. \A at, h, next : TL!Join(at, h, next) => line = at
    BY DEF TL!Join
  <2>2. CASE TL!Join(67, "t2", 68)
    BY <2>1, <2>2, TLJoin DEF JoinsHere
  <2>3. CASE TL!Join(68, "t4", 69)
    BY <2>1, <2>3, TLJoin DEF JoinsHere
  <2>4. CASE TL!Join(69, "t5", 70)
    BY <2>1, <2>4, TLJoin DEF JoinsHere
  <2>5. CASE TL!Join(70, "t6", 71)
    BY <2>1, <2>5, TLJoin DEF JoinsHere
  <2>6. CASE TL!Join(71, "g", 72)
    BY <2>1, <2>6, TLJoin DEF JoinsHere
  <2> QED
    BY <1>3, <2>2, <2>3, <2>4, <2>5, <2>6 DEF TL!Joins
<1>4. CASE TL!Return
  BY <1>4, TLReturn
<1>5. CASE \E f \in TL!Function : TL!Turn(f)
  BY <1>5, TLTurn
<1> QED
  BY <1>1, <1>2, <1>3, <1>4, <1>5 DEF TL!Next, TL!Main

LEMMA TLSafe == TLInv => TL!TypeOK /\ TL!CountsAreFinal
<1> SUFFICES ASSUME TLInv PROVE TL!TypeOK /\ TL!CountsAreFinal
  OBVIOUS
<1>1. TL!TypeOK /\ TLHandles /\ TLCounts /\ line \in Lines
      /\ DOMAIN left = {g \in TL!Function : StartedAt(g) < line}
  BY DEF TLInv, Lines
<1>2. ASSUME line \in {72, 75}
      PROVE  mem["n"] = Rounds /\ mem["f.n"] = Rounds /\ mem["f1's n"] = Rounds + 1
  <2>1. \A f \in Counters : StartedAt(f) < line /\ line > JoinedAt(f)
    BY <1>2 DEF StartedAt, JoinedAt
  <2>2. \A f \in Counters : f \in DOMAIN left /\ left[f] = 0
    BY <1>1, <2>1 DEF Counters, TLHandles
  <2>3. \A f \in Counters : mem[Counted(f)] + 0 = Final(f)
    BY <1>1, <2>2 DEF TLCounts
  <2>4. /\ {"f1", "f2", "foo::bar"} \subseteq Counters
        /\ Counted("f1") = "f1's n" /\ Counted("f2") = "n" /\ Counted("foo::bar") = "f.n"
        /\ Final("f1") = Rounds + 1 /\ Final("f2") = Rounds /\ Final("foo::bar") = Rounds
        /\ {"f1's n", "n", "f.n"} \subseteq TL!Variable
    BY DEF Counters, TL!Function, Counted, Final, TL!Variable
  <2>5. \A v \in TL!Variable : mem[v] \in Nat
    <3>1. mem \in [TL!Variable -> Values] /\ Values \subseteq Nat
      BY <1>1, RoundsNat DEF TL!TypeOK, Values
    <3> QED
      BY <3>1
  <2>6. \A f \in {"f1", "f2", "foo::bar"} : mem[Counted(f)] \in Nat /\ mem[Counted(f)] + 0 = Final(f)
    BY <2>3, <2>4, <2>5
  <2>7. \A f \in {"f1", "f2", "foo::bar"} : mem[Counted(f)] = Final(f)
    BY <2>6
  <2> QED
    BY <2>4, <2>7, Zenon
<1>3. mem["b.n"] = 0 /\ line # TL!Terminate
  BY <1>1 DEF TLCounts, Lines, TL!Terminate
<1> QED
  BY <1>1, <1>2, <1>3 DEF TL!CountsAreFinal

-----------------------------------------------------------------------------
(* edk2_compile_commands.py. Who holds the lock of its directory is        *)
(* between lock and release. *)
Inside(w) == worker[w] \in {"read", "write", "dump", "release"}

CCLocked == \A w \in Worker, d \in Directory : locks[d] = w <=> Inside(w) /\ cwd[w] = d

CCWhole ==
  /\ IF CC!Writers # {} THEN db = CC!Torn
     ELSE db = IF recorded = CC!NoEntries THEN CC!Absent ELSE CC!Entries(recorded)
  /\ \A w \in Worker : worker[w] = "write" => content[w] = recorded
  /\ \A w \in Worker : worker[w] = "dump" => content[w] = CC!Set(recorded, target[w], w)

CCTorn == db = CC!Torn /\ \A w \in Worker : worker[w] \notin {"write", "dump", "release"}

(* Whatever has happened, an entry is the last update that was written, or *)
(* is about to be.                                                         *)
CCFresh ==
  /\ CC!Writers # {} => db = CC!Torn
  /\ db \notin {CC!Absent, CC!Torn} => CC!Newest(db.entries)
  /\ \A w \in Worker : worker[w] = "write" => CC!Newest(content[w])
  /\ \A w \in Worker : worker[w] = "dump" =>
       \E e : CC!Newest(e) /\ content[w] = CC!Set(e, target[w], w)

(* With one directory. *)
CCAsOne == /\ mixed = {} /\ CCFresh
           /\ accident = "none" => CCWhole
           /\ accident = "torn" => CCTorn

CCInv == /\ CC!TypeOK
         /\ content = [w \in Worker |-> content[w]]
         /\ CCLocked
         /\ CC!OneDirectory => CCAsOne

(* The states of the file are told apart. *)
LEMMA DBStates ==
  /\ CC!Absent # CC!Torn /\ CC!Absent.state # "json" /\ CC!Torn.state # "json"
  /\ \A e : CC!Entries(e) # CC!Torn /\ CC!Entries(e).state = "json" /\ CC!Entries(e).entries = e
BY DEF CC!Absent, CC!Torn, CC!Entries

(* Setting an entry leaves entries, and at least that one. *)
LEMMA SetFacts ==
  ASSUME NEW e, CC!IsEntries(e), NEW f \in File, NEW w \in Worker
  PROVE  CC!IsEntries(CC!Set(e, f, w)) /\ CC!Set(e, f, w) # CC!NoEntries
<1>1. DOMAIN CC!Set(e, f, w) = DOMAIN e \cup {f}
  BY DEF CC!Set
<1>2. DOMAIN CC!NoEntries = {}
  BY DEF CC!NoEntries
<1> QED
  BY <1>1, <1>2 DEF CC!IsEntries, CC!Set

LEMMA NoEntriesFacts == CC!IsEntries(CC!NoEntries)
BY DEF CC!IsEntries, CC!NoEntries

(* With one directory, one worker is between lock and release. *)
LEMMA Exclusion ==
  ASSUME CCInv, CC!OneDirectory, NEW v \in Worker, NEW w \in Worker, Inside(v), Inside(w)
  PROVE  v = w
<1>1. cwd[v] \in Directory /\ cwd[v] = cwd[w]
  BY DEF CCInv, CC!TypeOK, CC!OneDirectory
<1>2. locks[cwd[v]] = v /\ locks[cwd[v]] = w
  BY <1>1 DEF CCInv, CCLocked
<1> QED
  BY <1>2

LEMMA CCInit == CC!Init => CCInv
<1> SUFFICES ASSUME CC!Init PROVE CCInv
  OBVIOUS
<1>1. CC!TypeOK
  <2>1. (CHOOSE f \in File : TRUE) \in File
    BY ABuildHasFiles
  <2> QED
    BY <2>1, NoEntriesFacts DEF CC!Init, CC!TypeOK
<1>2. content = [w \in Worker |-> content[w]]
  BY DEF CC!Init
<1>3. CCLocked
  BY WorkersAreSomeone DEF CC!Init, CCLocked, Inside
<1>4. mixed = {} /\ accident = "none" /\ CCWhole /\ CCFresh
  BY DEF CC!Init, CCWhole, CCFresh, CC!Writers
<1> QED
  BY <1>1, <1>2, <1>3, <1>4 DEF CCInv, CCAsOne

LEMMA CCIdle == CCInv /\ UNCHANGED ccVars => CCInv'
<1> SUFFICES ASSUME CCInv, UNCHANGED ccVars PROVE CCInv'
  OBVIOUS
<1>1. /\ cwd' = cwd /\ locks' = locks /\ worker' = worker /\ todo' = todo /\ target' = target
      /\ content' = content /\ mixed' = mixed /\ db' = db /\ recorded' = recorded
      /\ accident' = accident
  BY DEF ccVars
<1>2. CC!TypeOK'
  BY <1>1 DEF CCInv, CC!TypeOK
<1>3. CCLocked' /\ (CC!OneDirectory' <=> CC!OneDirectory)
  BY <1>1 DEF CCInv, CCLocked, Inside, CC!OneDirectory
<1>4. (CCWhole' <=> CCWhole) /\ (CCTorn' <=> CCTorn) /\ (CCFresh' <=> CCFresh)
  BY <1>1 DEF CCWhole, CCTorn, CCFresh, CC!Newest, CC!Writers
<1> QED
  BY <1>1, <1>2, <1>3, <1>4 DEF CCInv, CCAsOne

LEMMA CCTypes ==
  ASSUME CCInv, NEW w \in Worker,
         CC!Step(w) \/ CC!Kill(w) \/ CC!NoCompiler(w) \/ \E f \in File : CC!Update(w, f)
  PROVE  CC!TypeOK' /\ content' = [v \in Worker |-> content'[v]]
         /\ (CC!OneDirectory' <=> CC!OneDirectory)
<1>1. CC!TypeOK /\ content = [v \in Worker |-> content[v]]
  BY DEF CCInv
<1>2. \A d \in Directory : CC!Unlocked(w)[d] \in Worker \cup {CC!NoOne}
  BY <1>1 DEF CC!TypeOK, CC!Unlocked
<1>3. CC!Unlocked(w) \in [Directory -> Worker \cup {CC!NoOne}]
  BY <1>2 DEF CC!Unlocked
<1>4. cwd' = cwd
  BY DEF CC!Step, CC!Lock, CC!Read, CC!Open, CC!OpenFails, CC!Dump, CC!DumpFails, CC!Release, CC!Kill,
         CC!NoCompiler, CC!Update
<1>5. CASE CC!Lock(w)
  <2>1. locks' \in [Directory -> Worker \cup {CC!NoOne}]
    BY <1>1, <1>5 DEF CC!TypeOK, CC!Lock
  <2> QED
    BY <1>1, <1>4, <1>5, <2>1 DEF CC!TypeOK, CC!Lock, CC!Move, CC!OneDirectory
<1>11. CASE CC!Kill(w)
  BY <1>1, <1>3, <1>4, <1>11 DEF CC!TypeOK, CC!Kill, CC!Broken, CC!OneDirectory
<1>13. CASE CC!OpenFails(w) \/ CC!DumpFails(w)
  BY <1>1, <1>3, <1>4, <1>13
     DEF CC!TypeOK, CC!OpenFails, CC!DumpFails, CC!Broken, CC!Move, CC!OneDirectory
<1>12. CASE CC!NoCompiler(w)
  BY <1>1, <1>4, <1>12 DEF CC!TypeOK, CC!NoCompiler, CC!Move, CC!OneDirectory
<1>6. CASE \E f \in File : CC!Update(w, f)
  BY <1>1, <1>4, <1>6 DEF CC!TypeOK, CC!Update, CC!Move, CC!OneDirectory
<1>7. CASE CC!Release(w)
  BY <1>1, <1>3, <1>4, <1>7, NoEntriesFacts DEF CC!TypeOK, CC!Release, CC!Move, CC!OneDirectory
<1>8. CASE CC!Read(w)
  <2>1. PICK e : CC!IsEntries(e) /\ content' = [content EXCEPT ![w] = e]
    <3>1. db \notin {CC!Absent, CC!Torn} => CC!IsEntries(db.entries)
      BY <1>1 DEF CC!TypeOK
    <3> QED
      BY <1>8, <3>1, NoEntriesFacts DEF CC!Read
  <2>2. \A v \in Worker : CC!IsEntries(content'[v])
    BY <1>1, <2>1 DEF CC!TypeOK
  <2>3. content' = [v \in Worker |-> content'[v]]
    BY <1>1, <2>1
  <2>4. /\ worker' \in [Worker -> {"idle", "lock", "read", "write", "dump", "release", "exit", "killed"}]
        /\ locks' \in [Directory -> Worker \cup {CC!NoOne}]
        /\ accident' \in {"none", "torn", "unread"}
    BY <1>1, <1>3, <1>8 DEF CC!TypeOK, CC!Read, CC!Move
  <2> QED
    BY <1>1, <1>4, <1>8, <2>2, <2>3, <2>4 DEF CC!TypeOK, CC!Read, CC!OneDirectory
<1>9. CASE CC!Open(w)
  <2> DEFINE e == CC!Set(content[w], target[w], w)
  <2>1. CC!IsEntries(e)
    BY <1>1, SetFacts DEF CC!TypeOK
  <2>2. content' = [content EXCEPT ![w] = e]
    BY <1>1, <1>9 DEF CC!Open
  <2> HIDE DEF e
  <2>3. \A v \in Worker : CC!IsEntries(content'[v])
    BY <1>1, <2>1, <2>2 DEF CC!TypeOK
  <2>4. content' = [v \in Worker |-> content'[v]]
    BY <1>1, <2>2
  <2> QED
    BY <1>1, <1>4, <1>9, <2>3, <2>4 DEF CC!TypeOK, CC!Open, CC!Move, CC!OneDirectory, CC!Writers
<1>10. CASE CC!Dump(w)
  <2>1. CC!IsEntries(recorded')
    BY <1>1, <1>10, SetFacts DEF CC!TypeOK, CC!Dump
  <2>2. db' = CC!Torn \/ (db' = CC!Entries(content[w]) /\ CC!IsEntries(content[w]))
    BY <1>1, <1>10 DEF CC!TypeOK, CC!Dump
  <2>3. db' \in {CC!Absent, CC!Torn} \/ CC!IsEntries(db'.entries)
    BY <2>2, DBStates
  <2> QED
    BY <1>1, <1>4, <1>10, <2>1, <2>3 DEF CC!TypeOK, CC!Dump, CC!Move, CC!OneDirectory
<1> QED
  BY <1>5, <1>6, <1>7, <1>8, <1>9, <1>10, <1>11, <1>12, <1>13 DEF CC!Step

(* A step moves one worker. *)
LEMMA CCOthers ==
  ASSUME CC!TypeOK, NEW w \in Worker,
         CC!Step(w) \/ CC!Kill(w) \/ CC!NoCompiler(w) \/ \E f \in File : CC!Update(w, f)
  PROVE  \A v \in Worker \ {w} : worker'[v] = worker[v]
BY DEF CC!TypeOK, CC!Step, CC!Lock, CC!Read, CC!Open, CC!OpenFails, CC!Dump, CC!DumpFails,
       CC!Release, CC!Kill, CC!NoCompiler, CC!Update, CC!Move

(* Where a worker goes: who has no lock is not inside, and who leaves      *)
(* takes nobody else's lock along.                                         *)
LEMMA CCLocks ==
  ASSUME CCInv, NEW w \in Worker,
         CC!Step(w) \/ CC!Kill(w) \/ CC!NoCompiler(w) \/ \E f \in File : CC!Update(w, f)
  PROVE  CCLocked'
<1>1. CC!TypeOK /\ CCLocked /\ CC!TypeOK' /\ cwd' = cwd
  BY CCTypes DEF CCInv, CC!Step, CC!Lock, CC!Read, CC!Open, CC!OpenFails, CC!Dump, CC!DumpFails,
                 CC!Release, CC!Kill, CC!NoCompiler, CC!Update
<1>2. \A v \in Worker \ {w} : worker'[v] = worker[v]
  BY <1>1, CCOthers
<1>3. CASE locks' = locks /\ (Inside(w) <=> Inside(w)')
  BY <1>1, <1>2, <1>3 DEF CCLocked, Inside
<1>4. CASE locks' = CC!Unlocked(w) /\ ~Inside(w)'
  <2>1. \A d \in Directory : locks'[d] # w
    BY <1>4, WorkersAreSomeone DEF CC!Unlocked
  <2>2. \A d \in Directory, v \in Worker \ {w} : locks'[d] = v <=> locks[d] = v
    BY <1>4, WorkersAreSomeone DEF CC!Unlocked
  <2> QED
    BY <1>1, <1>2, <1>4, <2>1, <2>2 DEF CCLocked, Inside
<1>5. CASE CC!Lock(w)
  <2>1. worker[w] = "lock" /\ worker'[w] = "read" /\ locks[cwd[w]] = CC!NoOne
        /\ locks' = [locks EXCEPT ![cwd[w]] = w] /\ cwd[w] \in Directory
    BY <1>1, <1>5 DEF CC!TypeOK, CC!Lock, CC!Move
  <2>2. \A d \in Directory : locks'[d] = IF d = cwd[w] THEN w ELSE locks[d]
    BY <1>1, <2>1 DEF CC!TypeOK
  <2>3. \A d \in Directory : locks[d] # w
    BY <1>1, <2>1 DEF CCLocked, Inside
  <2>4. \A d \in Directory : locks'[d] = w <=> Inside(w)' /\ cwd'[w] = d
    BY <1>1, <2>1, <2>2, <2>3 DEF Inside
  <2>5. ASSUME NEW v \in Worker \ {w}, NEW d \in Directory
        PROVE  locks'[d] = v <=> Inside(v)' /\ cwd'[v] = d
    <3>1. locks[d] = v <=> Inside(v) /\ cwd[v] = d
      BY <1>1 DEF CCLocked
    <3>2. locks[d] = v <=> locks'[d] = v
      BY <2>1, <2>2, WorkersAreSomeone
    <3> QED
      BY <1>1, <1>2, <3>1, <3>2 DEF Inside
  <2> QED
    BY <2>4, <2>5 DEF CCLocked
<1>6. CASE CC!Read(w)
  <2>1. /\ worker[w] = "read"
        /\ \/ locks' = CC!Unlocked(w) /\ worker'[w] = "exit"
           \/ locks' = locks /\ worker'[w] = "write"
    BY <1>1, <1>6 DEF CC!TypeOK, CC!Read, CC!Move
  <2> QED
    BY <1>3, <1>4, <2>1 DEF Inside
<1>8. CASE CC!Open(w) \/ CC!Dump(w) \/ CC!NoCompiler(w) \/ \E f \in File : CC!Update(w, f)
  <2>1. locks' = locks
    BY <1>8 DEF CC!Open, CC!Dump, CC!NoCompiler, CC!Update
  <2>2. \E from, to : CC!Move(w, from, to)
          /\ (from \in {"read", "write", "dump", "release"} <=> to \in {"read", "write", "dump", "release"})
    BY <1>8 DEF CC!Open, CC!Dump, CC!NoCompiler, CC!Update
  <2>3. Inside(w) <=> Inside(w)'
    BY <1>1, <2>2 DEF CC!TypeOK, CC!Move, Inside
  <2> QED
    BY <1>3, <2>1, <2>3
<1>7. CASE CC!Release(w) \/ CC!Kill(w) \/ CC!OpenFails(w) \/ CC!DumpFails(w)
  <2>1. locks' = CC!Unlocked(w)
    BY <1>7 DEF CC!Release, CC!Kill, CC!OpenFails, CC!DumpFails
  <2>2. ~Inside(w)'
    BY <1>1, <1>7 DEF CC!TypeOK, CC!Release, CC!Kill, CC!OpenFails, CC!DumpFails, CC!Move, Inside
  <2> QED
    BY <1>4, <2>1, <2>2
<1> QED
  BY <1>5, <1>6, <1>7, <1>8 DEF CC!Step

(* With one directory, whoever is inside is alone there. *)
LEMMA CCAlone ==
  ASSUME CCInv, CC!OneDirectory, NEW w \in Worker, Inside(w)
  PROVE  \A v \in Worker \ {w} : worker[v] \notin {"read", "write", "dump", "release"}
BY Exclusion DEF Inside

(* Entries of last updates stay what they are when one is written.         *)
LEMMA NewestSet ==
  ASSUME NEW e, NEW r, NEW f, NEW w, \A x \in DOMAIN e : x \in DOMAIN r /\ e[x] = r[x]
  PROVE  \A x \in DOMAIN CC!Set(e, f, w) :
           x \in DOMAIN CC!Set(r, f, w) /\ CC!Set(e, f, w)[x] = CC!Set(r, f, w)[x]
BY DEF CC!Set

(* One directory, one lock: no worker writes what another has updated since *)
(* it read, and the one that fails to read writes no more than its update.  *)
LEMMA CCKeepsFresh ==
  ASSUME CCInv, CC!OneDirectory, NEW w \in Worker,
         CC!Step(w) \/ CC!Kill(w) \/ CC!NoCompiler(w) \/ \E f \in File : CC!Update(w, f)
  PROVE  mixed' = {} /\ CCFresh'
<1>1. CC!TypeOK /\ content = [v \in Worker |-> content[v]] /\ mixed = {} /\ CCFresh
  BY DEF CCInv, CCAsOne
<1>2. \A v \in Worker \ {w} : worker'[v] = worker[v]
  BY <1>1, CCOthers
<1>3. Inside(w) => \A v \in Worker \ {w} : worker[v] \notin {"read", "write", "dump", "release"}
  BY CCAlone
<1>4. CASE CC!Lock(w) \/ CC!NoCompiler(w) \/ (\E f \in File : CC!Update(w, f))
  <2>1. /\ worker[w] \in {"lock", "idle"} /\ worker'[w] \in {"read", "exit", "lock"}
        /\ mixed' = mixed /\ db' = db /\ recorded' = recorded /\ content' = content
        /\ \A v \in Worker \ {w} : target'[v] = target[v]
    BY <1>1, <1>4 DEF CC!TypeOK, CC!Lock, CC!NoCompiler, CC!Update, CC!Move
  <2>2. CC!Writers' = CC!Writers
    BY <1>2, <2>1 DEF CC!Writers
  <2> QED
    BY <1>1, <1>2, <2>1, <2>2 DEF CCFresh, CC!Newest
<1>5. CASE CC!Kill(w) \/ CC!OpenFails(w) \/ CC!DumpFails(w)
  <2>1. /\ worker'[w] \in {"killed", "exit"} /\ mixed' = mixed /\ recorded' = recorded
        /\ content' = content /\ target' = target /\ db' \in {db, CC!Torn}
    BY <1>1, <1>5 DEF CC!TypeOK, CC!Kill, CC!OpenFails, CC!DumpFails, CC!Broken, CC!Move
  <2>2. CC!Writers' \subseteq CC!Writers
    BY <1>2, <2>1 DEF CC!Writers
  <2> QED
    BY <1>1, <1>2, <2>1, <2>2 DEF CCFresh, CC!Newest
<1>6. CASE CC!Read(w)
  <2>1. /\ worker[w] = "read" /\ worker'[w] \in {"exit", "write"}
        /\ mixed' = mixed /\ db' = db /\ recorded' = recorded /\ target' = target
    BY <1>1, <1>6 DEF CC!TypeOK, CC!Read, CC!Move
  <2>2. worker'[w] = "write" => CC!Newest(content'[w])
    <3>1. CC!Newest(CC!NoEntries)
      BY DEF CC!Newest, CC!NoEntries
    <3>2. \/ content'[w] = CC!NoEntries
          \/ content'[w] = db.entries /\ db \notin {CC!Absent, CC!Torn}
      BY <1>1, <1>6 DEF CC!Read
    <3> QED
      BY <1>1, <3>1, <3>2 DEF CCFresh
  <2>3. CC!Writers' = CC!Writers
    BY <1>2, <2>1 DEF CC!Writers
  <2>4. \A v \in Worker \ {w} : worker'[v] \notin {"write", "dump"}
    BY <1>2, <1>3, <2>1 DEF Inside
  <2> QED
    BY <1>1, <2>1, <2>2, <2>3, <2>4 DEF CCFresh, CC!Newest
<1>7. CASE CC!Open(w)
  <2>1. /\ worker[w] = "write" /\ worker'[w] = "dump" /\ db' = CC!Torn
        /\ recorded' = recorded /\ target' = target
        /\ content' = [content EXCEPT ![w] = CC!Set(@, target[w], w)]
    BY <1>1, <1>7 DEF CC!TypeOK, CC!Open, CC!Move
  <2>2. CC!Writers = {}
    BY <1>3, <2>1 DEF CC!Writers, Inside
  <2>3. mixed' = {}
    BY <1>1, <1>7, <2>2 DEF CC!Open
  <2>4. content'[w] = CC!Set(content[w], target'[w], w) /\ CC!Newest(content[w])
    BY <1>1, <2>1 DEF CCFresh
  <2>5. \A v \in Worker \ {w} : worker'[v] \notin {"write", "dump"}
    BY <1>2, <1>3, <2>1 DEF Inside
  <2> QED
    BY <2>1, <2>3, <2>4, <2>5 DEF CCFresh, CC!Newest
<1>8. CASE CC!Dump(w)
  <2>1. /\ worker[w] = "dump" /\ worker'[w] = "release" /\ db' = CC!Entries(content[w])
        /\ recorded' = CC!Set(recorded, target[w], w) /\ mixed' = {}
    BY <1>1, <1>8 DEF CC!TypeOK, CC!Dump, CC!Move
  <2>2. PICK e : CC!Newest(e) /\ content[w] = CC!Set(e, target[w], w)
    BY <1>1, <2>1 DEF CCFresh
  <2>3. \A x \in DOMAIN content[w] : x \in DOMAIN recorded' /\ content[w][x] = recorded'[x]
    BY <2>1, <2>2, NewestSet DEF CC!Newest
  <2>4. db'.entries = content[w]
    BY <2>1, DBStates
  <2>5. \A x \in DOMAIN db'.entries : x \in DOMAIN recorded' /\ db'.entries[x] = recorded'[x]
    BY <2>3, <2>4
  <2>6. CC!Newest(db.entries)'
    BY <2>5 DEF CC!Newest
  <2>7. \A v \in Worker : worker'[v] \notin {"write", "dump"}
    BY <1>2, <1>3, <2>1 DEF Inside
  <2>8. CC!Writers' = {}
    BY <2>7 DEF CC!Writers
  <2> QED
    BY <2>1, <2>6, <2>7, <2>8 DEF CCFresh
<1>9. CASE CC!Release(w)
  <2>1. /\ worker[w] = "release" /\ worker'[w] = "idle" /\ db' = db /\ mixed' = mixed
        /\ recorded' = recorded /\ target' = target
    BY <1>1, <1>9 DEF CC!TypeOK, CC!Release, CC!Move
  <2>2. CC!Writers' = CC!Writers
    BY <1>2, <2>1 DEF CC!Writers
  <2>3. \A v \in Worker : worker'[v] \notin {"write", "dump"}
    BY <1>2, <1>3, <2>1 DEF Inside
  <2> QED
    BY <1>1, <2>1, <2>2, <2>3 DEF CCFresh, CC!Newest
<1> QED
  BY <1>4, <1>5, <1>6, <1>7, <1>8, <1>9 DEF CC!Step

(* Without an accident the file is whole unless its only writer is writing *)
(* it; after a writer's death nobody writes it, until a read fails.        *)
LEMMA CCFile ==
  ASSUME CCInv, CC!OneDirectory, NEW w \in Worker,
         CC!Step(w) \/ CC!Kill(w) \/ CC!NoCompiler(w) \/ \E f \in File : CC!Update(w, f)
  PROVE  (accident' = "none" => CCWhole') /\ (accident' = "torn" => CCTorn')
<1>1. /\ CC!TypeOK /\ content = [v \in Worker |-> content[v]] /\ mixed = {}
      /\ accident = "none" => CCWhole
      /\ accident = "torn" => CCTorn
      /\ CC!Writers # {} => db = CC!Torn
  BY DEF CCInv, CCAsOne, CCFresh
<1>2. \A v \in Worker \ {w} : worker'[v] = worker[v]
  BY <1>1, CCOthers
<1>3. Inside(w) => \A v \in Worker \ {w} : worker[v] \notin {"read", "write", "dump", "release"}
  BY CCAlone
<1>4. CASE CC!Lock(w) \/ CC!NoCompiler(w) \/ (\E f \in File : CC!Update(w, f))
  <2>1. /\ worker[w] \in {"lock", "idle"} /\ worker'[w] \in {"read", "exit", "lock"}
        /\ mixed' = mixed /\ db' = db /\ recorded' = recorded /\ content' = content
        /\ accident' = accident /\ \A v \in Worker \ {w} : target'[v] = target[v]
    BY <1>1, <1>4 DEF CC!TypeOK, CC!Lock, CC!NoCompiler, CC!Update, CC!Move
  <2>2. CC!Writers' = CC!Writers
    BY <1>2, <2>1 DEF CC!Writers
  <2>3. CCWhole => CCWhole'
    BY <1>2, <2>1, <2>2 DEF CCWhole
  <2>4. CCTorn => CCTorn'
    BY <1>2, <2>1 DEF CCTorn
  <2> QED
    BY <1>1, <2>1, <2>3, <2>4
<1>5. CASE CC!Kill(w) \/ CC!OpenFails(w) \/ CC!DumpFails(w)
  <2>1. /\ worker'[w] \in {"killed", "exit"} /\ mixed' = mixed /\ recorded' = recorded
        /\ content' = content /\ target' = target
        /\ IF worker[w] = "dump" THEN db' \in {db, CC!Torn} /\ accident' = "torn"
           ELSE db' = db /\ accident' = accident
    BY <1>1, <1>5 DEF CC!TypeOK, CC!Kill, CC!OpenFails, CC!DumpFails, CC!Broken, CC!Move
  <2>2. CASE worker[w] = "dump"
    <3>1. db' = CC!Torn
      BY <1>1, <2>1, <2>2 DEF CC!Writers
    <3>2. \A v \in Worker : worker'[v] \notin {"write", "dump", "release"}
      BY <1>2, <1>3, <2>1, <2>2 DEF Inside
    <3> QED
      BY <2>1, <2>2, <3>1, <3>2 DEF CCTorn
  <2>3. CASE worker[w] # "dump"
    <3>1. CC!Writers' = CC!Writers
      BY <1>2, <2>1, <2>3 DEF CC!Writers
    <3>2. CCWhole => CCWhole'
      BY <1>1, <1>2, <2>1, <2>3, <3>1 DEF CCWhole
    <3>3. CCTorn => CCTorn'
      BY <1>2, <2>1, <2>3 DEF CCTorn
    <3> QED
      BY <1>1, <2>1, <2>3, <3>2, <3>3
  <2> QED
    BY <2>2, <2>3
<1>6. CASE CC!Read(w)
  <2>1. /\ worker[w] = "read" /\ db' = db /\ recorded' = recorded /\ target' = target
        /\ \/ /\ db # CC!Absent /\ accident' = accident
              /\ IF db = CC!Torn THEN worker'[w] = "exit"
                 ELSE worker'[w] = "write" /\ content'[w] = db.entries
           \/ /\ worker'[w] = "write" /\ content'[w] = CC!NoEntries
              /\ accident' = IF db = CC!Absent THEN accident ELSE "unread"
    BY <1>1, <1>6 DEF CC!TypeOK, CC!Read, CC!Move
  <2>2. \A v \in Worker \ {w} : worker'[v] \notin {"write", "dump", "release"}
    BY <1>2, <1>3, <2>1 DEF Inside
  <2>3. CC!Writers = {} /\ CC!Writers' = {}
    BY <1>3, <2>1, <2>2 DEF CC!Writers, Inside
  <2>4. CASE accident' = "torn"
    <3>1. accident = "torn" /\ db = CC!Torn /\ CC!Absent # CC!Torn
      BY <1>1, <2>1, <2>4, DBStates DEF CCTorn
    <3> QED
      BY <2>1, <2>2, <2>4, <3>1 DEF CCTorn
  <2>5. CASE accident' = "none"
    <3>1. accident = "none"
      BY <2>1, <2>5
    <3>2. db = IF recorded = CC!NoEntries THEN CC!Absent ELSE CC!Entries(recorded)
      BY <1>1, <2>3, <3>1 DEF CCWhole
    <3>3. worker'[w] = "write" /\ content'[w] = recorded
      BY <2>1, <2>5, <3>2, DBStates
    <3>4. CCWhole'
      BY <2>1, <2>2, <2>3, <3>2, <3>3 DEF CCWhole
    <3> QED
      BY <2>5, <3>4
  <2> QED
    BY <2>4, <2>5
<1>7. CASE CC!Open(w)
  <2>1. /\ worker[w] = "write" /\ worker'[w] = "dump" /\ db' = CC!Torn
        /\ recorded' = recorded /\ target' = target /\ accident' = accident
        /\ content' = [content EXCEPT ![w] = CC!Set(@, target[w], w)]
    BY <1>1, <1>7 DEF CC!TypeOK, CC!Open, CC!Move
  <2>2. accident # "torn"
    BY <1>1, <2>1 DEF CCTorn
  <2>3. CASE accident = "none"
    <3>1. content'[w] = CC!Set(recorded, target[w], w)
      BY <1>1, <2>1, <2>3 DEF CCWhole
    <3>2. w \in CC!Writers'
      BY <2>1 DEF CC!Writers
    <3>3. CCWhole'
      BY <1>2, <1>3, <2>1, <3>1, <3>2 DEF CCWhole, Inside
    <3> QED
      BY <2>1, <2>3, <3>3
  <2> QED
    BY <2>1, <2>2, <2>3
<1>8. CASE CC!Dump(w)
  <2>1. /\ worker[w] = "dump" /\ worker'[w] = "release" /\ db' = CC!Entries(content[w])
        /\ recorded' = CC!Set(recorded, target[w], w) /\ accident' = accident
    BY <1>1, <1>8 DEF CC!TypeOK, CC!Dump, CC!Move
  <2>2. accident # "torn"
    BY <1>1, <2>1 DEF CCTorn
  <2>3. CASE accident = "none"
    <3>1. content[w] = CC!Set(recorded, target[w], w)
      BY <1>1, <2>1, <2>3 DEF CCWhole
    <3>2. recorded' # CC!NoEntries
      BY <1>1, <2>1, SetFacts DEF CC!TypeOK
    <3>3. \A v \in Worker : worker'[v] \notin {"write", "dump"}
      BY <1>2, <1>3, <2>1 DEF Inside
    <3>4. CC!Writers' = {}
      BY <3>3 DEF CC!Writers
    <3>5. CCWhole'
      BY <2>1, <3>1, <3>2, <3>3, <3>4 DEF CCWhole
    <3> QED
      BY <2>1, <2>3, <3>5
  <2> QED
    BY <2>1, <2>2, <2>3
<1>9. CASE CC!Release(w)
  <2>1. /\ worker[w] = "release" /\ worker'[w] = "idle" /\ db' = db
        /\ recorded' = recorded /\ target' = target /\ accident' = accident
    BY <1>1, <1>9 DEF CC!TypeOK, CC!Release, CC!Move
  <2>2. accident # "torn"
    BY <1>1, <2>1 DEF CCTorn
  <2>3. CC!Writers' = CC!Writers
    BY <1>2, <2>1 DEF CC!Writers
  <2>4. \A v \in Worker : worker'[v] \notin {"write", "dump"}
    BY <1>2, <1>3, <2>1 DEF Inside
  <2>5. CCWhole => CCWhole'
    BY <2>1, <2>3, <2>4 DEF CCWhole
  <2> QED
    BY <1>1, <2>1, <2>2, <2>5
<1> QED
  BY <1>4, <1>5, <1>6, <1>7, <1>8, <1>9 DEF CC!Step

LEMMA CCStep == CCInv /\ CC!Next => CCInv'
<1> SUFFICES ASSUME CCInv, NEW w \in Worker,
                    CC!Step(w) \/ CC!Kill(w) \/ CC!NoCompiler(w) \/ \E f \in File : CC!Update(w, f)
             PROVE  CCInv'
  BY DEF CC!Next
<1>1. CC!TypeOK' /\ content' = [v \in Worker |-> content'[v]]
      /\ (CC!OneDirectory' <=> CC!OneDirectory)
  BY CCTypes
<1>2. CCLocked'
  BY CCLocks
<1>3. CC!OneDirectory' => CCAsOne'
  BY <1>1, CCKeepsFresh, CCFile DEF CCAsOne
<1> QED
  BY <1>1, <1>2, <1>3 DEF CCInv

LEMMA CCSafe == CCInv => CC!TypeOK /\ CC!NoUpdateLost /\ CC!TornIsFinal
<1> SUFFICES ASSUME CCInv PROVE CC!NoUpdateLost /\ CC!TornIsFinal
  BY DEF CCInv
<1>1. CC!TypeOK /\ CCLocked
  BY DEF CCInv
<1>2. ASSUME CC!OneDirectory, accident = "none", locks = [d \in Directory |-> CC!NoOne]
      PROVE  IF recorded = CC!NoEntries THEN db = CC!Absent ELSE db = CC!Entries(recorded)
  <2>1. \A w \in Worker : locks[cwd[w]] # w
    BY <1>1, <1>2, WorkersAreSomeone DEF CC!TypeOK
  <2>2. CC!Writers = {}
    BY <1>1, <2>1 DEF CC!TypeOK, CCLocked, Inside, CC!Writers
  <2> QED
    BY <1>2, <2>2 DEF CCInv, CCAsOne, CCWhole
<1>3. ASSUME CC!OneDirectory, accident = "none", NEW w \in Worker, worker[w] = "read"
      PROVE  db # CC!Torn
  <2>1. CC!Writers = {}
    BY <1>3, Exclusion DEF CC!Writers, Inside
  <2> QED
    BY <1>3, <2>1, DBStates DEF CCInv, CCAsOne, CCWhole
<1>4. ASSUME CC!OneDirectory, accident = "torn", NEW d \in Directory, locks[d] # CC!NoOne
      PROVE  worker[locks[d]] = "read"
  BY <1>1, <1>4 DEF CC!TypeOK, CCInv, CCAsOne, CCLocked, CCTorn, Inside
<1>5. ASSUME CC!OneDirectory, db.state = "json" PROVE CC!Newest(db.entries)
  BY <1>5, DBStates DEF CCInv, CCAsOne, CCFresh
<1> QED
  BY <1>2, <1>3, <1>4, <1>5 DEF CC!NoUpdateLost, CC!TornIsFinal, CCInv, CCAsOne, CCTorn

-----------------------------------------------------------------------------
(* A set of numbers that is not empty has a smallest: this takes the place *)
(* of induction.                                                           *)
LEMMA Smallest ==
  ASSUME NEW T \in SUBSET Nat, T # {}
  PROVE  \E n \in T : \A m \in T : n <= m
<1>1. PICK x \in T : \A y \in T : <<y, x>> \notin OpToRel(<, Nat)
  BY NatLessThanWellFounded, WFMin
<1>2. \A y \in T : y < x => <<y, x>> \in OpToRel(<, Nat)
  BY DEF OpToRel
<1>3. \A y \in T : ~(y < x)
  BY <1>1, <1>2
<1> QED
  BY <1>3

(* What 4.go and 5.go send: the first n + 1 numbers, and then all.         *)
FibRule(f, k) == IF k < 2 THEN k ELSE f[k - 1] + f[k - 2]
Begins(f, n) == f \in [0..n -> Nat] /\ \A k \in 0..n : f[k] = FibRule(f, k)
AllFib == [n \in Nat |-> (CHOOSE f : Begins(f, n))[n]]

(* The numbers begin in one way only, however many there are. *)
LEMMA SomeBegin == \A n \in Nat : \E f : Begins(f, n)
<1> DEFINE T == {n \in Nat : ~ \E f : Begins(f, n)}
<1> SUFFICES ASSUME T # {} PROVE FALSE
  OBVIOUS
<1>1. PICK m \in T : \A n \in T : m <= n
  BY Smallest
<1>2. CASE m = 0
  <2>1. Begins([k \in 0..0 |-> 0], 0)
    BY DEF Begins, FibRule
  <2> QED
    BY <1>2, <2>1
<1>3. CASE m > 0
  <2>1. m - 1 \in Nat /\ m - 1 \notin T
    BY <1>1, <1>3
  <2>2. PICK f : Begins(f, m - 1)
    BY <2>1
  <2> DEFINE g == [k \in 0..m |-> IF k < m THEN f[k] ELSE FibRule(f, m)]
  <2>3. \A k \in 0..(m - 1) : f[k] \in Nat
    BY <2>2 DEF Begins
  <2>4. FibRule(f, m) \in Nat
    BY <1>3, <2>1, <2>3 DEF FibRule
  <2>5. g \in [0..m -> Nat]
    BY <2>3, <2>4
  <2>6. \A k \in 0..m : g[k] = FibRule(g, k)
    BY <2>2, <1>3 DEF Begins, FibRule
  <2> QED
    BY <2>5, <2>6 DEF Begins
<1> QED
  BY <1>2, <1>3

LEMMA BeginsAgree ==
  ASSUME NEW n \in Nat, NEW m \in Nat, NEW f, NEW g, Begins(f, n), Begins(g, m)
  PROVE  \A k \in 0..n : k <= m => f[k] = g[k]
<1> DEFINE T == {k \in 0..n : k <= m /\ f[k] # g[k]}
<1> SUFFICES ASSUME T # {} PROVE FALSE
  OBVIOUS
<1>1. PICK k \in T : \A j \in T : k <= j
  <2>1. T \in SUBSET Nat
    OBVIOUS
  <2> QED
    BY <2>1, Smallest
<1>2. f[k] = FibRule(f, k) /\ g[k] = FibRule(g, k) /\ f[k] # g[k] /\ k \in Nat
  BY DEF Begins
<1>3. k >= 2
  BY <1>2 DEF FibRule
<1>4. k - 1 \in 0..n /\ k - 1 \notin T /\ k - 1 <= m /\ k - 2 \in 0..n /\ k - 2 \notin T /\ k - 2 <= m
  BY <1>1, <1>3
<1>5. f[k - 1] = g[k - 1] /\ f[k - 2] = g[k - 2]
  BY <1>4
<1> QED
  BY <1>2, <1>3, <1>5 DEF FibRule

(* So there is a function that follows the rule for all of them, and Fib,  *)
(* which is chosen among such functions, follows it.                       *)
LEMMA AllFibStep ==
  AllFib = [n \in Nat |-> IF n < 2 THEN n ELSE AllFib[n - 1] + AllFib[n - 2]]
<1> DEFINE B(n) == CHOOSE f : Begins(f, n)
<1>1. \A n \in Nat : Begins(B(n), n) /\ AllFib[n] = B(n)[n]
  BY SomeBegin DEF AllFib
<1>2. ASSUME NEW n \in Nat
      PROVE  AllFib[n] = IF n < 2 THEN n ELSE AllFib[n - 1] + AllFib[n - 2]
  <2>1. Begins(B(n), n) /\ AllFib[n] = B(n)[n]
    BY <1>1
  <2>2. B(n)[n] = FibRule(B(n), n)
    <3> HIDE DEF B
    <3>1. n \in 0..n
      OBVIOUS
    <3> QED
      BY <2>1, <3>1 DEF Begins
  <2>3. CASE n < 2
    BY <2>1, <2>2, <2>3 DEF FibRule
  <2>4. CASE n >= 2
    <3>1. n - 1 \in Nat /\ n - 2 \in Nat /\ n - 1 \in 0..n /\ n - 2 \in 0..n
          /\ n - 1 <= n - 1 /\ n - 2 <= n - 2
      BY <2>4
    <3>2. AllFib[n - 1] = B(n)[n - 1]
      BY <1>1, <2>1, <3>1, BeginsAgree
    <3>3. AllFib[n - 2] = B(n)[n - 2]
      BY <1>1, <2>1, <3>1, BeginsAgree
    <3> HIDE DEF B
    <3> QED
      BY <2>1, <2>2, <2>4, <3>2, <3>3 DEF FibRule
  <2> QED
    BY <2>3, <2>4
<1> HIDE DEF B
<1>3. DOMAIN AllFib = Nat /\ AllFib = [n \in Nat |-> AllFib[n]]
  BY DEF AllFib
<1> QED
  BY <1>2, <1>3

LEMMA FibStep ==
  \A n \in Nat : GC!Fib[n] = IF n < 2 THEN n ELSE GC!Fib[n - 1] + GC!Fib[n - 2]
<1>1. GC!Fib = [n \in Nat |-> IF n < 2 THEN n ELSE GC!Fib[n - 1] + GC!Fib[n - 2]]
  BY AllFibStep, Zenon DEF GC!Fib
<1> QED
  BY <1>1

LEMMA FibNat == \A n \in Nat : GC!Fib[n] \in Nat
<1> DEFINE T == {n \in Nat : GC!Fib[n] \notin Nat}
<1> SUFFICES ASSUME T # {} PROVE FALSE
  OBVIOUS
<1>1. PICK n \in T : \A m \in T : n <= m
  BY Smallest
<1>2. n >= 2
  BY FibStep
<1>3. n - 1 \in Nat /\ n - 2 \in Nat /\ n - 1 \notin T /\ n - 2 \notin T
  BY <1>1, <1>2
<1> QED
  BY <1>2, <1>3, FibStep

-----------------------------------------------------------------------------
(* Total is a fold of the set of positions of a slice, taken from its      *)
(* highest on: R has the sums of all sets of positions.                    *)
Summed(s, R) == R = [S \in SUBSET DOMAIN s |->
                       IF S = {} THEN 0 ELSE R[S \ {GC!Max(S)}] + s[GC!Max(S)]]

Part(s, S, k) == IF k \in S THEN s[k] ELSE 0
Sums(s) == [S \in SUBSET DOMAIN s |->
              Part(s, S, 1) + Part(s, S, 2) + Part(s, S, 3)
                + Part(s, S, 4) + Part(s, S, 5) + Part(s, S, 6)]

LEMMA MaxFacts ==
  ASSUME NEW S \in SUBSET (1..6), S # {}
  PROVE  GC!Max(S) \in S /\ \A y \in S : GC!Max(S) >= y
<1>1. \E x \in S : \A y \in S : x >= y
  <2> DEFINE T == {7 - x : x \in S}
  <2>1. T \in SUBSET Nat /\ T # {}
    OBVIOUS
  <2>2. PICK t \in T : \A u \in T : t <= u
    BY <2>1, Smallest
  <2> QED
    BY <2>2
<1> QED
  BY <1>1 DEF GC!Max

Sum6(p) == p[1] + p[2] + p[3] + p[4] + p[5] + p[6]

LEMMA OneLess ==
  ASSUME NEW p \in [1..6 -> Int], NEW q \in [1..6 -> Int], NEW x \in 1..6,
         \A k \in 1..6 : q[k] = IF k = x THEN 0 ELSE p[k]
  PROVE  Sum6(p) = Sum6(q) + p[x]
<1>1. p[1] \in Int /\ p[2] \in Int /\ p[3] \in Int /\ p[4] \in Int /\ p[5] \in Int /\ p[6] \in Int
  OBVIOUS
<1>2. /\ q[1] = (IF 1 = x THEN 0 ELSE p[1]) /\ q[2] = (IF 2 = x THEN 0 ELSE p[2])
      /\ q[3] = (IF 3 = x THEN 0 ELSE p[3]) /\ q[4] = (IF 4 = x THEN 0 ELSE p[4])
      /\ q[5] = (IF 5 = x THEN 0 ELSE p[5]) /\ q[6] = (IF 6 = x THEN 0 ELSE p[6])
  OBVIOUS
<1>3. x = 1 \/ x = 2 \/ x = 3 \/ x = 4 \/ x = 5 \/ x = 6
  OBVIOUS
<1> QED
  BY <1>1, <1>2, <1>3 DEF Sum6

LEMMA SumsAre ==
  ASSUME NEW n \in 1..6, NEW s \in [1..n -> Int]
  PROVE  Summed(s, Sums(s))
<1>1. ASSUME NEW S \in SUBSET (1..n), S # {}
      PROVE  Sums(s)[S] = Sums(s)[S \ {GC!Max(S)}] + s[GC!Max(S)]
  <2>0. S \in SUBSET (1..6)
    OBVIOUS
  <2>1. PICK x \in S : x = GC!Max(S)
    BY <1>1, <2>0, MaxFacts
  <2>2. x \in 1..6 /\ x \in 1..n /\ s[x] \in Int
    OBVIOUS
  <2> DEFINE p == [k \in 1..6 |-> Part(s, S, k)]
             q == [k \in 1..6 |-> Part(s, S \ {x}, k)]
  <2>3. p \in [1..6 -> Int] /\ q \in [1..6 -> Int]
    BY DEF Part
  <2>4. \A k \in 1..6 : q[k] = IF k = x THEN 0 ELSE p[k]
    BY DEF Part
  <2>5. p[x] = s[x]
    BY <2>2 DEF Part
  <2>6. Sums(s)[S] = Sum6(p) /\ Sums(s)[S \ {x}] = Sum6(q)
    BY DEF Sums, Sum6
  <2> HIDE DEF p, q
  <2>7. Sum6(p) = Sum6(q) + p[x]
    BY <2>2, <2>3, <2>4, OneLess
  <2> QED
    BY <2>1, <2>5, <2>6, <2>7
<1>2. Sums(s)[{}] = 0
  BY DEF Sums, Part
<1>3. Sums(s) = [S \in SUBSET DOMAIN s |-> Sums(s)[S]]
  BY DEF Sums
<1> QED
  BY <1>1, <1>2, <1>3 DEF Summed

LEMMA TotalSums ==
  ASSUME NEW n \in 1..6, NEW s \in [1..n -> Int]
  PROVE  \E R : Summed(s, R) /\ GC!Total(s) = R[DOMAIN s]
<1>1. \E R : Summed(s, R)
  BY SumsAre
<1>2. GC!Total(s) = (CHOOSE R : Summed(s, R))[DOMAIN s]
  BY DEF GC!Total, GC!FoldLeft, GC!MapThenFoldSet, Summed
<1> QED
  BY <1>1, <1>2, Zenon

LEMMA LastIs ==
  ASSUME NEW n \in 1..6
  PROVE  GC!Max(1..n) = n /\ (1..n) \ {n} = 1..(n - 1) /\ 1..n # {}
<1>1. 1..n \in SUBSET (1..6) /\ 1..n # {} /\ n \in 1..n
  OBVIOUS
<1>2. GC!Max(1..n) \in 1..n /\ GC!Max(1..n) >= n
  BY <1>1, MaxFacts
<1> QED
  BY <1>2

(* The sums of the beginnings of a slice. *)
LEMMA Prefixes ==
  ASSUME NEW n \in 1..6, NEW s \in [1..n -> Int], NEW R, Summed(s, R)
  PROVE  R[1..0] = 0 /\ \A k \in 1..n : R[1..k] = R[1..(k - 1)] + s[k]
<1>1. \A S \in SUBSET (1..n) : R[S] = IF S = {} THEN 0 ELSE R[S \ {GC!Max(S)}] + s[GC!Max(S)]
  BY Zenon DEF Summed
<1>2. 1..0 = {}
  OBVIOUS
<1>3. ASSUME NEW k \in 1..n
      PROVE  R[1..k] = R[1..(k - 1)] + s[k]
  <2>1. k \in 1..6 /\ 1..k \in SUBSET (1..n)
    OBVIOUS
  <2> QED
    BY <1>1, <2>1, LastIs
<1> QED
  BY <1>1, <1>2, <1>3

(* The halves of the slice and all of it. *)
LEMMA Totals ==
  /\ GC!Total(GC!Half(1)) = 17 /\ GC!Total(GC!Half(2)) = -5 /\ GC!Total(GC!Slice) = 12
<1>1. ASSUME NEW s \in [1..3 -> Int] PROVE GC!Total(s) = s[1] + s[2] + s[3]
  <2>1. PICK R : Summed(s, R) /\ GC!Total(s) = R[DOMAIN s]
    BY TotalSums
  <2>2. R[1..0] = 0 /\ \A k \in 1..3 : R[1..k] = R[1..(k - 1)] + s[k]
    BY <2>1, Prefixes
  <2>3. R[1..1] = R[1..0] + s[1] /\ R[1..2] = R[1..1] + s[2] /\ R[1..3] = R[1..2] + s[3]
    BY <2>2
  <2>4. s[1] \in Int /\ s[2] \in Int /\ s[3] \in Int /\ DOMAIN s = 1..3
    OBVIOUS
  <2> QED
    BY <2>1, <2>2, <2>3, <2>4
<1>2. ASSUME NEW s \in [1..6 -> Int] PROVE GC!Total(s) = Sum6(s)
  <2>1. PICK R : Summed(s, R) /\ GC!Total(s) = R[DOMAIN s]
    BY TotalSums
  <2>2. R[1..0] = 0 /\ \A k \in 1..6 : R[1..k] = R[1..(k - 1)] + s[k]
    BY <2>1, Prefixes
  <2>3. /\ R[1..1] = R[1..0] + s[1] /\ R[1..2] = R[1..1] + s[2] /\ R[1..3] = R[1..2] + s[3]
        /\ R[1..4] = R[1..3] + s[4] /\ R[1..5] = R[1..4] + s[5] /\ R[1..6] = R[1..5] + s[6]
    BY <2>2
  <2>4. /\ s[1] \in Int /\ s[2] \in Int /\ s[3] \in Int /\ DOMAIN s = 1..6
        /\ s[4] \in Int /\ s[5] \in Int /\ s[6] \in Int
    OBVIOUS
  <2> QED
    BY <2>1, <2>2, <2>3, <2>4 DEF Sum6
<1>3. GC!Slice \in [1..6 -> Int] /\ Len(GC!Slice) = 6
  BY DEF GC!Slice
<1>4. 6 \div 2 = 3
  OBVIOUS
<1>5. GC!Half(1) = SubSeq(GC!Slice, 1, 3) /\ GC!Half(2) = SubSeq(GC!Slice, 4, 6)
  BY <1>3, <1>4 DEF GC!Half
<1>6. GC!Slice \in Seq(Int)
  BY DEF GC!Slice
<1>7. GC!Half(1) \in [1..3 -> Int] /\ \A k \in 1..3 : GC!Half(1)[k] = GC!Slice[k]
  BY <1>3, <1>5, <1>6
<1>9. GC!Half(2) \in [1..3 -> Int] /\ \A k \in 1..3 : GC!Half(2)[k] = GC!Slice[k + 3]
  BY <1>3, <1>5, <1>6
<1>10. /\ GC!Half(1)[1] = 7 /\ GC!Half(1)[2] = 2 /\ GC!Half(1)[3] = 8
       /\ GC!Half(2)[1] = -9 /\ GC!Half(2)[2] = 4 /\ GC!Half(2)[3] = 0
  BY <1>7, <1>9 DEF GC!Slice
<1>11. GC!Total(GC!Half(1)) = 17
  BY <1>1, <1>7, <1>10
<1>12. GC!Total(GC!Half(2)) = -5
  BY <1>1, <1>9, <1>10
<1>8. GC!Total(GC!Slice) = 12
  BY <1>2, <1>3 DEF Sum6, GC!Slice
<1> QED
  BY <1>8, <1>11, <1>12

(* language/go/goroutine: what was received and what is in the buffer are  *)
(* together what was sent.                                                 *)
GCSums ==
  /\ buf = <<>>
  /\ \/ halves = {} /\ got = <<>>
     \/ \E h \in {1, 2} : halves = {h} /\ Len(got) = 1 /\ got[1] = GC!Total(GC!Half(h))
     \/ Len(got) = 2 /\ got[1] + got[2] = GC!Total(GC!Slice)
  /\ ended => Len(got) = 2

GotFib == \A k \in 1..Len(got) : got[k] = GC!Fib[k - 1]
PairIs(n) == pair[1] = GC!Fib[n] /\ pair[2] = GC!Fib[n + 1]

GCBuffered ==
  /\ GotFib /\ PairIs(i)
  /\ Len(got) + Len(buf) = i
  /\ \A k \in 1..Len(buf) : buf[k] = GC!Fib[Len(got) + k - 1]
  /\ closed => i = Cap
  /\ ended => closed /\ buf = <<>>

GCSelect ==
  /\ GotFib /\ PairIs(Len(got))
  /\ buf = <<>>
  /\ Len(got) <= Cap
  /\ ended => Len(got) = Cap

GCInv == /\ GC!TypeOK
         /\ prog = "2.go" => GCSums
         /\ prog = "4.go" => GCBuffered
         /\ prog = "5.go" => GCSelect

LEMMA FibStarts == GC!Fib[0] = 0 /\ GC!Fib[1] = 1
BY FibStep

(* x, y = y, x+y: the pair moves on by one. *)
LEMMA PairMoves ==
  ASSUME NEW n \in Nat, PairIs(n), GC!TypeOK, GC!NextPair
  PROVE  pair' \in Nat \X Nat /\ pair'[1] = GC!Fib[n + 1] /\ pair'[2] = GC!Fib[n + 1 + 1]
<1>1. pair' = <<GC!Fib[n + 1], GC!Fib[n] + GC!Fib[n + 1]>>
  BY DEF PairIs, GC!NextPair
<1>2. n + 1 \in Nat /\ n + 2 \in Nat /\ ~(n + 2 < 2) /\ n + 2 - 1 = n + 1 /\ n + 2 - 2 = n
      /\ n + 1 + 1 = n + 2
  OBVIOUS
<1>3. GC!Fib[n + 2] = GC!Fib[n + 1] + GC!Fib[n]
  BY <1>2, FibStep
<1>4. GC!Fib[n] \in Nat /\ GC!Fib[n + 1] \in Nat /\ GC!Fib[n + 2] \in Nat
  BY <1>2, FibNat
<1>5. GC!Fib[n] + GC!Fib[n + 1] = GC!Fib[n + 1 + 1]
  BY <1>2, <1>3, <1>4
<1> QED
  BY <1>1, <1>4, <1>5

LEMMA GCInit == GC!Init => GCInv
<1> SUFFICES ASSUME GC!Init PROVE GCInv
  OBVIOUS
<1>1. GC!TypeOK
  <2>1. /\ <<>> \in Seq(Nat) /\ <<>> \in Seq(Int) /\ Len(<<>>) = 0 /\ 0 <= Cap /\ 0 \in 0..Cap
        /\ <<0, 1>> \in Nat \X Nat /\ {} \subseteq {1, 2}
    BY CapPositive
  <2> QED
    BY <2>1, Zenon DEF GC!Init, GC!TypeOK
<1>2. GCSums
  BY DEF GC!Init, GCSums
<1>3. GotFib /\ PairIs(0)
  BY FibStarts DEF GC!Init, GotFib, PairIs
<1>4. GCBuffered /\ GCSelect
  BY <1>3, CapPositive DEF GC!Init, GCBuffered, GCSelect
<1> QED
  BY <1>1, <1>2, <1>4 DEF GCInv

LEMMA GCIdle == GCInv /\ UNCHANGED goVars => GCInv'
<1> SUFFICES ASSUME GCInv, UNCHANGED goVars PROVE GCInv'
  OBVIOUS
<1>1. /\ prog' = prog /\ buf' = buf /\ closed' = closed /\ pair' = pair /\ i' = i
      /\ halves' = halves /\ got' = got /\ ended' = ended
  BY DEF goVars
<1>2. GC!TypeOK' /\ (GCSums => GCSums')
  BY <1>1 DEF GCInv, GC!TypeOK, GCSums
<1>3. (GCBuffered => GCBuffered') /\ (GCSelect => GCSelect')
  BY <1>1 DEF GCBuffered, GCSelect, GotFib, PairIs
<1> QED
  BY <1>1, <1>2, <1>3 DEF GCInv

LEMMA GCStep == GCInv /\ GC!Next => GCInv'
<1> SUFFICES ASSUME GCInv, GC!Next PROVE GCInv'
  OBVIOUS
<1> USE CapPositive
<1>0. GC!TypeOK
  BY DEF GCInv
<1>1. CASE \E h \in {1, 2} : GC!SendSum(h)
  <2>1. PICK h \in {1, 2} : GC!SendSum(h)
    BY <1>1
  <2>2. /\ prog = "2.go" /\ h \notin halves /\ Len(got) < 2 /\ halves' = halves \cup {h}
        /\ got' = Append(got, GC!Total(GC!Half(h))) /\ prog' = prog /\ buf' = buf
        /\ closed' = closed /\ pair' = pair /\ i' = i /\ ended' = ended
    BY <2>1 DEF GC!SendSum
  <2>3. GC!Total(GC!Half(h)) \in Int
    BY Totals
  <2>4. got \in Seq(Int) /\ GCSums
    BY <1>0, <2>2 DEF GC!TypeOK, GCInv
  <2>5. /\ got' \in Seq(Int) /\ Len(got') = Len(got) + 1
        /\ got'[Len(got) + 1] = GC!Total(GC!Half(h))
        /\ \A k \in 1..Len(got) : got'[k] = got[k]
    BY <2>2, <2>3, <2>4
  <2>6. GC!TypeOK'
    BY <1>0, <2>2, <2>5 DEF GC!TypeOK
  <2>7. GCSums'
    <3>1. CASE halves = {} /\ got = <<>>
      <4>1. halves' = {h} /\ Len(got') = 1 /\ got'[1] = GC!Total(GC!Half(h))
        BY <2>2, <2>5, <3>1
      <4> QED
        BY <2>2, <2>4, <4>1 DEF GCSums
    <3>2. CASE \E g \in {1, 2} : halves = {g} /\ Len(got) = 1 /\ got[1] = GC!Total(GC!Half(g))
      <4>1. PICK g \in {1, 2} : halves = {g} /\ Len(got) = 1 /\ got[1] = GC!Total(GC!Half(g))
        BY <3>2
      <4>2. g # h /\ Len(got') = 2 /\ got'[1] = GC!Total(GC!Half(g)) /\ got'[2] = GC!Total(GC!Half(h))
        BY <2>2, <2>5, <4>1
      <4>3. (g = 1 /\ h = 2) \/ (g = 2 /\ h = 1)
        BY <4>2
      <4>4. got'[1] + got'[2] = GC!Total(GC!Slice)
        BY <4>2, <4>3, Totals
      <4> QED
        BY <2>2, <2>4, <4>2, <4>4 DEF GCSums
    <3> QED
      BY <2>2, <2>4, <3>1, <3>2 DEF GCSums
  <2> QED
    BY <2>2, <2>6, <2>7 DEF GCInv
<1>2. CASE GC!SumsPrinted
  <2>1. prog = "2.go" /\ prog' = prog /\ Len(got) = 2 /\ GCSums
        /\ buf' = buf /\ halves' = halves /\ got' = got
    BY <1>2 DEF GC!SumsPrinted, GCInv
  <2>2. GC!TypeOK'
    BY <1>0, <1>2 DEF GC!TypeOK, GC!SumsPrinted
  <2>3. GCSums'
    BY <2>1 DEF GCSums
  <2> QED
    BY <2>1, <2>2, <2>3 DEF GCInv
<1>3. CASE GC!Send
  <2>1. /\ prog = "4.go" /\ ~closed /\ i < Cap /\ Len(buf) < Cap /\ buf' = Append(buf, pair[1])
        /\ i' = i + 1 /\ GC!NextPair /\ prog' = prog /\ closed' = closed
        /\ halves' = halves /\ got' = got /\ ended' = ended
    BY <1>3 DEF GC!Send
  <2>2. GCBuffered /\ buf \in Seq(Nat) /\ pair[1] \in Nat /\ i \in Nat /\ got \in Seq(Int)
        /\ Len(got) \in Nat /\ Len(buf) \in Nat
    BY <1>0, <2>1 DEF GC!TypeOK, GCInv
  <2>3. /\ buf' \in Seq(Nat) /\ Len(buf') = Len(buf) + 1 /\ buf'[Len(buf) + 1] = pair[1]
        /\ \A k \in 1..Len(buf) : buf'[k] = buf[k]
    BY <2>1, <2>2
  <2>4. pair' \in Nat \X Nat /\ pair'[1] = GC!Fib[i + 1] /\ pair'[2] = GC!Fib[i + 1 + 1]
    BY <1>0, <2>1, <2>2, PairMoves DEF GCBuffered
  <2>5. GC!TypeOK'
    BY <1>0, <2>1, <2>2, <2>3, <2>4 DEF GC!TypeOK
  <2>6. PairIs(i)' /\ GotFib'
    BY <2>1, <2>2, <2>4 DEF PairIs, GCBuffered, GotFib
  <2>7. \A k \in 1..Len(buf') : buf'[k] = GC!Fib[Len(got) + k - 1]
    <3>1. pair[1] = GC!Fib[i] /\ Len(got) + (Len(buf) + 1) - 1 = i
      BY <2>2 DEF GCBuffered, PairIs
    <3>2. \A k \in 1..Len(buf) : buf[k] = GC!Fib[Len(got) + k - 1]
      BY <2>2 DEF GCBuffered
    <3>3. ASSUME NEW k \in 1..Len(buf') PROVE buf'[k] = GC!Fib[Len(got) + k - 1]
      <4>1. CASE k = Len(buf) + 1
        BY <2>3, <3>1, <4>1
      <4>2. CASE k # Len(buf) + 1
        <5>1. k \in 1..Len(buf)
          BY <2>2, <2>3, <4>2
        <5> QED
          BY <2>3, <3>2, <5>1
      <4> QED
        BY <4>1, <4>2
    <3> QED
      BY <3>3
  <2>8. Len(got) + Len(buf') = i + 1
    <3>1. Len(got) + Len(buf) = i
      BY <2>2 DEF GCBuffered
    <3> QED
      BY <2>2, <2>3, <3>1
  <2>9. ~ended
    BY <2>1, <2>2 DEF GCBuffered
  <2>10. GCBuffered'
    BY <2>1, <2>6, <2>7, <2>8, <2>9 DEF GCBuffered
  <2> QED
    BY <2>1, <2>5, <2>10 DEF GCInv
<1>4. CASE GC!Close \/ GC!RangeEnds
  <2>1. /\ prog = "4.go" /\ prog' = prog /\ buf' = buf /\ pair' = pair /\ i' = i
        /\ halves' = halves /\ got' = got
    BY <1>4 DEF GC!Close, GC!RangeEnds
  <2>2. GCBuffered
    BY <2>1 DEF GCInv
  <2>3. closed' \in BOOLEAN /\ ended' \in BOOLEAN /\ (closed' => i = Cap)
        /\ (ended' => closed' /\ buf = <<>>)
    <3>1. closed \in BOOLEAN /\ ended \in BOOLEAN /\ (closed => i = Cap)
          /\ (ended => closed /\ buf = <<>>)
      BY <1>0, <2>2, Zenon DEF GC!TypeOK, GCBuffered
    <3>2. CASE GC!Close
      <4>1. closed' = TRUE /\ ended' = ended /\ i = Cap
        BY <3>2 DEF GC!Close
      <4> QED
        BY <3>1, <4>1, Zenon
    <3>3. CASE GC!RangeEnds
      <4>1. closed' = closed /\ ended' = TRUE /\ closed /\ buf = <<>>
        BY <3>3 DEF GC!RangeEnds
      <4> QED
        BY <3>1, <4>1, Zenon
    <3> QED
      BY <1>4, <3>2, <3>3
  <2>4. GC!TypeOK'
    BY <1>0, <2>1, <2>3 DEF GC!TypeOK
  <2>5. GCBuffered'
    BY <2>1, <2>2, <2>3 DEF GCBuffered, GotFib, PairIs
  <2> QED
    BY <2>1, <2>4, <2>5 DEF GCInv
<1>5. CASE GC!Receive
  <2>1. /\ prog = "4.go" /\ ~ended /\ buf # <<>> /\ got' = Append(got, Head(buf)) /\ buf' = Tail(buf)
        /\ prog' = prog /\ closed' = closed /\ pair' = pair /\ i' = i /\ halves' = halves
        /\ ended' = ended
    BY <1>5 DEF GC!Receive
  <2>2. GCBuffered /\ buf \in Seq(Nat) /\ got \in Seq(Int) /\ Len(buf) <= Cap
    BY <1>0, <2>1 DEF GC!TypeOK, GCInv
  <2>3. /\ Head(buf) \in Nat /\ Head(buf) = buf[1] /\ buf' \in Seq(Nat) /\ Len(buf') = Len(buf) - 1
        /\ Len(buf) \in Nat \ {0} /\ \A k \in 1..Len(buf') : buf'[k] = buf[k + 1]
    BY <2>1, <2>2
  <2>4. /\ got' \in Seq(Int) /\ Len(got') = Len(got) + 1 /\ got'[Len(got) + 1] = Head(buf)
        /\ \A k \in 1..Len(got) : got'[k] = got[k]
    BY <2>1, <2>2, <2>3
  <2>5. Len(got) \in Nat /\ 1 \in 1..Len(buf) /\ Len(got) + 1 - 1 = Len(got)
    BY <2>2, <2>3
  <2>6. GC!TypeOK'
    BY <1>0, <2>1, <2>2, <2>3, <2>4 DEF GC!TypeOK
  <2>7. GotFib'
    <3>1. Head(buf) = GC!Fib[Len(got)]
      BY <2>2, <2>3, <2>5 DEF GCBuffered
    <3>2. \A k \in 1..Len(got) : got[k] = GC!Fib[k - 1]
      BY <2>2 DEF GCBuffered, GotFib
    <3>3. ASSUME NEW k \in 1..Len(got') PROVE got'[k] = GC!Fib[k - 1]
      <4>1. CASE k = Len(got) + 1
        BY <2>4, <2>5, <3>1, <4>1
      <4>2. CASE k # Len(got) + 1
        <5>1. k \in 1..Len(got)
          BY <2>4, <2>5, <4>2
        <5> QED
          BY <2>4, <3>2, <5>1
      <4> QED
        BY <4>1, <4>2
    <3> QED
      BY <3>3 DEF GotFib
  <2>8. Len(got') + Len(buf') = i
    BY <2>2, <2>3, <2>4, <2>5 DEF GCBuffered
  <2>9. ASSUME NEW k \in 1..Len(buf') PROVE buf'[k] = GC!Fib[Len(got') + k - 1]
    <3>1. k + 1 \in 1..Len(buf) /\ Len(got) + (k + 1) - 1 = Len(got') + k - 1
      BY <2>3, <2>4, <2>5
    <3> QED
      BY <2>2, <2>3, <3>1 DEF GCBuffered
  <2>10. PairIs(i)'
    BY <2>1, <2>2 DEF PairIs, GCBuffered
  <2>11. GCBuffered'
    BY <2>1, <2>2, <2>7, <2>8, <2>9, <2>10 DEF GCBuffered
  <2> QED
    BY <2>1, <2>6, <2>11 DEF GCInv
<1>6. CASE GC!SelectSend
  <2>1. /\ prog = "5.go" /\ ~ended /\ Len(got) < Cap /\ got' = Append(got, pair[1]) /\ GC!NextPair
        /\ prog' = prog /\ closed' = closed /\ buf' = buf /\ i' = i /\ halves' = halves
        /\ ended' = ended
    BY <1>6 DEF GC!SelectSend
  <2>2. GCSelect /\ got \in Seq(Int) /\ Len(got) \in Nat /\ pair[1] \in Nat
    BY <1>0, <2>1 DEF GC!TypeOK, GCInv
  <2>3. pair' \in Nat \X Nat /\ pair'[1] = GC!Fib[Len(got) + 1] /\ pair'[2] = GC!Fib[Len(got) + 1 + 1]
    BY <1>0, <2>1, <2>2, PairMoves DEF GCSelect
  <2>4. /\ got' \in Seq(Int) /\ Len(got') = Len(got) + 1 /\ got'[Len(got) + 1] = pair[1]
        /\ \A k \in 1..Len(got) : got'[k] = got[k]
    BY <2>1, <2>2
  <2>5. GC!TypeOK'
    BY <1>0, <2>1, <2>3, <2>4 DEF GC!TypeOK
  <2>6. GotFib'
    <3>1. pair[1] = GC!Fib[Len(got)] /\ Len(got) + 1 - 1 = Len(got)
      BY <2>2 DEF GCSelect, PairIs
    <3>2. \A k \in 1..Len(got) : got[k] = GC!Fib[k - 1]
      BY <2>2 DEF GCSelect, GotFib
    <3>3. ASSUME NEW k \in 1..Len(got') PROVE got'[k] = GC!Fib[k - 1]
      <4>1. CASE k = Len(got) + 1
        BY <2>4, <3>1, <4>1
      <4>2. CASE k # Len(got) + 1
        <5>1. k \in 1..Len(got)
          BY <2>2, <2>4, <4>2
        <5> QED
          BY <2>4, <3>2, <5>1
      <4> QED
        BY <4>1, <4>2
    <3> QED
      BY <3>3 DEF GotFib
  <2>7. PairIs(Len(got))'
    BY <2>3, <2>4 DEF PairIs
  <2>8. GCSelect'
    BY <2>1, <2>2, <2>4, <2>6, <2>7 DEF GCSelect
  <2> QED
    BY <2>1, <2>5, <2>8 DEF GCInv
<1>7. CASE GC!SelectQuit
  <2>1. /\ prog = "5.go" /\ prog' = prog /\ got' = got /\ pair' = pair /\ buf' = buf
        /\ Len(got) = Cap
    BY <1>7 DEF GC!SelectQuit
  <2>2. GC!TypeOK'
    BY <1>0, <1>7 DEF GC!TypeOK, GC!SelectQuit
  <2>3. GCSelect'
    BY <2>1 DEF GCInv, GCSelect, GotFib, PairIs
  <2> QED
    BY <2>1, <2>2, <2>3 DEF GCInv
<1> QED
  BY <1>1, <1>2, <1>3, <1>4, <1>5, <1>6, <1>7 DEF GC!Next

LEMMA GCSafe == GCInv => GC!TypeOK /\ GC!Delivered
<1> SUFFICES ASSUME GCInv PROVE GC!Delivered
  BY DEF GCInv
<1>1. got \in Seq(Int) /\ Cap \in Nat \ {0} /\ prog \in {"2.go", "4.go", "5.go"}
  BY CapPositive DEF GCInv, GC!TypeOK, GC!Programs
<1>2. CASE prog = "2.go"
  <2>1. GCSums
    BY <1>2 DEF GCInv
  <2>2. ended => got[1] + got[2] = GC!Total(GC!Slice)
    <3>1. SUFFICES ASSUME ended PROVE got[1] + got[2] = GC!Total(GC!Slice)
      OBVIOUS
    <3>2. Len(got) = 2 /\ Len(<<>>) = 0
      BY <2>1, <3>1 DEF GCSums
    <3>3. got # <<>> /\ Len(got) # 1
      BY <3>2
    <3> QED
      BY <2>1, <3>3, Zenon DEF GCSums
  <2> QED
    BY <1>2, <2>2 DEF GC!Delivered
<1>3. GotFib => got = [k \in DOMAIN got |-> GC!Fib[k - 1]]
  <2>1. DOMAIN got = 1..Len(got) /\ got = [k \in DOMAIN got |-> got[k]]
    BY <1>1
  <2> QED
    BY <2>1, Zenon DEF GotFib
<1>4. CASE prog = "4.go"
  <2>1. GotFib /\ (ended => Len(got) = Cap /\ buf = <<>>)
    BY <1>1, <1>4 DEF GCInv, GCBuffered, GC!TypeOK
  <2> QED
    BY <1>3, <1>4, <2>1 DEF GC!Delivered
<1>5. CASE prog = "5.go"
  <2>1. GotFib /\ (ended => Len(got) = Cap /\ buf = <<>>)
    BY <1>1, <1>5 DEF GCInv, GCSelect
  <2> QED
    BY <1>3, <1>5, <2>1 DEF GC!Delivered
<1> QED
  BY <1>1, <1>2, <1>4, <1>5

-----------------------------------------------------------------------------
(* All of them: the program that runs steps, the others stay as they are.  *)
Inv == CVInv /\ TLInv /\ SCInv /\ GCInv /\ CCInv

LEMMA InvInit == Init => Inv
BY CVInit, TLInit, SCInit, GCInit, CCInit DEF Init, Inv

LEMMA InvStep == Inv /\ [Next]_vars => Inv'
<1> SUFFICES ASSUME Inv, [Next]_vars PROVE Inv'
  OBVIOUS
<1>0. CVInv /\ TLInv /\ SCInv /\ GCInv /\ CCInv
  BY DEF Inv
<1>1. CASE RunsCV
  BY <1>0, <1>1, CVStep, TLIdle, SCIdle, GCIdle, CCIdle DEF RunsCV, Inv
<1>2. CASE RunsThreadLib
  BY <1>0, <1>2, CVIdle, TLStep, SCIdle, GCIdle, CCIdle DEF RunsThreadLib, Inv
<1>3. CASE RunsCounter
  BY <1>0, <1>3, CVIdle, TLIdle, SCStep, GCIdle, CCIdle DEF RunsCounter, Inv
<1>4. CASE RunsChannels
  BY <1>0, <1>4, CVIdle, TLIdle, SCIdle, GCStep, CCIdle DEF RunsChannels, Inv
<1>5. CASE RunsEdk2
  BY <1>0, <1>5, CVIdle, TLIdle, SCIdle, GCIdle, CCStep DEF RunsEdk2, Inv
<1>6. CASE UNCHANGED vars
  <2>1. UNCHANGED cvVars /\ UNCHANGED threadVars /\ UNCHANGED counterVars /\ UNCHANGED goVars
        /\ UNCHANGED ccVars
    BY <1>6 DEF vars
  <2> QED
    BY <1>0, <2>1, CVIdle, TLIdle, SCIdle, GCIdle, CCIdle DEF Inv
<1> QED
  BY <1>1, <1>2, <1>3, <1>4, <1>5, <1>6 DEF Next

LEMMA InvSafe == Inv => TypeOK /\ Safe
BY TLSafe, GCSafe, CCSafe DEF Inv, CVInv, SCInv, TypeOK, Safe

(* Every variable of every program keeps its type. *)
THEOREM TypeCorrect == Spec => []TypeOK
<1>1. Inv => TypeOK
  BY InvSafe
<1> QED
  BY InvInit, InvStep, <1>1, PTL DEF Spec

(* Permits are taken by one thread each, the threads of thread.cpp lose no *)
(* count, the goroutines no increment, and channels no number; the         *)
(* database has every update until a worker is killed or fails as it       *)
(* writes, which leaves it torn for every worker that can read it, or one  *)
(* cannot read it and starts it anew.                                      *)
THEOREM AllSafe == Spec => []Safe
<1>1. Inv => Safe
  BY InvSafe
<1> QED
  BY InvInit, InvStep, <1>1, PTL DEF Spec
=============================================================================
