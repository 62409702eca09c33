-------------------------------- MODULE LIS --------------------------------
(***************************************************************************)
(* LongestIncreasingSubsequence of algorithm/wheels/LIS.cpp. Arrays are    *)
(* functions from 0, as in the code; n is at least 1, since the code reads *)
(* tailIndices[0] even when it is empty.                                   *)
(***************************************************************************)
EXTENDS Integers, Sequences, FiniteSetsExt

CONSTANT Arrays

VARIABLES arr, tailIndices, prevIndices, len,
          next,       \* i of the first loop
          at,         \* i of the printing loop, -1 when it is over
          chain,      \* what was printed
          astray      \* tailIndices[-1] was read

lisVars == <<arr, tailIndices, prevIndices, len, next, at, chain, astray>>

n == Cardinality(DOMAIN arr)

Init == /\ arr \in Arrays
        /\ tailIndices = [k \in DOMAIN arr |-> 0]
        /\ prevIndices = [k \in DOMAIN arr |-> -1]
        /\ len = 1 /\ next = 1
        /\ at = -1 /\ chain = <<>>
        /\ astray = FALSE

(* GetCeilIndex(arr, T, -1, len - 1, key): the first of the tails, but the *)
(* last one if all before it are smaller, that is not below key.           *)
GetCeilIndex(key) ==
  LET search[w \in (-1..n) \X (0..n)] ==
        IF w[2] - w[1] > 1
          THEN LET m == w[1] + (w[2] - w[1]) \div 2
               IN IF arr[tailIndices[m]] >= key THEN search[<<w[1], m>>] ELSE search[<<m, w[2]>>]
          ELSE w[2]
  IN search[<<-1, len - 1>>]

Smallest == /\ next < n
            /\ arr[next] < arr[tailIndices[0]]
            /\ tailIndices' = [tailIndices EXCEPT ![0] = next]
            /\ next' = next + 1
            /\ UNCHANGED <<arr, prevIndices, len, at, chain, astray>>

(* Mutant: an equal element extends the subsequence too. *)
Extend_Equal ==
  /\ next < n
  /\ arr[next] >= arr[tailIndices[0]] /\ arr[next] >= arr[tailIndices[len - 1]]
  /\ prevIndices' = [prevIndices EXCEPT ![next] = tailIndices[len - 1]]
  /\ tailIndices' = [tailIndices EXCEPT ![len] = next]
  /\ len' = len + 1
  /\ next' = next + 1
  /\ UNCHANGED <<arr, at, chain, astray>>

Extend == /\ next < n
          /\ arr[next] >= arr[tailIndices[0]] /\ arr[next] > arr[tailIndices[len - 1]]
          /\ prevIndices' = [prevIndices EXCEPT ![next] = tailIndices[len - 1]]
          /\ tailIndices' = [tailIndices EXCEPT ![len] = next]
          /\ len' = len + 1
          /\ next' = next + 1
          /\ UNCHANGED <<arr, at, chain, astray>>

(* An element equal to the smallest has pos = 0, and tailIndices[-1] is    *)
(* whatever lies before the vector's elements: any number, of which those  *)
(* that are an index, or end the printing, are told apart.                 *)
Replace ==
  /\ next < n
  /\ arr[next] >= arr[tailIndices[0]] /\ arr[next] <= arr[tailIndices[len - 1]]
  /\ LET pos == GetCeilIndex(arr[next])
     IN /\ \E before \in IF pos = 0 THEN -1..n - 1 ELSE {tailIndices[pos - 1]} :
             prevIndices' = [prevIndices EXCEPT ![next] = before]
        /\ tailIndices' = [tailIndices EXCEPT ![pos] = next]
        /\ astray' = (astray \/ pos = 0)
  /\ next' = next + 1
  /\ UNCHANGED <<arr, len, at, chain>>

PrintLast == /\ next >= n /\ chain = <<>>
             /\ chain' = <<arr[tailIndices[len - 1]]>>
             /\ at' = prevIndices[tailIndices[len - 1]]
             /\ UNCHANGED <<arr, tailIndices, prevIndices, len, next, astray>>

(* A previous index that was read astray may lead into a cycle: it is      *)
(* followed for n elements.                                                *)
PrintNext == /\ chain # <<>> /\ at >= 0
         /\ Len(chain) <= n
         /\ chain' = Append(chain, arr[at])
         /\ at' = prevIndices[at]
         /\ UNCHANGED <<arr, tailIndices, prevIndices, len, next, astray>>

Next == Smallest \/ Extend \/ Replace \/ PrintLast \/ PrintNext

-----------------------------------------------------------------------------
(* The increasing subsequences of the first m elements, as sets of indices. *)
Increasing(m) == {S \in SUBSET (0..m - 1) : \A j, k \in S : j < k => arr[j] < arr[k]}

(* The longest subsequence so far has len elements, and of those with k + 1 *)
(* elements the tail ends one with the smallest last element: replacing a  *)
(* tail never loses a subsequence that can still become the longest.       *)
BestTails ==
  LET sub == Increasing(next) \ {{}}
  IN /\ len = Max({Cardinality(S) : S \in sub})
     /\ \A k \in 0..len - 1 :
          arr[tailIndices[k]] = Min({arr[Max(S)] : S \in {T \in sub : Cardinality(T) = k + 1}})

(* The sequence printed, last element first, is increasing and has len     *)
(* elements, unless tailIndices[-1] was read on the way.                   *)
PrintsLongest ==
  chain # <<>> /\ at < 0 /\ ~astray =>
    /\ Len(chain) = len
    /\ \A k \in 1..len - 1 : chain[k] > chain[k + 1]
=============================================================================
