---------------------------- MODULE MiniCrtPrint ----------------------------
(***************************************************************************)
(* printf.c, io.c and string.c of compiler/programmer/code/13: printf,     *)
(* puts and strcpy of the mini C runtime, one write(2) or character at a   *)
(* time. The program is linked statically: its data and its heap lie in    *)
(* the first 4 GB, the stack above. A format is a sequence of characters;  *)
(* an argument is a number of Width bits, a pointer of twice as many, or a *)
(* string and where it lies.                                               *)
(***************************************************************************)
EXTENDS Integers, Sequences, SequencesExt, FiniteSetsExt

CONSTANTS CallsOfPrintf,    \* [fmt, args], a value or string for each conversion
          Texts,            \* strings that puts may get
          Copies,           \* [mem, dst, src] for strcpy, NUL ending its strings
          Width             \* of an int; long long and pointers have twice as many bits

VARIABLES call, closed,     \* what main calls; stdout is closed
          at, arg, text,    \* traverse, the next argument, what _puts has left
          out, len,         \* what was written; printf's len
          status, result,   \* how the call ends, and what it returns
          mem, dst, src     \* strcpy's

printVars == <<call, closed, at, arg, text, out, len, status, result, mem, dst, src>>
copyVars == <<mem, dst, src>>

NUL == "NUL"
EOF == -1
Low(s) == [text |-> s, low |-> TRUE]
High(s) == [text |-> s, low |-> FALSE]
Nothing == Low(<<>>)

Init == /\ call \in [printf : CallsOfPrintf] \cup [puts : Texts] \cup [strcpy : Copies]
        /\ closed \in IF "strcpy" \in DOMAIN call THEN {FALSE} ELSE BOOLEAN
        /\ at = 1 /\ arg = 1 /\ text = Nothing
        /\ out = <<>> /\ len = 0 /\ status = "runs" /\ result = 0
        /\ IF "strcpy" \in DOMAIN call
             THEN mem = call.strcpy.mem /\ dst = call.strcpy.dst /\ src = call.strcpy.src
             ELSE mem = <<>> /\ dst = 0 /\ src = 0

(* write: a closed file is EBADF, which nobody looks at. int 0x80 cuts the *)
(* pointer to 32 bits: a buffer on the stack is EFAULT, and ends the       *)
(* process with 14. *)
Write(s) == IF closed THEN UNCHANGED <<out, status>>
            ELSE IF s.low THEN out' = out \o s.text /\ UNCHANGED status
            ELSE status' = "exit 14" /\ UNCHANGED out

InPrintf == "printf" \in DOMAIN call /\ status = "runs"
fmt == call.printf.fmt

(* The digits of convert, the last one first found; bases from 8 up.       *)
Convert(num, base) ==
  LET digits[n \in 0..num] == IF n < base THEN <<n>> ELSE Append(digits[n \div base], n % base)
  IN Low(digits[num])

(* The powers of b up to that of Width. *)
Power(b) == LET power[k \in 0..Width] == IF k = 0 THEN 1 ELSE b * power[k - 1] IN power

Unsigned(n) == n % Power(2)[Width]

(* What %p converts is the pointer as a long long, with its sign. *)
LongLong(pointer) == IF pointer < Power(4)[Width] \div 2 THEN pointer ELSE pointer - Power(4)[Width]

(* The characters of fmt outside conversions. *)
Literal == /\ InPrintf /\ text.text = <<>> /\ at <= Len(fmt) /\ fmt[at] # "%"
           /\ Write(Low(<<fmt[at]>>))
           /\ at' = at + 1 /\ len' = len + 1
           /\ UNCHANGED <<call, closed, arg, text, result, copyVars>>

Takes == {"c", "d", "o", "s", "p", "x"}

(* Mutant: %o and %x convert with base 10. *)
Shown_Decimal(conv, v) == IF conv = "s" THEN v ELSE Convert(Unsigned(v.num), 10)

(* What %d, %o, %x, %p and %s put. i is unsigned, so i < 0 is false and    *)
(* the bar is never put: %d shows a negative number plus 2^Width. A        *)
(* pointer that is not negative is as it was before the cast.              *)
Shown(conv, v) == CASE conv = "d" -> Convert(Unsigned(v.num), 10)
                    [] conv = "o" -> Convert(Unsigned(v.num), 8)
                    [] conv = "x" -> Convert(Unsigned(v.num), 16)
                    [] conv = "p" -> Convert(LongLong(v.num), 16)
                    [] conv = "s" -> v

(* Another conversion, %% among them, puts nothing. *)
Fetch(conv) ==
  /\ IF conv = "c"
       THEN Write(High(<<call.printf.args[arg].num>>)) /\ len' = len + 1 /\ UNCHANGED text
       ELSE /\ text' = IF conv \in Takes THEN Shown(conv, call.printf.args[arg]) ELSE Nothing
            /\ UNCHANGED <<out, status, len>>
  /\ arg' = IF conv \in Takes THEN arg + 1 ELSE arg
Converts == InPrintf /\ text.text = <<>> /\ at < Len(fmt) /\ fmt[at] = "%"
NoDigit == fmt[at + 1] = "p" /\ LongLong(call.printf.args[arg].num) < 0

Conversion == /\ Converts /\ ~NoDigit
              /\ Fetch(fmt[at + 1])
              /\ at' = at + 2
              /\ UNCHANGED <<call, closed, result, copyVars>>

(* The rest of a negative number by 16 is none or negative: convert takes  *)
(* its digits from before Representation.                                  *)
BeforeDigits == /\ Converts /\ NoDigit
                /\ status' = "astray"
                /\ UNCHANGED <<call, closed, at, arg, text, out, len, result, copyVars>>

(* After a lone % at the end the loop steps over the NUL, and reads on     *)
(* behind the string. *)
Overrun == /\ InPrintf /\ text.text = <<>> /\ at = Len(fmt) /\ fmt[at] = "%"
           /\ status' = "astray"
           /\ UNCHANGED <<call, closed, at, arg, text, out, len, result, copyVars>>

(* _puts. Mutant: only what was written counts, and it stops there. *)
Puts_StopsShort == /\ InPrintf /\ text.text # <<>>
                   /\ Write([text EXCEPT !.text = <<Head(@)>>])
                   /\ text' = IF closed THEN Nothing ELSE [text EXCEPT !.text = Tail(@)]
                   /\ len' = len + 1
                   /\ UNCHANGED <<call, closed, at, arg, result, copyVars>>
Puts == /\ InPrintf /\ text.text # <<>>
        /\ Write([text EXCEPT !.text = <<Head(@)>>])
        /\ text' = IF Len(text.text) = 1 THEN Nothing ELSE [text EXCEPT !.text = Tail(@)]
        /\ len' = len + 1
        /\ UNCHANGED <<call, closed, at, arg, result, copyVars>>

Return == /\ InPrintf /\ text.text = <<>> /\ at > Len(fmt)
          /\ status' = "returned" /\ result' = len
          /\ UNCHANGED <<call, closed, at, arg, text, out, len, copyVars>>

(* puts(str, stream): one write of all of it, which may write less. *)
PutString == /\ "puts" \in DOMAIN call /\ status = "runs"
             /\ LET s == call.puts IN
                IF ~closed /\ ~s.low THEN status' = "exit 14" /\ UNCHANGED <<out, result>>
                ELSE \E n \in IF closed THEN {0} ELSE 0..Len(s.text) :
                       /\ status' = "returned"
                       /\ out' = SubSeq(s.text, 1, n)
                       /\ result' = IF n = Len(s.text) /\ ~closed THEN n ELSE EOF
             /\ UNCHANGED <<call, closed, at, arg, text, len, copyVars>>

(* strcpy, a character at a time; past the end of the memory it dies.      *)
Copy == /\ "strcpy" \in DOMAIN call /\ status = "runs"
        /\ IF ~({src, dst} \subseteq DOMAIN mem) THEN status' = "astray" /\ UNCHANGED <<result, copyVars>>
           ELSE /\ mem' = [mem EXCEPT ![dst] = mem[src]]
                /\ IF mem[src] = NUL
                     THEN status' = "returned" /\ result' = call.strcpy.dst /\ UNCHANGED <<dst, src>>
                     ELSE dst' = dst + 1 /\ src' = src + 1 /\ UNCHANGED <<status, result>>
        /\ UNCHANGED <<call, closed, at, arg, text, out, len>>

Next == Literal \/ Conversion \/ BeforeDigits \/ Overrun \/ Puts \/ Return \/ PutString \/ Copy

-----------------------------------------------------------------------------
(* The formats that this printf is right for, and what a call has for the *)
(* conversion at k.                                                        *)
Conversions(c) == {k \in DOMAIN c.fmt : c.fmt[k] = "%"}
Argument(c, k) == c.args[Cardinality({j \in Conversions(c) : j <= k})]
TakesAll(c) == \A k \in Conversions(c) : k < Len(c.fmt) /\ c.fmt[k + 1] \in Takes
HasDigits(conv, v) == /\ conv = "d" => v.num >= 0
                      /\ conv = "p" => LongLong(v.num) >= 0
Supported == /\ "printf" \in DOMAIN call /\ TakesAll(call.printf)
             /\ \A k \in Conversions(call.printf) : HasDigits(fmt[k + 1], Argument(call.printf, k))

(* What the caller of printf owes: strings for %s, pointers for %p, and    *)
(* numbers of Width bits, with or without a sign, for the others.          *)
Typed(c) == /\ c.fmt \in Seq(STRING)
            /\ TakesAll(c) => \A k \in Conversions(c) :
                 IF c.fmt[k + 1] = "s"
                   THEN Argument(c, k) \in [text : Seq(STRING), low : BOOLEAN]
                 ELSE IF c.fmt[k + 1] = "p"
                   THEN Argument(c, k).num \in Nat /\ Argument(c, k).num < Power(4)[Width]
                   ELSE Argument(c, k).num \in Int /\ Argument(c, k).num < Power(2)[Width]

(* What C promises of a format: its characters, each conversion replaced.  *)
Numeral(n, base) ==
  LET l == CHOOSE k \in 1..Width : n < Power(base)[k] /\ (k = 1 \/ Power(base)[k - 1] <= n)
  IN [k \in 1..l |-> (n \div Power(base)[l - k]) % base]
Meant(conv, v) == CASE conv = "c" -> <<v.num>>
                    [] conv = "s" -> v.text
                    [] conv = "d" -> Numeral(v.num, 10)
                    [] conv = "o" -> Numeral(Unsigned(v.num), 8)
                    [] conv = "x" -> Numeral(Unsigned(v.num), 16)
                    [] conv = "p" -> Numeral(v.num, 16)
MeantAt(c, k) == CASE k \in Conversions(c) -> Meant(c.fmt[k + 1], Argument(c, k))
                   [] k - 1 \in Conversions(c) -> <<>>
                   [] OTHER -> <<c.fmt[k]>>
MeantUpTo(c) ==
  LET upTo[k \in 0..Len(c.fmt)] == IF k = 0 THEN <<>> ELSE upTo[k - 1] \o MeantAt(c, k) IN upTo
Expected == MeantUpTo(call.printf)[Len(fmt)]

(* printf writes what C says, character by character, and returns how many *)
(* that were, also when all of them failed; a run cut short by EFAULT has  *)
(* written what comes before the character on the stack.                   *)
PrintsFormat ==
  Supported => /\ IsPrefix(out, Expected)
               /\ status # "astray"
               /\ status = "returned" => /\ result = Len(Expected)
                                         /\ out = IF closed THEN <<>> ELSE Expected
               /\ status = "exit 14" => out # Expected

(* Only a character that is not in the first 4 GB ends the process, and    *)
(* then always: %c is put from the stack, so it never prints.              *)
OnStack(c, k) == \/ c.fmt[k + 1] = "c"
                 \/ c.fmt[k + 1] = "s" /\ ~Argument(c, k).low /\ Argument(c, k).text # <<>>
OnlyStackFaults ==
  Supported /\ ~closed =>
    LET faults == \E k \in Conversions(call.printf) : OnStack(call.printf, k)
    IN /\ status = "exit 14" => faults
       /\ status = "returned" => ~faults

(* strcpy leaves the string at its destination and the rest alone, unless  *)
(* the destination lies within the source: then it overwrites the NUL that *)
(* would stop it.                                                          *)
Strlen(m, p) == CHOOSE n \in 0..Len(m) : m[p + n] = NUL /\ \A k \in 0..n - 1 : m[p + k] # NUL
CopiesString ==
  "strcpy" \in DOMAIN call =>
    LET c == call.strcpy
        n == Strlen(c.mem, c.src)
    IN IF c.src < c.dst /\ c.dst <= c.src + n THEN status \in {"runs", "astray"}
       ELSE /\ status = "astray" => c.dst + n > Len(c.mem)
            /\ status = "returned" => \A k \in DOMAIN mem :
                 mem[k] = IF k \in c.dst .. c.dst + n THEN c.mem[c.src + k - c.dst] ELSE c.mem[k]

Finishes == <>(status # "runs")
=============================================================================
