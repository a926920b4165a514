-------------------------------- MODULE Text --------------------------------
(***************************************************************************)
(* Texts and numbers: lib/string.c, lib/ctype.c, lib/stdlib.c,             *)
(* kernel/itoa.c and kernel/itoBCD.c.                                      *)
(*                                                                         *)
(* A text is the sequence of its characters, without the zero that ends    *)
(* it.  Integers wrap, as they do in the build (clang without optimising). *)
(***************************************************************************)
EXTENDS Integers, SequencesExt

CONSTANT IntSize   \* how many values an int has (2^32)

\* Even, and with room for three digits.
ASSUME IntAssumption ==
  IntSize \in Nat /\ IntSize % 2 = 0 /\ IntSize \div 2 > 999

\* The characters the texts are made of, in the order of their codes.
Alphabet == <<"\t", "\n", "\f", "\r", " ", "+", ",", "-", "/",
              "0", "1", "2", "3", "4", "5", "6", "7", "8", "9", ":",
              "a", "b", "c", "d", "e", "f", "g", "h", "i", "j", "k", "l", "m",
              "n", "o", "p", "q", "r", "s", "t", "u", "v", "w", "x", "y", "z">>
Char == Range(Alphabet)
CodeOf == [c \in Char |-> CHOOSE k \in DOMAIN Alphabet : Alphabet[k] = c]
Digits == {c \in Char : CodeOf["0"] <= CodeOf[c] /\ CodeOf[c] <= CodeOf["9"]}

\* The code of a character, 0 behind the end.
CodeAt(s, k) == IF k \in DOMAIN s THEN CodeOf[s[k]] ELSE 0

Take(s, n) == SubSeq(s, 1, IF n < Len(s) THEN n ELSE Len(s))
From(s, k) == SubSeq(s, k, Len(s))

\* The first place of s with a character that is not in C.
FirstOutside(s, C) ==
  CHOOSE k \in 1..(Len(s) + 1) :
    /\ k <= Len(s) => s[k] \notin C
    /\ \A j \in 1..(k - 1) : s[j] \in C

----------------------------------------------------------------------------
\* The first place where s and t differ or both end.
Differ(s, t) ==
  CHOOSE k \in 1..(Len(s) + 1) :
    /\ k > Len(s) \/ CodeAt(s, k) # CodeAt(t, k)
    /\ \A j \in 1..(k - 1) : CodeAt(s, j) = CodeAt(t, j)

strcmp(s, t) == CodeAt(s, Differ(s, t)) - CodeAt(t, Differ(s, t))

\* Seeded fault: the end of the shorter text ends the comparison as equal.
StrncmpShorter(s, t, n) ==
  LET k == Differ(s, t)
  IN  IF k > n \/ CodeAt(s, k) = 0 \/ CodeAt(t, k) = 0 THEN 0
      ELSE CodeAt(s, k) - CodeAt(t, k)

strncmp(s, t, n) == IF Differ(s, t) > n THEN 0 ELSE strcmp(s, t)

isspace(c) == c \in {" ", "\n", "\r", "\f", "\t"}

(***************************************************************************)
(* atoi: leading space, a sign, digits; what follows is not looked at.     *)
(***************************************************************************)
Wrap(n) == ((n + IntSize \div 2) % IntSize) - (IntSize \div 2)

AppendDigit(res, c) == Wrap(res * 10 + (CodeOf[c] - CodeOf["0"]))

\* The digits one after the other.
NumberOf(digits) ==
  LET res[n \in 0..Len(digits)] ==
        IF n = 0 THEN 0 ELSE AppendDigit(res[n - 1], digits[n])
  IN  res[Len(digits)]

atoi(s) ==
  LET u == From(s, FirstOutside(s, {c \in Char : isspace(c)}))
      signed == u # <<>> /\ Head(u) \in {"-", "+"}
      v == IF signed THEN Tail(u) ELSE u
      res == NumberOf(Take(v, FirstOutside(v, Digits) - 1))
  IN  IF signed /\ Head(u) = "-" THEN Wrap(-res) ELSE res

(***************************************************************************)
(* itoa: the highest power of ten in the number, then digit by digit.      *)
(***************************************************************************)
TenToThe[k \in Nat] == IF k = 0 THEN 1 ELSE 10 * TenToThe[k - 1]

\* Seeded fault: a number that is a power of ten has one digit less.
MaxPowerAbove[n \in Nat] == IF n <= 10 THEN 0 ELSE 1 + MaxPowerAbove[n \div 10]
PowerAbove(n) == MaxPowerAbove[n]

MaxPowerOf[n \in Nat] ==
  IF n > 1 /\ n \div 10 >= 1 THEN 1 + MaxPowerOf[n \div 10] ELSE 0
MaxPower(n) == MaxPowerOf[n]

ToChar(d) == Alphabet[CodeOf["0"] + d]

itoa(num) ==
  LET numLeft == IF num < 0 THEN -num ELSE num
      p == MaxPower(numLeft)
      digits == [k \in 1..(p + 1) |->
                   ToChar((numLeft \div TenToThe[p + 1 - k]) % 10)]
  IN  IF num < 0 THEN <<"-">> \o digits ELSE digits

(***************************************************************************)
(* itoBCD: four binary digits for each digit; nothing for zero.            *)
(***************************************************************************)
PowerOf[n \in Nat] == IF n > 0 THEN 1 + PowerOf[n \div 10] ELSE 0

BCDval(d) == [k \in 1..4 |-> ToChar((d \div <<8, 4, 2, 1>>[k]) % 2)]

DigitAt(n, k) == (n \div TenToThe[PowerOf[n] - k]) % 10

itoBCD(num) ==
  FlattenSeq([k \in 1..PowerOf[num] |-> BCDval(DigitAt(num, k))])

(***************************************************************************)
(* strtok.  Its static pointer stays between the calls: the rest of the    *)
(* text, or NoText.  A call returns the next word and that rest.           *)
(***************************************************************************)
NoText == <<"NULL">>

\* Seeded fault: one delimiter at most is skipped.
SkipOne(s, delims) == IF s # <<>> /\ Head(s) \in delims THEN Tail(s) ELSE s

Skip(s, delims) == From(s, FirstOutside(s, delims))

strtok(rest, delims) ==
  LET s == IF rest = NoText THEN <<>> ELSE Skip(rest, delims)
      e == FirstOutside(s, Char \ delims)
  IN  IF s = <<>> THEN [word |-> NoText, rest |-> NoText]
      ELSE [word |-> Take(s, e - 1),
            rest |-> IF e > Len(s) THEN NoText ELSE From(s, e + 1)]

=============================================================================
