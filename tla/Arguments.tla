----------------------------- MODULE Arguments -----------------------------
(***************************************************************************)
(* What a command makes of the text of a line: comhand finds the command   *)
(* by its name, and clock set, alarm and priority set read numbers from    *)
(* the rest (kernel/comhand.c, user/clock.c, user/alarm.c,                 *)
(* user/pcb/setPriority.c).  Also what print_time and print_date write,    *)
(* which the user may type again, and the functions of Text at work.       *)
(*                                                                         *)
(* One line, conversion or text after the other, from the prompt to the    *)
(* prompt.  What the commands do with what they have read is the subject   *)
(* of Mpx and Clock.                                                       *)
(***************************************************************************)
EXTENDS Text, FiniteSets

CONSTANTS Lines,        \* the lines a user may type
          Times, Dates, \* what the clock may show
          Numbers,      \* the numbers that are printed
          Phrases, Delimiters  \* what strtok is called with

\* What itoa is called with; a byte, or the number of an alarm.
ASSUME NumbersAssumption == Numbers \subseteq 0..(IntSize \div 2 - 1)

\* What the registers of the clock hold; a year of two digits.
ASSUME ShownAssumption ==
  /\ Times \subseteq (0..23) \X (0..59) \X (0..59)
  /\ Dates \subseteq (1..12) \X (1..31) \X (0..99)

ASSUME TextsAssumption ==
  /\ Lines \subseteq Seq(Char)
  /\ Phrases \subseteq Seq(Char) /\ Delimiters \subseteq Char

VARIABLES stage,   \* where the command handler is
          text,    \* the line, then its arguments; or what was printed
          command, \* the command found in the line
          shown,   \* the time, date or number that was printed
          done,    \* what was called with what has been read
          words    \* what strtok has returned

vars == <<stage, text, command, shown, done, words>>

Chars(string) == [k \in 1..Len(string) |-> SubSeq(string, k, k)]

Nothing == <<>>
Call(to, value) == [to |-> to, value |-> value]
Refused == Call("help", <<>>)

----------------------------------------------------------------------------
(***************************************************************************)
(* comhand: the names are tried in this order.                             *)
(***************************************************************************)
Keyword == <<"exit", "shutdown", "version", "help", "clock", "show",
             "priority set", "suspend", "resume", "create", "delete", "block",
             "unblock", "clear", "yield", "load", "alarm">>
Keywords == [k \in DOMAIN Keyword |-> Chars(Keyword[k])]

comhand ==
  /\ stage = "line"
  /\ stage' = "command"
  /\ LET Tried == {k \in DOMAIN Keywords :
                     strncmp(text, Keywords[k], Len(Keywords[k])) = 0}
     IN  IF Tried = {} THEN command' = "none" /\ UNCHANGED text
         ELSE LET k == Min(Tried)
              IN  /\ command' = Keyword[k]
                  /\ text' = Skip(From(text, Len(Keywords[k]) + 1), {" "})
  /\ UNCHANGED <<shown, done, words>>

Handles(name) == stage = "command" /\ command = name
Calls(call) == done' = call /\ stage' = "done" /\ UNCHANGED <<text, command, shown, words>>

----------------------------------------------------------------------------
(***************************************************************************)
(* Two characters for each number, which atoi reads; neither has to be a   *)
(* digit.  The results are sets: empty when the text is refused.           *)
(***************************************************************************)
Field(val, k) == atoi(SubSeq(val, k, k + 1))
HasForm(val, sign) == Len(val) = 8 /\ val[3] = sign /\ val[6] = sign

TimeIn(val) ==
  IF HasForm(val, ":")
  THEN {<<Field(val, 1), Field(val, 4), Field(val, 7)>>}
         \cap ((0..23) \X (0..59) \X (0..59))
  ELSE {}

\* A date whose month and day pass the tests with these bounds.
DateWithin(val, months, days) ==
  IF HasForm(val, "/")
  THEN {<<Field(val, 1), Field(val, 4), Field(val, 7) % 256>>}
         \cap (months \X days \X (0..255))
  ELSE {}

\* Seeded fault: only the upper bounds are tested.
DateAtMost(val) == DateWithin(val, -9..12, -9..31)

\* The month first.  The year goes into a byte as it is.
DateIn(val) == DateWithin(val, 1..12, 1..31)

SetTime == Chars("set time ")
SetDate == Chars("set date ")

(***************************************************************************)
(* How the names are spelled: letters and spaces, and no name of a command *)
(* is the beginning of another.  TLC evaluates it; a prover does not see   *)
(* the characters of a string.                                             *)
(***************************************************************************)
ASSUME SpellingAssumption ==
  /\ \A k \in DOMAIN Keyword : Keywords[k] \in Seq(Char) \ {<<>>}
  /\ \A j, k \in DOMAIN Keyword : IsPrefix(Keywords[j], Keywords[k]) => j = k
  /\ \A name \in {SetTime, SetDate} :
       name \in Seq(Char) /\ Len(name) = 9 /\ name[1] # " "
  /\ SetTime # SetDate
  /\ Chars("clock ") = Keywords[5] \o <<" ">>
  /\ Chars("alarm ") = Keywords[17] \o <<" ">>
  /\ Chars(" x") = <<" ", "x">>

Begins(name) == strncmp(text, name, 9) = 0

ClockSet(name, to, values) ==
  /\ Handles("clock") /\ Begins(name)
  /\ \/ \E v \in values : Calls(Call(to, v))
     \/ values = {} /\ Calls(Refused)

ClockSetTime == ClockSet(SetTime, "set_time", TimeIn(From(text, 10)))
ClockSetDate == ClockSet(SetDate, "set_date", DateIn(From(text, 10)))

(***************************************************************************)
(* alarm_command.  The copy of the time has no zero at its end unless what *)
(* was there is one, so that any time may be refused; and when the time is *)
(* all there is, the message begins behind the line's zero, where the line *)
(* editor may have left something.                                         *)
(***************************************************************************)
MayHaveMessage == Len(text) = 8 \/ Len(text) > 9

AlarmCommand ==
  /\ Handles("alarm")
  /\ \/ Calls(Refused)
     \/ /\ MayHaveMessage
        /\ \E t \in TimeIn(Take(text, 8)) : Calls(Call("alarm_create", t))

(***************************************************************************)
(* set_priority_command: a name, a space, and a number.  Of the number all *)
(* characters but the last are tested, for 1 to 8 or a space.              *)
(***************************************************************************)
IsDigitOrSpace(c) ==
  c = " " \/ (CodeOf["0"] < CodeOf[c] /\ CodeOf[c] < CodeOf["9"])

\* Seeded fault: the last character is tested too.
AllNumber(numArg) == \A k \in 1..Len(numArg) : IsDigitOrSpace(numArg[k])

IsNumber(numArg) == \A k \in 1..(Len(numArg) - 1) : IsDigitOrSpace(numArg[k])

SetPriorityCommand ==
  /\ Handles("priority set")
  /\ LET spaces == {k \in 2..Len(text) : text[k] = " "}
         numArg == From(text, Min(spaces))
     IN  IF spaces # {} /\ IsNumber(numArg)
         THEN Calls(Call("setPriority", <<Take(text, Min(spaces) - 1), atoi(numArg)>>))
         ELSE Calls(Refused)

\* Commands with no number in their arguments.
OtherCommand ==
  /\ stage = "command"
  /\ command \notin {"clock", "alarm", "priority set"}
       \/ (command = "clock" /\ ~Begins(SetTime) /\ ~Begins(SetDate))
  /\ Calls(Call(command, <<>>))

----------------------------------------------------------------------------
\* Seeded fault: nine gets no zero.
PadBelowNine(n) == (IF n < 9 THEN <<"0">> ELSE <<>>) \o itoa(n)

Pad(n) == (IF n < 10 THEN <<"0">> ELSE <<>>) \o itoa(n)

\* print_time and print_date: hour, minute, second; month, day, year.
Shows(v, sign) == Pad(v[1]) \o <<sign>> \o Pad(v[2]) \o <<sign>> \o Pad(v[3])

Prompt == stage = "prompt" /\ UNCHANGED <<command, done, words>>
Types(line, what) == stage' = "line" /\ text' = line /\ shown' = what

TypeLine == Prompt /\ \E line \in Lines : Types(line, Nothing)

\* The user types what the clock has shown.
TypeTime ==
  Prompt /\ \E t \in Times :
    \/ Types(Chars("clock ") \o SetTime \o Shows(t, ":"), t)
    \/ Types(Chars("alarm ") \o Shows(t, ":") \o Chars(" x"), t)

TypeDate ==
  Prompt /\ \E d \in Dates :
    Types(Chars("clock ") \o SetDate \o Shows(d, "/"), d)

\* itoa and itoBCD of one number.
PrintNumber ==
  Prompt /\ \E n \in Numbers :
    /\ shown' = <<n>>
    /\ \/ text' = itoa(n) /\ stage' = "number"
       \/ text' = itoBCD(n) /\ stage' = "groups"

\* The first call of strtok, and the next ones with NULL.
Strtok(rest) ==
  LET r == strtok(rest, Delimiters)
  IN  /\ text' = r.rest
      /\ IF r.word = NoText THEN stage' = "words end" /\ UNCHANGED words
         ELSE stage' = "words" /\ words' = Append(words, r.word)

FirstWord ==
  /\ stage = "prompt" /\ \E s \in Phrases : Strtok(s) /\ shown' = s
  /\ UNCHANGED <<command, done>>

NextWord == stage = "words" /\ Strtok(text) /\ UNCHANGED <<command, shown, done>>

Init ==
  /\ stage = "prompt" /\ text = <<>> /\ command = "none"
  /\ shown = Nothing /\ done = Call("none", <<>>) /\ words = <<>>

\* The next line.
Return ==
  /\ stage \in {"done", "number", "groups", "words end"}
  /\ stage' = "prompt" /\ text' = <<>> /\ command' = "none"
  /\ shown' = Nothing /\ done' = Call("none", <<>>) /\ words' = <<>>

Next == \/ TypeLine \/ TypeTime \/ TypeDate \/ PrintNumber
        \/ FirstWord \/ NextWord
        \/ comhand \/ ClockSetTime \/ ClockSetDate \/ AlarmCommand
        \/ SetPriorityCommand \/ OtherCommand
        \/ Return

Spec == Init /\ [][Next]_vars

----------------------------------------------------------------------------
(***************************************************************************)
(* The types.  Whatever characters stand where the digits should, what is  *)
(* given to set_time, set_date and alarm_create is a setting that Clock    *)
(* starts from (its Setting and AlarmTimes).                               *)
(***************************************************************************)
TypeOK ==
  /\ stage \in {"prompt", "line", "command", "done", "number", "groups",
                "words", "words end"}
  /\ command \in Range(Keyword) \cup {"none"}
  /\ done.to \in {"set_time", "alarm_create"} =>
       done.value \in (0..23) \X (0..59) \X (0..59)
  /\ done.to = "set_date" =>
       done.value \in (1..12) \X (1..31) \X (0..99 \cup 247..255)

(***************************************************************************)
(* comhand runs the command whose name the line begins with: no name is    *)
(* the beginning of another, so that the order of the tests is of no       *)
(* account, and a line shorter than a name is not taken for it (strncmp).  *)
(***************************************************************************)
CommandByName ==
  [][stage = "line" =>
       \A k \in DOMAIN Keyword :
         (command' = Keyword[k]) = IsPrefix(Keywords[k], text)]_vars

(***************************************************************************)
(* What is printed reads back: atoi gives the number that itoa has printed *)
(* (and a byte with its zero fits in the four characters that print_time   *)
(* and print_date have for it); the groups of itoBCD, read as one binary   *)
(* number, are what bin_to_bcd of clock.c gives.                           *)
(***************************************************************************)
BinaryOf(bits) ==
  LET v[n \in 0..Len(bits)] ==
        IF n = 0 THEN 0 ELSE 2 * v[n - 1] + (CodeOf[bits[n]] - CodeOf["0"])
  IN  v[Len(bits)]

PrintedReadsBack ==
  /\ stage = "number" =>
       /\ atoi(text) = shown[1]
       /\ shown[1] <= 255 => Len(text) + 1 <= 4
  /\ stage = "groups" /\ shown[1] < 100 =>
       BinaryOf(text) = (shown[1] \div 10) * 16 + (shown[1] % 10)

(***************************************************************************)
(* A time or a date that the clock shows can be typed as it is: clock set  *)
(* takes it and sets that time or date, an alarm for it is an alarm for    *)
(* that time.  (Not for a year of three digits, which only a user who has  *)
(* set a negative one sees.)                                               *)
(***************************************************************************)
ShownSetsItself ==
  stage = "done" /\ shown # Nothing =>
    /\ command = "clock" => done # Refused
    /\ done # Refused => done.value = shown

(***************************************************************************)
(* "Priority level must be between 0 (Highest) and 9 (Lowest)": each of    *)
(* the ten digits sets its priority, although the test for digits leaves   *)
(* out 0 and 9 (set_priority_command).                                     *)
(***************************************************************************)
DigitSetsPriority ==
  stage = "done" /\ command = "priority set" =>
    \A n \in 1..(Len(text) - 2) :
      /\ Len(text) = n + 2 /\ " " \notin Range(Take(text, n))
      /\ text[n + 1] = " " /\ text[n + 2] \in Digits
      => done = Call("setPriority",
                     <<Take(text, n), CodeOf[text[n + 2]] - CodeOf["0"]>>)

\* The runs of characters that are no delimiters, as first and last place.
Runs(s) ==
  {r \in (DOMAIN s) \X (DOMAIN s) :
     /\ r[1] <= r[2] /\ \A k \in r[1]..r[2] : s[k] \notin Delimiters
     /\ r[1] = 1 \/ s[r[1] - 1] \in Delimiters
     /\ r[2] = Len(s) \/ s[r[2] + 1] \in Delimiters}

\* The words that end in the first n characters of s, for each n.
WordsTo(s) ==
  LET w[n \in 0..Len(s)] ==
        IF n = 0 THEN <<>>
        ELSE IF \E r \in Runs(s) : r[2] = n
             THEN Append(w[n - 1],
                         SubSeq(s, (CHOOSE r \in Runs(s) : r[2] = n)[1], n))
             ELSE w[n - 1]
  IN  w

(***************************************************************************)
(* The calls of strtok return the words of the text, each whole and once,  *)
(* in order, and then NULL; its pointer never comes to stand wrong between *)
(* two calls, whatever delimiters begin, end or follow each other.         *)
(***************************************************************************)
TokensAreWords ==
  /\ stage = "words" => \E n \in 0..Len(shown) : words = WordsTo(shown)[n]
  /\ stage = "words end" => words = WordsTo(shown)[Len(shown)]

=============================================================================
