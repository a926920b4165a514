----------------------------- MODULE MCArguments -----------------------------
(***************************************************************************)
(* Instances of Arguments.                                                 *)
(***************************************************************************)
EXTENDS Arguments

\* All texts of n characters of a set.
Texts(C, n) == [1..n -> C]

\* Two characters for a number: digits, signs, space and a letter.
Pair == Texts({"0", "1", "3", "6", "-", "x"}, 2)
             \cup {<<"2", "3">>, <<"2", "4">>, <<"5", "9">>, <<"9", "9">>, <<" ", "7">>}
PairLow == {<<"0", "0">>, <<"5", "9">>, <<"6", "0">>, <<"-", "1">>}

Fields(sign) ==
  {a \o <<sign>> \o b \o <<sign>> \o c : a \in Pair, b \in PairLow, c \in PairLow}
  \cup {a \o <<sign>> \o b \o <<sign>> \o c :
          a \in PairLow, b \in Pair, c \in {<<"0", "0">>}}
  \cup {<<"0", "1">> \o <<sign>> \o <<"0", "1">> \o <<sign>> \o c : c \in Pair}

\* Wrong forms: too short, too long, other signs.
Spoilt(sign) == {<<>>, <<"1">>, <<"0", "1", sign, "0", "1">>,
                 <<"0", "1", sign, "0", "1", sign, "0", "1", "1">>,
                 <<"0", "1", ",", "0", "1", sign, "0", "1">>}

NumberTexts == UNION {Texts({"0", "1", "5", "8", "9", "-", "x", " "}, n) : n \in 0..4}

LinesOfAll ==
  {Chars("clock set time ") \o f : f \in Fields(":") \cup Spoilt(":")}
  \cup {Chars("clock  set date ") \o f : f \in Fields("/") \cup Spoilt("/")}
  \cup {Chars("alarm ") \o f \o m : f \in Fields(":") \cup Spoilt(":"),
                                    m \in {<<>>, <<" ">>, <<" ", "x">>}}
  \cup {Chars("priority set ") \o <<"a", "b">> \o f : f \in NumberTexts}
  \cup {Chars(w) : w \in {"", " exit", "clock", "clock set", "clock set times",
                          "exitx", "show all", "priority", "priority set",
                          "un", "block", "helpme"}}
  \cup {Take(Keywords[k], n) : k \in DOMAIN Keywords, n \in 0..12}
  \cup {Keywords[k] \o <<" ", " ", "x">> : k \in DOMAIN Keywords}

SomeTimes == {0, 9, 10, 19, 23} \X {0, 9, 10, 59} \X {0, 1, 10, 59}
SomeDates == {1, 9, 10, 12} \X {1, 9, 10, 31} \X {0, 9, 10, 99}

AllNumbers == 0..(IntSize \div 2 - 1)
AllPhrases == UNION {Texts({"a", "b", " ", ","}, n) : n \in 0..6}
=============================================================================
