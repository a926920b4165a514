---------------------------- MODULE LineEditor ----------------------------
(***************************************************************************)
(* serial_poll of kernel/serial.c: the line editor behind every READ, with *)
(* the terminal at the other end of the serial line, and the caller's last *)
(* write, the zero it adds.                                                *)
(*                                                                         *)
(* The editor reads the serial port until a line is complete; nothing else *)
(* runs meanwhile.  A step is the arrival of one byte and all that the     *)
(* editor does before it reads again.  Bytes that leave everything as it   *)
(* is are not steps.                                                       *)
(***************************************************************************)
EXTENDS Integers, Sequences

CONSTANTS Size,        \* size of the caller's buffer
          Printable,  \* the printable bytes the user types
          Controls,   \* the other bytes: some of those below
          Around,     \* how many bytes on either side of the buffer are
                      \* followed
          Leftover    \* what these may hold

Nul == "nul"
Backspace == "backspace"
Delete == "delete"
CR == "return"
LF == "newline"
Esc == "escape"
Tilde == "~"
CursorRight == "right"  \* what the editor sends to move the cursor: the
CursorLeft == "left"    \* sequences ESC [ C and ESC [ D

Blank == " "

ASSUME EditorAssumption ==
  /\ Size \in Nat \ {0}
  /\ Controls \subseteq {Backspace, Delete, CR, LF, Esc, Tilde, "["}
  /\ Around \in Nat \ {0}
  /\ Leftover \subseteq Printable \cup {Nul} /\ Leftover # {}
  /\ Printable \cap (Controls \cup {Nul, Backspace, CursorLeft, CursorRight}) = {}

Byte == Printable \cup Controls

InBuffer == 0 .. Size - 1
Near == -Around .. Size - 1 + Around
Outside == Near \ InBuffer

VARIABLES buffer,     \* the caller's buffer, places 0 to Size - 1, and the
                      \* memory around it
          index,      \* where the next character goes
          endOfLine,  \* the length of the line
          mode,       \* where serial_poll reads
          tilde,      \* the byte after ESC was a tilde
          result,     \* what serial_poll returned
          term,       \* the terminal: its current line and its cursor
          inside      \* history: a character was typed or erased elsewhere
                      \* than at the end of the line

vars == <<buffer, index, endOfLine, mode, tilde, result, term, inside>>

----------------------------------------------------------------------------
(***************************************************************************)
(* The terminal.  Column 0 is the one after the prompt of six characters.  *)
(***************************************************************************)
Width == Size + Around
Columns == -6..Width
Terminal == [cells : [Columns -> Printable \cup {Blank}], at : Columns]

Put(t, c) ==
  CASE c \in {Backspace, CursorLeft} ->
         [t EXCEPT !.at = IF @ > -6 THEN @ - 1 ELSE @]
    [] c = CursorRight -> [t EXCEPT !.at = IF @ < Width THEN @ + 1 ELSE @]
    [] c = Nul -> t
    [] OTHER -> [t EXCEPT !.cells[t.at] = c,
                          !.at = IF @ < Width THEN @ + 1 ELSE @]

\* A terminal that has received the bytes, one after the other.
After(t, bytes) ==
  LET screen[n \in 0 .. Len(bytes)] ==
        IF n = 0 THEN t ELSE Put(screen[n - 1], bytes[n])
  IN  screen[Len(bytes)]

Send(bytes) == term' = After(term, bytes)

----------------------------------------------------------------------------
(***************************************************************************)
(* The loop looks only whether index is in the buffer.  When the line is   *)
(* edited elsewhere than at its end, endOfLine can leave the buffer, and   *)
(* what is then written there is written: the guard on endOfLine is the    *)
(* bound Around on how far this is followed.                               *)
(***************************************************************************)
Reads(where) == mode = where /\ endOfLine \in Near

EditsInside == inside' = (inside \/ index # endOfLine)

TypeChar(c) ==
  /\ Reads("line") /\ index < Size - 1 /\ c \in Printable
  /\ buffer' = [buffer EXCEPT ![index] = c]
  /\ index' = index + 1 /\ endOfLine' = endOfLine + 1
  /\ Send(<<c>>)
  /\ EditsInside
  /\ UNCHANGED <<mode, tilde, result>>

Erase(c) ==
  /\ Reads("line") /\ index < Size - 1 /\ c \in {Backspace, Delete}
  /\ index > 0
  /\ buffer' = [buffer EXCEPT ![index - 1] = Nul]
  /\ index' = index - 1 /\ endOfLine' = endOfLine - 1
  /\ Send(<<Backspace, Blank, Backspace>>)
  /\ EditsInside
  /\ UNCHANGED <<mode, tilde, result>>

\* Seeded faults: no zero ends the line; the zero is one place too far.
NoEnd(b, n) == b
EndBehind(b, n) == [b EXCEPT ![n + 1] = Nul]

EndAt(b, n) == [b EXCEPT ![n] = Nul]

Enter(c) ==
  /\ Reads("line") /\ index < Size - 1 /\ c \in {CR, LF}
  /\ buffer' = EndAt(buffer, endOfLine)
  /\ result' = endOfLine /\ mode' = "returned"
  /\ UNCHANGED <<index, endOfLine, tilde, term, inside>>

\* The buffer is full.
Overflow ==
  /\ Reads("line") /\ index >= Size - 1
  /\ buffer' = EndAt(buffer, index)
  /\ result' = -1 /\ mode' = "returned"
  /\ UNCHANGED <<index, endOfLine, tilde, term, inside>>

----------------------------------------------------------------------------
(***************************************************************************)
(* Keys that send more than one byte.  After ESC one byte is read whether  *)
(* or not one has arrived; then bytes are skipped until one is known.      *)
(***************************************************************************)
Escape(c) ==
  /\ Reads("line") /\ index < Size - 1 /\ c = Esc
  /\ mode' = "after escape"
  /\ UNCHANGED <<buffer, index, endOfLine, tilde, result, term, inside>>

AfterEscape(c) ==
  /\ Reads("after escape")
  /\ mode' = "special" /\ tilde' = (c = Tilde)
  /\ UNCHANGED <<buffer, index, endOfLine, result, term, inside>>

UpOrDown(c) ==
  /\ Reads("special") /\ c \in {"A", "B"}
  /\ mode' = "line"
  /\ UNCHANGED <<buffer, index, endOfLine, tilde, result, term, inside>>

Right(c) ==
  /\ Reads("special") /\ c = "C"
  /\ index' = index + 1
  /\ Send(<<CursorRight>>)
  /\ mode' = "line"
  /\ UNCHANGED <<buffer, endOfLine, tilde, result, inside>>

OneLeft == IF index = 0 THEN 0 ELSE index - 1

Left(c) ==
  /\ Reads("special") /\ c = "D"
  /\ index' = OneLeft
  /\ Send(IF index = 0 THEN <<>> ELSE <<CursorLeft>>)
  /\ mode' = "line"
  /\ UNCHANGED <<buffer, endOfLine, tilde, result, inside>>

\* Seeded fault: the last character is not moved.
WithoutOneShort ==
  [i \in DOMAIN buffer |->
     IF i \in index .. endOfLine - 3 THEN buffer[i + 1] ELSE buffer[i]]

\* The buffer without the character at index, which is in the line.
WithoutOne ==
  [i \in DOMAIN buffer |->
     IF i \in index .. endOfLine - 2 THEN buffer[i + 1]
     ELSE IF i = index THEN Nul ELSE buffer[i]]

(***************************************************************************)
(* The character under the cursor goes and those after it move up, in the  *)
(* buffer and on the terminal.                                             *)
(***************************************************************************)
Drop ==
  /\ IF index < endOfLine
     THEN /\ buffer' = WithoutOne
          /\ endOfLine' = endOfLine - 1
          /\ Send([i \in 1 .. endOfLine - 1 - index |-> buffer[index + i]]
                    \o <<Blank>> \o [i \in 1 .. endOfLine - index |-> CursorLeft])
     ELSE UNCHANGED <<buffer, endOfLine, term>>
  /\ UNCHANGED <<index, result, inside>>

DeleteKey(c) ==
  /\ Reads("special") /\ c = "3"
  /\ IF tilde THEN mode' = "line" /\ Drop
     ELSE /\ mode' = "tilde"
          /\ UNCHANGED <<buffer, index, endOfLine, result, term, inside>>
  /\ UNCHANGED tilde

DeleteTilde(c) ==
  /\ Reads("tilde") /\ c = Tilde
  /\ mode' = "line" /\ Drop
  /\ UNCHANGED tilde

----------------------------------------------------------------------------
\* The caller's buffer, set to zero among other memory, and a terminal line
\* with the prompt.
Fresh == {[i \in Near |-> IF i \in InBuffer THEN Nul ELSE around[i]] :
            around \in [Outside -> Leftover]}
PromptLine == [cells |-> [x \in Columns |-> Blank], at |-> 0]

Init ==
  /\ buffer \in Fresh /\ index = 0 /\ endOfLine = 0
  /\ mode = "line" /\ tilde = FALSE /\ result = 0
  /\ term = PromptLine /\ inside = FALSE

\* comhand and exit add a zero of their own where the result says.
TakeLine ==
  /\ mode = "returned"
  /\ buffer' = EndAt(buffer, result) /\ mode' = "taken"
  /\ UNCHANGED <<index, endOfLine, tilde, result, term, inside>>

\* The caller asks for another line.
Prompt ==
  /\ mode = "taken"
  /\ buffer' \in Fresh /\ index' = 0 /\ endOfLine' = 0
  /\ mode' = "line" /\ tilde' = FALSE /\ result' = 0
  /\ term' = PromptLine /\ inside' = FALSE

Next == \/ \E c \in Byte :
             \/ TypeChar(c) \/ Erase(c) \/ Enter(c)
             \/ Escape(c) \/ UpOrDown(c) \/ Right(c) \/ Left(c)
             \/ DeleteKey(c) \/ DeleteTilde(c)
        \/ \E c \in Byte \cup {Nul} : AfterEscape(c)
        \/ Overflow \/ TakeLine \/ Prompt

Spec == Init /\ [][Next]_vars

----------------------------------------------------------------------------
\* The types: the index stays in the buffer, the length of the line need not.
TypeOK ==
  /\ buffer \in [Near -> Printable \cup {Nul}]
  /\ index \in InBuffer /\ endOfLine \in -Around - 1 .. Size + Around
  /\ mode \in {"line", "after escape", "special", "tilde", "returned", "taken"}
  /\ tilde \in BOOLEAN /\ result \in Near /\ inside \in BOOLEAN
  /\ term \in Terminal

\* The line the caller sees: the bytes before the first zero.
LengthSeen == CHOOSE n \in 0 .. Size :
                /\ \A i \in 0 .. n - 1 : buffer[i] # Nul
                /\ n < Size => buffer[n] = Nul

(***************************************************************************)
(* What you see is what you get: unless the line was edited elsewhere than *)
(* at its end, the terminal shows the line that is in the buffer and       *)
(* nothing else, also after left and right and the delete key; and the     *)
(* next character goes into the buffer where the terminal has its cursor.  *)
(***************************************************************************)
ScreenShowsLine ==
  /\ ~inside /\ mode \notin {"returned", "taken"} =>
       \A i \in 0 .. Size :
         term.cells[i] = IF i < endOfLine THEN buffer[i] ELSE Blank
  /\ ~inside /\ mode = "line" => term.at = index

(***************************************************************************)
(* Under the same condition the caller gets what the terminal shows: the   *)
(* result is the length of the text in the buffer, and that text is on the *)
(* screen (serial_poll returns "The number of bytes read").  Of a full     *)
(* buffer this is claimed when it was filled by typing: filled by the      *)
(* right arrow it can still hold a character that was deleted.             *)
(***************************************************************************)
CallerGetsScreen ==
  ~inside /\ mode = "returned" /\ (result >= 0 \/ index = endOfLine) =>
    /\ result \in {-1, LengthSeen}
    /\ \A i \in 0 .. LengthSeen - 1 : term.cells[i] = buffer[i]
    /\ \A i \in LengthSeen .. Size : term.cells[i] = Blank

(***************************************************************************)
(* Nothing but the buffer is written: not by serial_poll as long as the    *)
(* line is not edited elsewhere than at its end, left and right and the    *)
(* delete key included, and not by its caller (kernel/comhand.c:62) unless *)
(* the buffer was full and the result is -1.                               *)
(***************************************************************************)
KeepsOutside == \A i \in Outside : buffer'[i] = buffer[i]

OnlyBufferIsWritten ==
  [][~inside' /\ mode # "taken" /\ (mode = "returned" => result >= 0)
     => KeepsOutside]_vars

(***************************************************************************)
(* include/mpx/serial.h, lines 31 to 33: "A buffer to write data into as   *)
(* it is read from the serial port", "The maximum number of bytes to read" *)
(* and "a negative number on failure".  Whichever keys are used, nothing   *)
(* but the buffer is written, by serial_poll or with what it returns.      *)
(***************************************************************************)
WritesIntoBuffer == [][mode # "taken" => KeepsOutside]_vars

(***************************************************************************)
(* kernel/serial.c, line 65: "This function must properly handle the       *)
(* following based off ASCII" ... "arrow keys (up down left right)".  The  *)
(* caller gets what the terminal shows, whichever keys were used.          *)
(***************************************************************************)
ArrowKeysAreHandled ==
  mode = "returned" /\ result >= 0 =>
    \A i \in 0 .. Size :
      term.cells[i] = IF i < LengthSeen THEN buffer[i] ELSE Blank

=============================================================================
