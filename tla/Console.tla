------------------------------- MODULE Console -------------------------------
(***************************************************************************)
(* drivers/vga_text.c: the text screen, where threads print strings and    *)
(* the keyboard handler shows what is typed.  Nothing keeps them apart: a  *)
(* thread's printable character takes three stretches, between which       *)
(* another thread or the handler may write.  The handler is not            *)
(* interrupted, unless it has served getch: the sem_post before leaves     *)
(* interrupts on.  A control character is taken in one stretch.            *)
(* Lines and columns count from 0; what is on the screen is left out, the  *)
(* cursor and the memory of line ends are kept.                            *)
(***************************************************************************)
EXTENDS Integers, FiniteSets

CONSTANTS
    SCREEN_LINE_SIZE, SCREEN_COL_SIZE,
    TabWidth,
    Printer,            \* threads that print
    Controls            \* the control characters that are written

ASSUME ConsoleAssumption ==
    /\ SCREEN_LINE_SIZE \in Nat \ {0, 1} /\ SCREEN_COL_SIZE \in Nat \ {0, 1}
    /\ TabWidth \in Nat \ {0}
    /\ IsFiniteSet(Printer)
    /\ Controls \subseteq {"backspace", "tab", "newline", "clear", "return"}

VARIABLES
    screen,     \* the cursor (x, y), last_printed_cursor (px, py), last_columns
    stage       \* of each writer: "out", "string" (between two characters
                \* of one), "wrap", "settle" (in vga_process_char)
console_vars == <<screen, stage>>

\* What the key map has of the control characters.
Typed == Controls \cap {"backspace", "tab", "newline"}
Writer == Printer \cup {"handler"}
LastLine == SCREEN_LINE_SIZE - 1
LastColumn == SCREEN_COL_SIZE - 1

\* The cursor may be below the screen when its column is noted, one line for
\* every writer that is about to scroll: last_columns gets cells the array has
\* not (the write is past its end).
Line == 0 .. SCREEN_LINE_SIZE + Cardinality(Writer)

ConsoleInit ==
    /\ screen = [x |-> 0, y |-> 0, px |-> 0, py |-> 0,
                 last_columns |-> [line \in Line |-> 0]]
    /\ stage = [w \in Writer |-> "out"]

-----------------------------------------------------------------------------
(* What the functions do to the screen                                     *)

MoveTo(s, line, column) == [s EXCEPT !.y = line, !.x = column]
Noted(s) == [s EXCEPT !.last_columns[s.y] = s.x]

\* A slip: the line of the last print does not go up with the others.
ScrollScreenOnly(s) ==
    [MoveTo(s, LastLine, 0) EXCEPT
        !.last_columns = [line \in Line |->
            IF line < LastLine THEN @[line + 1] ELSE IF line = LastLine THEN 0 ELSE @[line]]]

\* vga_scroll by one line, which is all the driver asks for.
Scroll(s) ==
    [MoveTo(s, LastLine, 0) EXCEPT
        !.last_columns = [line \in Line |->
            IF line < LastLine THEN @[line + 1] ELSE IF line = LastLine THEN 0 ELSE @[line]],
        !.px = IF s.py >= 1 THEN @ ELSE 0,
        !.py = IF s.py >= 1 THEN @ - 1 ELSE 0]

\* A printable character: vga_print_char at the cursor, and x++ ...
Written(s) == [s EXCEPT !.x = @ + 1]

\* ... the end of the line ...
Wrapped(s) == IF s.x > LastColumn THEN Noted(MoveTo(s, s.y + 1, 0)) ELSE s

\* A slip: the end of the screen is one line further.
SettledBelow(s) == IF s.y > SCREEN_LINE_SIZE THEN Scroll(s) ELSE Noted(s)

\* ... and the end of the screen.
Settled(s) == IF s.y >= SCREEN_LINE_SIZE THEN Scroll(s) ELSE Noted(s)

Backspace(s) ==
    CASE s.py = s.y /\ s.x > s.px -> Noted(MoveTo(s, s.y, s.x - 1))
      [] s.py < s.y /\ s.x > 0 -> Noted(MoveTo(s, s.y, s.x - 1))
      [] s.py < s.y /\ s.x = 0 ->
            LET end == IF s.last_columns[s.y - 1] >= SCREEN_COL_SIZE
                       THEN LastColumn ELSE s.last_columns[s.y - 1]
            IN  MoveTo([s EXCEPT !.last_columns[s.y - 1] = end], s.y - 1, end)
      [] OTHER -> s

Control(s, char) ==
    CASE char = "backspace" -> Backspace(s)
      [] char = "tab" ->
            Noted(MoveTo(s, s.y, IF s.x + TabWidth < LastColumn
                                 THEN s.x + (TabWidth - (s.x % TabWidth))
                                 ELSE LastColumn))
      [] char = "newline" ->
            IF s.y < LastLine THEN Noted(MoveTo(s, s.y + 1, 0)) ELSE Scroll(s)
      [] char = "clear" ->     \* the cursor stays
            [s EXCEPT !.last_columns = [line \in DOMAIN @ |->
                                           IF line <= LastLine THEN 0 ELSE @[line]]]
      [] char = "return" -> Noted(MoveTo(s, s.y, 0))

-----------------------------------------------------------------------------

Goes(w, from, to) == stage[w] \in from /\ stage' = [stage EXCEPT ![w] = to]
Between == {"out", "string"}

\* vga_put_string, vga_put_char: a character of a string.
WriteChar(w) == Goes(w, Between, "wrap") /\ screen' = Written(screen)
WrapChar(w) == Goes(w, {"wrap"}, "settle") /\ screen' = Wrapped(screen)
SettleChar(w) == Goes(w, {"settle"}, "string") /\ screen' = Settled(screen)
WriteControl(w, char) == Goes(w, Between, "string") /\ screen' = Control(screen, char)

\* The end of a string: last_printed_cursor = screen_cursor.
EndString(w) == /\ Goes(w, {"string"}, "out")
                /\ screen' = [screen EXCEPT !.px = screen.x, !.py = screen.y]

\* vga_console_write_keyboard, from the keyboard handler, in one stretch ...
EchoKey ==
    /\ stage["handler"] = "out"
    /\ screen' \in {Settled(Wrapped(Written(screen)))}
                    \cup {Control(screen, char) : char \in Typed}
    /\ UNCHANGED stage

\* ... or with interrupts on.
EchoChar == Goes("handler", {"out"}, "wrap") /\ screen' = Written(screen)
EchoWrap == Goes("handler", {"wrap"}, "settle") /\ screen' = Wrapped(screen)
EchoSettle == Goes("handler", {"settle"}, "out") /\ screen' = Settled(screen)

ConsoleNext ==
    \/ EchoKey \/ EchoChar \/ EchoWrap \/ EchoSettle
    \/ \E w \in Printer : \/ WriteChar(w) \/ WrapChar(w) \/ SettleChar(w) \/ EndString(w)
                           \/ \E char \in Controls : WriteControl(w, char)

ConsoleSpec == ConsoleInit /\ [][ConsoleNext]_console_vars

-----------------------------------------------------------------------------
(* Properties                                                              *)

Quiet == \A w \in Writer : stage[w] = "out"

\* The fields in their ranges.  Whoever interrupts whom between two stretches,
\* and wherever the noted line ends then are: when all are done the cursor is
\* on the screen.
ConsoleTypeOK ==
    /\ screen.x \in 0 .. SCREEN_COL_SIZE + Cardinality(Writer)
    /\ screen.y \in Line
    /\ stage \in [Writer -> {"out", "string", "wrap", "settle"}]
    /\ Quiet => screen.x <= LastColumn /\ screen.y <= LastLine

\* The cursor is not before the end of the last print, and the memory of line
\* ends (which a printed '\f' clears, cursor and print staying) agrees.
PromptIsBehind ==
    /\ screen.y > screen.py \/ (screen.y = screen.py /\ screen.x >= screen.px)
    /\ screen.px <= LastColumn /\ screen.px <= screen.last_columns[screen.py]

\* While nobody prints, what is typed, erased and scrolled does not take the
\* cursor into what was printed before it, on whichever line that ended.
EchoKeepsThePrompt == [][EchoKey /\ Quiet /\ PromptIsBehind => PromptIsBehind']_console_vars
=============================================================================
