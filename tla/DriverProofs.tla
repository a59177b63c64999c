---------------------------- MODULE DriverProofs -----------------------------
(***************************************************************************)
(* The console, the PIT and the interrupts, the video driver and the       *)
(* mouse: proofs about drivers/vga_text.c, drivers/pit.c,                  *)
(* core/interrupts.c, sync/lock.c, drivers/vesa.c and drivers/mouse.c.     *)
(* They share nothing: each has its part below.  At the end the components *)
(* that MCComponents puts side by side, with those of KernelListProofs and *)
(* MemoryProofs.                                                           *)
(***************************************************************************)
EXTENDS MCComponents, KernelListProofs, MemoryProofs, SequenceTheorems

-----------------------------------------------------------------------------
(***************************************************************************)
(* drivers/vga_text.c: where the cursor can get to, whoever interrupts     *)
(* whom, and that typing and erasing leave what was printed alone, for     *)
(* every size of the screen, tab width and number of printing threads.     *)
(***************************************************************************)

Screens == [x : Nat, y : Nat, px : Nat, py : Nat, last_columns : [Line -> Nat]]

\* Everybody who is about to wrap has moved the cursor one column at most, and
\* everybody who is about to scroll one line.
Wrapping == {w \in Writer : stage[w] = "wrap"}
Settling == {w \in Writer : stage[w] = "settle"}

ConsoleInv ==
    /\ screen \in Screens
    /\ stage \in [Writer -> {"out", "string", "wrap", "settle"}]
    /\ screen.x <= LastColumn + Cardinality(Wrapping)
    /\ screen.y <= LastLine + Cardinality(Settling)

\* The dimensions, as the provers need them.
LEMMA Dimensions ==
    /\ SCREEN_LINE_SIZE \in Nat /\ SCREEN_COL_SIZE \in Nat /\ TabWidth \in Nat /\ TabWidth > 0
    /\ LastLine \in Nat /\ LastLine >= 1 /\ LastLine = SCREEN_LINE_SIZE - 1
    /\ LastColumn \in Nat /\ LastColumn >= 1 /\ LastColumn = SCREEN_COL_SIZE - 1
    /\ IsFiniteSet(Writer) /\ Cardinality(Writer) \in Nat
    /\ Line = 0 .. SCREEN_LINE_SIZE + Cardinality(Writer)
<1>1. IsFiniteSet(Writer)
  BY ConsoleAssumption, FS_AddElement DEF Writer
<1>2. Cardinality(Writer) \in Nat
  BY <1>1, FS_CardinalityType
<1> QED BY <1>1, <1>2, ConsoleAssumption DEF LastLine, LastColumn, Line

-----------------------------------------------------------------------------
(* What the functions return                                               *)

\* Moving the cursor and noting the column change that, and nothing else.
LEMMA Moved ==
    ASSUME NEW s \in Screens, NEW line \in Nat, NEW column \in Nat
    PROVE  /\ MoveTo(s, line, column) \in Screens
           /\ MoveTo(s, line, column).y = line /\ MoveTo(s, line, column).x = column
           /\ MoveTo(s, line, column).py = s.py /\ MoveTo(s, line, column).px = s.px
           /\ MoveTo(s, line, column).last_columns = s.last_columns
BY DEF MoveTo, Screens

LEMMA NotedColumn ==
    ASSUME NEW s \in Screens
    PROVE  /\ Noted(s) \in Screens
           /\ Noted(s).y = s.y /\ Noted(s).x = s.x /\ Noted(s).py = s.py /\ Noted(s).px = s.px
           /\ s.y \in Line => Noted(s).last_columns[s.y] = s.x
           /\ \A line \in Line : line # s.y => Noted(s).last_columns[line] = s.last_columns[line]
<1>1. s.x \in Nat /\ s.last_columns \in [Line -> Nat]
  BY DEF Screens
<1>2. Noted(s) = [s EXCEPT !.last_columns = [s.last_columns EXCEPT ![s.y] = s.x]]
  BY DEF Noted, Screens
<1>3. [s.last_columns EXCEPT ![s.y] = s.x] \in [Line -> Nat]
  BY <1>1
<1> QED BY <1>1, <1>2, <1>3 DEF Screens

\* vga_scroll: everything goes up one line, also where the last print ended.
LEMMA Scrolled ==
    ASSUME NEW s \in Screens
    PROVE  /\ Scroll(s) \in Screens /\ Scroll(s).y = LastLine /\ Scroll(s).x = 0
           /\ s.py >= 1 => Scroll(s).py = s.py - 1 /\ Scroll(s).px = s.px
           /\ s.py = 0 => Scroll(s).py = 0 /\ Scroll(s).px = 0
           /\ \A line \in Line : line < LastLine => Scroll(s).last_columns[line] = s.last_columns[line + 1]
<1> DEFINE m == MoveTo(s, LastLine, 0)
           up == [line \in Line |-> IF line < LastLine THEN s.last_columns[line + 1]
                                    ELSE IF line = LastLine THEN 0 ELSE s.last_columns[line]]
           px == IF s.py >= 1 THEN s.px ELSE 0
           py == IF s.py >= 1 THEN s.py - 1 ELSE 0
<1>0. LastLine \in Nat /\ 0 \in Nat
  BY Dimensions
<1>1. m \in Screens /\ m.y = LastLine /\ m.x = 0 /\ m.py = s.py /\ m.px = s.px
      /\ m.last_columns = s.last_columns
  BY <1>0, Moved
<1>2. s.last_columns \in [Line -> Nat] /\ s.py \in Nat /\ s.px \in Nat
  BY DEF Screens
<1>3. \A line \in Line : line < LastLine => line + 1 \in Line
  BY Dimensions
<1>4. up \in [Line -> Nat]
  BY <1>2, <1>3
<1>5. Scroll(s) = [m EXCEPT !.last_columns = up, !.px = px, !.py = py]
  BY <1>1 DEF Scroll, Screens
<1>6. px \in Nat /\ py \in Nat
  BY <1>2
<1>7. /\ s.py >= 1 => py = s.py - 1 /\ px = s.px
      /\ s.py = 0 => py = 0 /\ px = 0
      /\ \A line \in Line : line < LastLine => up[line] = s.last_columns[line + 1]
  BY <1>2
<1> HIDE DEF m, up, px, py
<1>8. /\ Scroll(s) \in Screens /\ Scroll(s).y = m.y /\ Scroll(s).x = m.x
      /\ Scroll(s).py = py /\ Scroll(s).px = px /\ Scroll(s).last_columns = up
  BY <1>1, <1>4, <1>5, <1>6 DEF Screens
<1> QED BY <1>1, <1>7, <1>8

\* A printable character, in its three stretches.
LEMMA Characters ==
    ASSUME NEW s \in Screens
    PROVE  /\ Written(s) \in Screens /\ Written(s).x = s.x + 1 /\ Written(s).y = s.y
           /\ Wrapped(s) \in Screens /\ Wrapped(s).x <= LastColumn
           /\ Wrapped(s).y \in {s.y, s.y + 1}
           /\ Settled(s) \in Screens /\ Settled(s).x \in {0, s.x} /\ Settled(s).y <= LastLine
<1>0. s.x \in Nat /\ s.y \in Nat /\ s.x + 1 \in Nat /\ s.y + 1 \in Nat /\ 0 \in Nat
  BY DEF Screens
<1>1. Written(s) \in Screens /\ Written(s).x = s.x + 1 /\ Written(s).y = s.y
  BY <1>0 DEF Written, Screens
<1>2. Wrapped(s) \in Screens /\ Wrapped(s).x <= LastColumn /\ Wrapped(s).y \in {s.y, s.y + 1}
  <2>1. CASE s.x > LastColumn
    <3>1. Wrapped(s) = Noted(MoveTo(s, s.y + 1, 0))
      BY <2>1 DEF Wrapped
    <3>2. MoveTo(s, s.y + 1, 0) \in Screens
          /\ MoveTo(s, s.y + 1, 0).y = s.y + 1 /\ MoveTo(s, s.y + 1, 0).x = 0
      BY <1>0 DEF MoveTo, Screens
    <3> QED BY <3>1, <3>2, NotedColumn, Dimensions
  <2>2. CASE ~(s.x > LastColumn)
    BY <1>0, <2>2, Dimensions DEF Wrapped
  <2> QED BY <2>1, <2>2
<1>3. Settled(s) \in Screens /\ Settled(s).x \in {0, s.x} /\ Settled(s).y <= LastLine
  <2>1. CASE s.y >= SCREEN_LINE_SIZE
    <3>1. LastLine <= LastLine
      BY Dimensions
    <3> QED BY <2>1, <3>1, Scrolled DEF Settled
  <2>2. CASE ~(s.y >= SCREEN_LINE_SIZE)
    <3>1. s.y <= LastLine
      BY <1>0, <2>2, Dimensions
    <3> QED BY <2>2, <3>1, NotedColumn DEF Settled
  <2> QED BY <2>1, <2>2
<1> QED BY <1>1, <1>2, <1>3

\* Where Backspace moves to: within the line, or to the noted end of the line
\* above, which is cut to the width of the screen.
LEMMA Erased ==
    ASSUME NEW s \in Screens, s.y \in Line
    PROVE  \/ /\ (s.py = s.y /\ s.x > s.px) \/ (s.py < s.y /\ s.x > 0)
              /\ Backspace(s) = Noted(MoveTo(s, s.y, s.x - 1)) /\ s.x - 1 \in Nat
           \/ /\ s.py < s.y /\ s.x = 0
              /\ \E end \in 0 .. LastColumn :
                    /\ Backspace(s) = MoveTo([s EXCEPT !.last_columns =
                                                [s.last_columns EXCEPT ![s.y - 1] = end]], s.y - 1, end)
                    /\ s.y - 1 \in Line /\ s.y - 1 \in Nat
                    /\ end = s.last_columns[s.y - 1] \/ end = LastColumn
           \/ Backspace(s) = s
<1>0. s.x \in Nat /\ s.y \in Nat /\ s.px \in Nat /\ s.py \in Nat /\ s.last_columns \in [Line -> Nat]
  BY DEF Screens
<1>1. CASE (s.py = s.y /\ s.x > s.px) \/ (s.py < s.y /\ s.x > 0)
  BY <1>0, <1>1 DEF Backspace
<1>2. CASE s.py < s.y /\ s.x = 0
  <2> DEFINE end == IF s.last_columns[s.y - 1] >= SCREEN_COL_SIZE THEN LastColumn
                    ELSE s.last_columns[s.y - 1]
  <2>1. s.y - 1 \in Nat /\ s.y - 1 \in Line
    BY <1>0, <1>2, Dimensions
  <2>2. end \in 0 .. LastColumn /\ (end = s.last_columns[s.y - 1] \/ end = LastColumn)
    BY <1>0, <2>1, Dimensions
  <2>3. Backspace(s) = MoveTo([s EXCEPT !.last_columns[s.y - 1] = end], s.y - 1, end)
    BY <1>0, <1>2 DEF Backspace
  <2>4. Backspace(s) = MoveTo([s EXCEPT !.last_columns = [s.last_columns EXCEPT ![s.y - 1] = end]],
                              s.y - 1, end)
    BY <2>3 DEF Screens
  <2> QED BY <1>2, <2>1, <2>2, <2>4
<1>3. CASE ~((s.py = s.y /\ s.x > s.px) \/ (s.py < s.y /\ s.x > 0) \/ (s.py < s.y /\ s.x = 0))
  BY <1>0, <1>3 DEF Backspace
<1> QED BY <1>1, <1>2, <1>3

\* The cut end of the line above is noted, and the cursor is put there.
LEMMA MovedUp ==
    ASSUME NEW s \in Screens, NEW line \in Line, line \in Nat, NEW end \in 0 .. LastColumn
    PROVE  LET r == MoveTo([s EXCEPT !.last_columns = [s.last_columns EXCEPT ![line] = end]], line, end)
           IN  /\ r \in Screens /\ r.x = end /\ r.y = line /\ r.px = s.px /\ r.py = s.py
               /\ r.last_columns[line] = end
<1> DEFINE columns == [s.last_columns EXCEPT ![line] = end]
           c == [s EXCEPT !.last_columns = columns]
<1>1. end \in Nat /\ s.last_columns \in [Line -> Nat]
  BY DEF Screens
<1>2. columns \in [Line -> Nat] /\ columns[line] = end
  BY <1>1
<1> HIDE DEF columns
<1>3. c \in Screens /\ c.px = s.px /\ c.py = s.py /\ c.last_columns = columns
  BY <1>2 DEF Screens
<1> HIDE DEF c
<1>4. /\ MoveTo(c, line, end) \in Screens
      /\ MoveTo(c, line, end).y = line /\ MoveTo(c, line, end).x = end
      /\ MoveTo(c, line, end).py = c.py /\ MoveTo(c, line, end).px = c.px
      /\ MoveTo(c, line, end).last_columns = c.last_columns
  <2>1. c \in Screens /\ line \in Nat /\ end \in Nat
    BY <1>1, <1>3
  <2> QED BY ONLY <2>1, Moved
<1>5. /\ MoveTo(c, line, end).px = s.px /\ MoveTo(c, line, end).py = s.py
      /\ MoveTo(c, line, end).last_columns[line] = end
  BY <1>2, <1>3, <1>4
<1>6. c = [s EXCEPT !.last_columns = [s.last_columns EXCEPT ![line] = end]]
  BY DEF c, columns
<1> QED BY <1>4, <1>5, <1>6

\* A control character leaves the cursor where it was, or on the screen.
LEMMA Controlled ==
    ASSUME NEW s \in Screens, s.y \in Line, NEW char \in Controls
    PROVE  /\ Control(s, char) \in Screens
           /\ Control(s, char).x <= s.x \/ Control(s, char).x <= LastColumn
           /\ Control(s, char).y <= s.y \/ Control(s, char).y <= LastLine
<1>0. /\ s.x \in Nat /\ s.y \in Nat /\ s.last_columns \in [Line -> Nat] /\ 0 \in Nat
      /\ LastLine \in Nat /\ LastColumn \in Nat /\ 0 <= s.x /\ s.y <= s.y /\ s.x <= s.x
  BY Dimensions DEF Screens
<1>1. CASE char = "backspace"
  <2>0. Control(s, char) = Backspace(s)
    BY <1>1 DEF Control
  <2>1. CASE Backspace(s) = Noted(MoveTo(s, s.y, s.x - 1)) /\ s.x - 1 \in Nat
    <3>1. /\ MoveTo(s, s.y, s.x - 1) \in Screens
          /\ MoveTo(s, s.y, s.x - 1).y = s.y /\ MoveTo(s, s.y, s.x - 1).x = s.x - 1
      BY <1>0, <2>1 DEF MoveTo, Screens
    <3> QED BY <1>0, <2>0, <2>1, <3>1, NotedColumn
  <2>2. CASE \E end \in 0 .. LastColumn :
               /\ Backspace(s) = MoveTo([s EXCEPT !.last_columns =
                                           [s.last_columns EXCEPT ![s.y - 1] = end]], s.y - 1, end)
               /\ s.y - 1 \in Line /\ s.y - 1 \in Nat
    <3>1. PICK end \in 0 .. LastColumn :
               /\ Backspace(s) = MoveTo([s EXCEPT !.last_columns =
                                           [s.last_columns EXCEPT ![s.y - 1] = end]], s.y - 1, end)
               /\ s.y - 1 \in Line /\ s.y - 1 \in Nat
      BY <2>2
    <3>2. Backspace(s) \in Screens /\ Backspace(s).x = end /\ Backspace(s).y = s.y - 1
      BY <3>1, MovedUp
    <3> QED BY <1>0, <2>0, <3>2
  <2>3. CASE Backspace(s) = s
    BY <1>0, <2>0, <2>3
  <2> QED BY <2>1, <2>2, <2>3, Erased
<1>2. CASE char = "tab"
  <2> DEFINE to == IF s.x + TabWidth < LastColumn THEN s.x + (TabWidth - (s.x % TabWidth)) ELSE LastColumn
  <2>1. to \in Nat /\ to <= LastColumn
    BY <1>0, Dimensions
  <2>2. Control(s, char) = Noted(MoveTo(s, s.y, to))
    BY <1>2 DEF Control
  <2> HIDE DEF to
  <2>3. MoveTo(s, s.y, to) \in Screens /\ MoveTo(s, s.y, to).y = s.y /\ MoveTo(s, s.y, to).x = to
    BY <1>0, <2>1 DEF MoveTo, Screens
  <2> QED BY <1>0, <2>1, <2>2, <2>3, NotedColumn
<1>3. CASE char = "newline"
  <2>1. CASE s.y < LastLine
    <3>1. Control(s, char) = Noted(MoveTo(s, s.y + 1, 0)) /\ s.y + 1 \in Nat /\ s.y + 1 <= LastLine
      BY <1>0, <1>3, <2>1 DEF Control
    <3>2. /\ MoveTo(s, s.y + 1, 0) \in Screens
          /\ MoveTo(s, s.y + 1, 0).y = s.y + 1 /\ MoveTo(s, s.y + 1, 0).x = 0
      BY <1>0, <3>1 DEF MoveTo, Screens
    <3> QED BY <1>0, <3>1, <3>2, NotedColumn
  <2>2. CASE ~(s.y < LastLine)
    <3>1. Control(s, char) = Scroll(s) /\ LastLine <= LastLine
      BY <1>0, <1>3, <2>2 DEF Control
    <3> QED BY <1>0, <3>1, Scrolled
  <2> QED BY <2>1, <2>2
<1>4. CASE char = "clear"
  <2> DEFINE cleared == [line \in Line |-> IF line <= LastLine THEN 0 ELSE s.last_columns[line]]
  <2>1. cleared \in [Line -> Nat]
    BY <1>0
  <2>2. Control(s, char) = [s EXCEPT !.last_columns = cleared]
    BY <1>0, <1>4 DEF Control, Screens
  <2> HIDE DEF cleared
  <2>3. Control(s, char) \in Screens /\ Control(s, char).x = s.x /\ Control(s, char).y = s.y
    BY <2>1, <2>2 DEF Screens
  <2> QED BY <1>0, <2>3
<1>5. CASE char = "return"
  <2>1. Control(s, char) = Noted(MoveTo(s, s.y, 0))
    BY <1>5 DEF Control
  <2>2. MoveTo(s, s.y, 0) \in Screens /\ MoveTo(s, s.y, 0).y = s.y /\ MoveTo(s, s.y, 0).x = 0
    BY <1>0 DEF MoveTo, Screens
  <2> QED BY <1>0, <2>1, <2>2, NotedColumn
<1> QED BY <1>1, <1>2, <1>3, <1>4, <1>5, ConsoleAssumption

-----------------------------------------------------------------------------
(* Where the cursor gets to                                                *)

\* The counts of those who are about to wrap and to scroll are at most that of
\* the writers.
LEMMA Counts ==
    ASSUME NEW S, S \subseteq Writer
    PROVE  IsFiniteSet(S) /\ Cardinality(S) \in Nat /\ Cardinality(S) <= Cardinality(Writer)
BY Dimensions, FS_Subset, FS_CardinalityType

\* Under the invariant the cursor's line has its cell.
LEMMA CursorInLine == ASSUME ConsoleInv PROVE screen.y \in Line
<1>1. Cardinality(Settling) \in Nat /\ Cardinality(Settling) <= Cardinality(Writer)
  BY Counts DEF Settling
<1>2. screen.y \in Nat /\ screen.y <= LastLine + Cardinality(Settling)
  BY DEF ConsoleInv, Screens
<1> QED BY <1>1, <1>2, Dimensions

\* What a step must show: the cursor moves right and down by a writer's own
\* step only, which then counts.
LEMMA CursorKept ==
    ASSUME ConsoleInv, NEW w \in Writer, NEW to \in {"out", "string", "wrap", "settle"},
           stage' = [stage EXCEPT ![w] = to], screen' \in Screens,
           \/ screen'.x <= LastColumn
           \/ screen'.x <= screen.x /\ stage[w] # "wrap"
           \/ screen'.x = screen.x + 1 /\ stage[w] # "wrap" /\ to = "wrap",
           \/ screen'.y <= LastLine
           \/ screen'.y <= screen.y /\ stage[w] # "settle"
           \/ screen'.y = screen.y + 1 /\ stage[w] # "settle" /\ to = "settle"
    PROVE  ConsoleInv'
<1>0. /\ screen.x \in Nat /\ screen.y \in Nat /\ screen'.x \in Nat /\ screen'.y \in Nat
      /\ LastColumn \in Nat /\ LastLine \in Nat
  BY Dimensions DEF ConsoleInv, Screens
<1>1. stage' \in [Writer -> {"out", "string", "wrap", "settle"}]
  BY DEF ConsoleInv
<1>2. /\ Wrapping \subseteq Writer /\ Wrapping' \subseteq Writer
      /\ Settling \subseteq Writer /\ Settling' \subseteq Writer
  BY DEF Wrapping, Settling
<1>3. /\ Cardinality(Wrapping) \in Nat /\ Cardinality(Wrapping') \in Nat
      /\ Cardinality(Settling) \in Nat /\ Cardinality(Settling') \in Nat
      /\ IsFiniteSet(Wrapping) /\ IsFiniteSet(Wrapping')
      /\ IsFiniteSet(Settling) /\ IsFiniteSet(Settling')
  BY <1>2, Counts
<1>4. screen'.x <= LastColumn + Cardinality(Wrapping')
  <2>1. CASE screen'.x <= LastColumn
    BY <1>0, <1>3, <2>1
  <2>2. CASE screen'.x <= screen.x /\ stage[w] # "wrap"
    <3>1. Wrapping \subseteq Wrapping'
      BY <2>2 DEF Wrapping, ConsoleInv
    <3>2. Cardinality(Wrapping) <= Cardinality(Wrapping')
      BY <1>3, <3>1, FS_Subset
    <3> QED BY <1>0, <1>3, <2>2, <3>2 DEF ConsoleInv
  <2>3. CASE screen'.x = screen.x + 1 /\ stage[w] # "wrap" /\ to = "wrap"
    <3>1. Wrapping' = Wrapping \cup {w} /\ w \notin Wrapping
      BY <2>3 DEF Wrapping, ConsoleInv
    <3>2. Cardinality(Wrapping') = Cardinality(Wrapping) + 1
      BY <1>3, <3>1, FS_AddElement
    <3> QED BY <1>0, <1>3, <2>3, <3>2 DEF ConsoleInv
  <2> QED BY <2>1, <2>2, <2>3
<1>5. screen'.y <= LastLine + Cardinality(Settling')
  <2>1. CASE screen'.y <= LastLine
    BY <1>0, <1>3, <2>1
  <2>2. CASE screen'.y <= screen.y /\ stage[w] # "settle"
    <3>1. Settling \subseteq Settling'
      BY <2>2 DEF Settling, ConsoleInv
    <3>2. Cardinality(Settling) <= Cardinality(Settling')
      BY <1>3, <3>1, FS_Subset
    <3> QED BY <1>0, <1>3, <2>2, <3>2 DEF ConsoleInv
  <2>3. CASE screen'.y = screen.y + 1 /\ stage[w] # "settle" /\ to = "settle"
    <3>1. Settling' = Settling \cup {w} /\ w \notin Settling
      BY <2>3 DEF Settling, ConsoleInv
    <3>2. Cardinality(Settling') = Cardinality(Settling) + 1
      BY <1>3, <3>1, FS_AddElement
    <3> QED BY <1>0, <1>3, <2>3, <3>2 DEF ConsoleInv
  <2> QED BY <2>1, <2>2, <2>3
<1> QED BY <1>1, <1>4, <1>5 DEF ConsoleInv

\* An empty screen.
LEMMA ConsoleInitInv == ConsoleInit => ConsoleInv
<1> SUFFICES ASSUME ConsoleInit PROVE ConsoleInv
  OBVIOUS
<1>1. screen \in Screens /\ screen.x = 0 /\ screen.y = 0
  BY DEF ConsoleInit, Screens
<1>2. stage \in [Writer -> {"out", "string", "wrap", "settle"}]
  BY DEF ConsoleInit
<1>3. Cardinality(Wrapping) \in Nat /\ Cardinality(Settling) \in Nat
  BY Counts DEF Wrapping, Settling
<1> QED BY <1>1, <1>2, <1>3, Dimensions DEF ConsoleInv

\* The stretches of a printable character, of a thread or of the handler.
LEMMA StretchStep ==
    ASSUME ConsoleInv, NEW w \in Writer,
           \/ Goes(w, Between, "wrap") /\ screen' = Written(screen)
           \/ Goes(w, {"wrap"}, "settle") /\ screen' = Wrapped(screen)
           \/ /\ Goes(w, {"settle"}, "string") \/ Goes(w, {"settle"}, "out")
              /\ screen' = Settled(screen)
    PROVE  ConsoleInv'
<1>0. screen \in Screens /\ screen.x \in Nat /\ screen.y \in Nat /\ LastColumn \in Nat /\ LastLine \in Nat
  BY Dimensions DEF ConsoleInv, Screens
<1>1. /\ Written(screen) \in Screens /\ Written(screen).x = screen.x + 1 /\ Written(screen).y = screen.y
      /\ Wrapped(screen) \in Screens /\ Wrapped(screen).x <= LastColumn
      /\ Wrapped(screen).y \in {screen.y, screen.y + 1}
      /\ Settled(screen) \in Screens /\ Settled(screen).x \in {0, screen.x} /\ Settled(screen).y <= LastLine
  BY <1>0, Characters
<1>2. CASE Goes(w, Between, "wrap") /\ screen' = Written(screen)
  <2>1. stage' = [stage EXCEPT ![w] = "wrap"] /\ stage[w] \notin {"wrap", "settle"}
    BY <1>2 DEF Goes, Between
  <2>2. screen'.y <= screen.y
    BY <1>0, <1>1, <1>2
  <2> QED BY <1>1, <1>2, <2>1, <2>2, CursorKept
<1>3. CASE Goes(w, {"wrap"}, "settle") /\ screen' = Wrapped(screen)
  <2>1. stage' = [stage EXCEPT ![w] = "settle"] /\ stage[w] # "settle"
    BY <1>3 DEF Goes
  <2>2. screen'.y <= screen.y \/ screen'.y = screen.y + 1
    BY <1>0, <1>1, <1>3
  <2> QED BY <1>1, <1>3, <2>1, <2>2, CursorKept
<1>4. CASE /\ Goes(w, {"settle"}, "string") \/ Goes(w, {"settle"}, "out")
           /\ screen' = Settled(screen)
  <2>1. PICK to \in {"out", "string"} : stage' = [stage EXCEPT ![w] = to]
    BY <1>4 DEF Goes
  <2>2. stage[w] # "wrap"
    BY <1>4 DEF Goes
  <2>3. screen'.x <= screen.x
    BY <1>0, <1>1, <1>4
  <2>4. to \in {"out", "string", "wrap", "settle"}
    OBVIOUS
  <2> QED BY <1>1, <1>4, <2>1, <2>2, <2>3, <2>4, CursorKept
<1> QED BY <1>2, <1>3, <1>4

\* A control character and the end of a string, from where nothing is pending.
LEMMA WholeStep ==
    ASSUME ConsoleInv, NEW w \in Writer,
           (\E char \in Controls : WriteControl(w, char)) \/ EndString(w)
    PROVE  ConsoleInv'
<1>0. screen \in Screens /\ screen.x \in Nat /\ screen.y \in Nat /\ screen.y \in Line
  BY CursorInLine DEF ConsoleInv, Screens
<1>1. CASE \E char \in Controls : WriteControl(w, char)
  <2>1. PICK char \in Controls : WriteControl(w, char)
    BY <1>1
  <2>2. stage' = [stage EXCEPT ![w] = "string"] /\ stage[w] \notin {"wrap", "settle"}
    BY <2>1 DEF WriteControl, Goes, Between
  <2>3. screen' = Control(screen, char)
    BY <2>1 DEF WriteControl
  <2> QED BY <1>0, <2>2, <2>3, Controlled, CursorKept
<1>2. CASE EndString(w)
  <2>1. /\ stage' = [stage EXCEPT ![w] = "out"] /\ stage[w] \notin {"wrap", "settle"}
        /\ screen' = [screen EXCEPT !.px = screen.x, !.py = screen.y]
    BY <1>2 DEF EndString, Goes
  <2>2. screen' \in Screens /\ screen'.x = screen.x /\ screen'.y = screen.y
    BY <1>0, <2>1 DEF Screens
  <2>3. screen'.x <= screen.x /\ screen'.y <= screen.y
    BY <1>0, <2>2
  <2> QED BY <2>1, <2>2, <2>3, CursorKept
<1> QED BY <1>1, <1>2

\* The handler's echo in one stretch.
LEMMA EchoStep == ASSUME ConsoleInv, EchoKey PROVE ConsoleInv'
<1>0. /\ screen \in Screens /\ screen.x \in Nat /\ screen.y \in Nat /\ screen.y \in Line
      /\ LastColumn \in Nat /\ LastLine \in Nat
  BY CursorInLine, Dimensions DEF ConsoleInv, Screens
<1>1. "handler" \in Writer /\ stage["handler"] = "out" /\ stage' = stage
  BY DEF EchoKey, Writer
<1>2. stage' = [stage EXCEPT !["handler"] = "out"] /\ stage["handler"] \notin {"wrap", "settle"}
  BY <1>1 DEF ConsoleInv
<1>3. CASE screen' = Settled(Wrapped(Written(screen)))
  <2>1. Written(screen) \in Screens
    BY <1>0, Characters
  <2>2. Wrapped(Written(screen)) \in Screens /\ Wrapped(Written(screen)).x <= LastColumn
    BY <2>1, Characters
  <2>3. screen' \in Screens /\ screen'.x \in {0, Wrapped(Written(screen)).x} /\ screen'.y <= LastLine
    BY <1>3, <2>2, Characters
  <2>4. screen'.x <= LastColumn
    BY <1>0, <2>2, <2>3
  <2> QED BY <1>1, <1>2, <2>3, <2>4, CursorKept
<1>4. CASE \E char \in Typed : screen' = Control(screen, char)
  <2>1. PICK char \in Controls : screen' = Control(screen, char)
    BY <1>4 DEF Typed
  <2>2. /\ screen' \in Screens
        /\ screen'.x <= screen.x \/ screen'.x <= LastColumn
        /\ screen'.y <= screen.y \/ screen'.y <= LastLine
    BY <1>0, <2>1, Controlled
  <2> QED BY <1>1, <1>2, <2>2, CursorKept
<1> QED BY <1>3, <1>4 DEF EchoKey

\* Every step preserves the invariant.
LEMMA ConsoleStep == ConsoleInv /\ [ConsoleNext]_console_vars => ConsoleInv'
<1> SUFFICES ASSUME ConsoleInv, [ConsoleNext]_console_vars PROVE ConsoleInv'
  OBVIOUS
<1>0. Printer \subseteq Writer /\ "handler" \in Writer
  BY DEF Writer
<1>1. CASE UNCHANGED console_vars
  BY <1>1 DEF console_vars, ConsoleInv, Wrapping, Settling
<1>2. CASE EchoKey
  BY <1>2, EchoStep
<1>3. CASE EchoChar \/ EchoWrap \/ EchoSettle
  <2>1. Goes("handler", {"out"}, "wrap") => Goes("handler", Between, "wrap")
    BY DEF Goes, Between
  <2> QED BY <1>0, <1>3, <2>1, StretchStep DEF EchoChar, EchoWrap, EchoSettle
<1>4. ASSUME NEW w \in Printer, WriteChar(w) \/ WrapChar(w) \/ SettleChar(w) PROVE ConsoleInv'
  BY <1>0, <1>4, StretchStep DEF WriteChar, WrapChar, SettleChar
<1>5. ASSUME NEW w \in Printer, (\E char \in Controls : WriteControl(w, char)) \/ EndString(w)
      PROVE  ConsoleInv'
  BY <1>0, <1>5, WholeStep
<1> QED BY <1>1, <1>2, <1>3, <1>4, <1>5 DEF ConsoleNext

\* When nobody is in the middle of a character nothing counts for the cursor.
LEMMA QuietCursor ==
    ASSUME ConsoleInv, Quiet
    PROVE  screen.x <= LastColumn /\ screen.y <= LastLine
<1>1. Wrapping = {} /\ Settling = {}
  BY DEF Quiet, Wrapping, Settling
<1>2. Cardinality({}) = 0
  BY FS_EmptySet
<1>3. screen.x <= LastColumn + 0 /\ screen.y <= LastLine + 0
  BY <1>1, <1>2 DEF ConsoleInv
<1> QED BY <1>3, Dimensions DEF ConsoleInv, Screens

\* vga_process_char and those it interrupts: whoever writes in between, the
\* cursor leaves the screen by one step of each writer at most, the array of
\* line ends is never asked for more, and when all are done it is back.
THEOREM CursorComesBack == ConsoleSpec => []ConsoleTypeOK
<1>1. ConsoleInv => ConsoleTypeOK
  <2> SUFFICES ASSUME ConsoleInv PROVE ConsoleTypeOK
    OBVIOUS
  <2>1. Cardinality(Wrapping) \in Nat /\ Cardinality(Wrapping) <= Cardinality(Writer)
    BY Counts DEF Wrapping
  <2>2. screen.x \in Nat /\ screen.x <= LastColumn + Cardinality(Wrapping)
    BY DEF ConsoleInv, Screens
  <2>3. screen.x \in 0 .. SCREEN_COL_SIZE + Cardinality(Writer)
    BY <2>1, <2>2, Dimensions
  <2> QED BY <2>3, CursorInLine, QuietCursor DEF ConsoleTypeOK, ConsoleInv
<1> QED BY <1>1, ConsoleInitInv, ConsoleStep, PTL DEF ConsoleSpec

-----------------------------------------------------------------------------
(* What typing does to the prompt                                          *)

\* PromptIsBehind, of a screen.
Behind(s) ==
    /\ s.y > s.py \/ (s.y = s.py /\ s.x >= s.px)
    /\ s.px <= LastColumn /\ s.px <= s.last_columns[s.py]

OnScreen(s) == s \in Screens /\ s.x <= LastColumn /\ s.y <= LastLine

\* A screen that is moved to a place behind the prompt and notes it.
LEMMA BehindNoted ==
    ASSUME NEW s \in Screens, NEW line \in Nat, NEW column \in Nat, Behind(s), s.y \in Line,
           line \in Line, line > s.py \/ (line = s.py /\ column >= s.px)
    PROVE  LET n == Noted(MoveTo(s, line, column))
           IN  n \in Screens /\ Behind(n) /\ n.y = line /\ n.x = column
<1> DEFINE m == MoveTo(s, line, column)
<1>0. s.px \in Nat /\ s.py \in Nat /\ s.y \in Nat /\ s.last_columns \in [Line -> Nat] /\ s.y >= s.py
  BY DEF Screens, Behind
<1>1. /\ m \in Screens /\ m.y = line /\ m.x = column /\ m.py = s.py /\ m.px = s.px
      /\ m.last_columns = s.last_columns
  BY DEF MoveTo, Screens
<1>2. s.py \in Line
  BY <1>0, Dimensions
<1> HIDE DEF m
<1>3. /\ Noted(m) \in Screens
      /\ Noted(m).y = m.y /\ Noted(m).x = m.x /\ Noted(m).py = m.py /\ Noted(m).px = m.px
      /\ m.y \in Line => Noted(m).last_columns[m.y] = m.x
      /\ \A l \in Line : l # m.y => Noted(m).last_columns[l] = m.last_columns[l]
  BY <1>1, NotedColumn
<1>4. s.px <= Noted(m).last_columns[s.py]
  <2>1. CASE s.py = line
    BY <1>0, <1>1, <1>3, <2>1
  <2>2. CASE s.py # line
    BY <1>1, <1>2, <1>3, <2>2 DEF Behind
  <2> QED BY <2>1, <2>2
<1>5. Behind(Noted(m))
  BY <1>1, <1>3, <1>4 DEF Behind
<1> QED BY <1>1, <1>3, <1>5 DEF m

\* Scrolling takes the end of the last print along, or forgets a print that
\* has left the screen.
LEMMA BehindScrolled ==
    ASSUME NEW s \in Screens, Behind(s), s.py <= LastLine
    PROVE  Behind(Scroll(s))
<1>0. /\ s.px \in Nat /\ s.py \in Nat /\ s.last_columns \in [Line -> Nat]
      /\ LastLine \in Nat /\ LastLine >= 1 /\ LastColumn \in Nat /\ 0 \in Line
      /\ \A line \in Nat : line <= LastLine => line \in Line
  BY Dimensions DEF Screens
<1>1. /\ Scroll(s) \in Screens /\ Scroll(s).y = LastLine /\ Scroll(s).x = 0
      /\ s.py >= 1 => Scroll(s).py = s.py - 1 /\ Scroll(s).px = s.px
      /\ s.py = 0 => Scroll(s).py = 0 /\ Scroll(s).px = 0
      /\ \A line \in Line : line < LastLine => Scroll(s).last_columns[line] = s.last_columns[line + 1]
  BY Scrolled
<1>2. CASE s.py = 0
  <2>1. Scroll(s).last_columns[0] \in Nat
    BY <1>0, <1>1 DEF Screens
  <2> QED BY <1>0, <1>1, <1>2, <2>1 DEF Behind
<1>3. CASE s.py # 0
  <2>1. s.py - 1 \in Line /\ s.py - 1 < LastLine /\ s.py - 1 + 1 = s.py /\ s.py >= 1
    BY <1>0, <1>3
  <2>2. Scroll(s).last_columns[s.py - 1] = s.last_columns[s.py]
    BY <1>1, <2>1
  <2> QED BY <1>0, <1>1, <2>1, <2>2 DEF Behind
<1> QED BY <1>2, <1>3

\* A printable character typed behind the prompt ends up behind it.
LEMMA BehindCharacter ==
    ASSUME NEW s, OnScreen(s), Behind(s)
    PROVE  Behind(Settled(Wrapped(Written(s))))
<1> DEFINE w == Written(s)
<1>0. /\ s \in Screens /\ s.x \in Nat /\ s.y \in Nat /\ s.px \in Nat /\ s.py \in Nat
      /\ s.py <= s.y /\ s.y <= LastLine /\ LastLine \in Nat /\ LastColumn \in Nat
      /\ LastLine = SCREEN_LINE_SIZE - 1 /\ SCREEN_LINE_SIZE \in Nat
      /\ \A line \in Nat : line <= LastLine + 1 => line \in Line
  BY Dimensions DEF OnScreen, Screens, Behind
<1>1. /\ w \in Screens /\ w.x = s.x + 1 /\ w.y = s.y /\ w.px = s.px /\ w.py = s.py
      /\ w.last_columns = s.last_columns
  BY <1>0 DEF Written, Screens
<1> HIDE DEF w
<1>2. Behind(w) /\ w.x \in Nat /\ w.y \in Nat /\ w.y + 1 \in Nat
  BY <1>0, <1>1 DEF Behind
<1>3. w.y \in Line /\ w.y + 1 \in Line /\ w.y + 1 > w.py
  BY <1>0, <1>1
<1>4. CASE w.x > LastColumn
  <2> DEFINE r == Noted(MoveTo(w, w.y + 1, 0))
  <2>1. Wrapped(w) = r
    BY <1>4 DEF Wrapped
  <2>2. r \in Screens /\ Behind(r) /\ r.y = w.y + 1
    BY <1>1, <1>2, <1>3, BehindNoted
  <2>3. r.py = w.py
    <3>1. MoveTo(w, w.y + 1, 0) \in Screens /\ MoveTo(w, w.y + 1, 0).py = w.py
      BY <1>1, <1>2 DEF MoveTo, Screens
    <3> QED BY <3>1, NotedColumn
  <2> HIDE DEF r
  <2>4. CASE r.y >= SCREEN_LINE_SIZE
    <3>1. Settled(r) = Scroll(r) /\ r.py <= LastLine
      BY <1>0, <1>1, <2>3, <2>4 DEF Settled
    <3> QED BY <2>1, <2>2, <3>1, BehindScrolled DEF w
  <2>5. CASE ~(r.y >= SCREEN_LINE_SIZE)
    <3>1. Settled(r) = Noted(r)
      BY <2>5 DEF Settled
    <3>2. Behind(Noted(r))
      <4>1. /\ Noted(r) \in Screens
            /\ Noted(r).y = r.y /\ Noted(r).x = r.x /\ Noted(r).py = r.py /\ Noted(r).px = r.px
            /\ \A l \in Line : l # r.y => Noted(r).last_columns[l] = r.last_columns[l]
        BY <2>2, NotedColumn
      <4>2. r.py # r.y /\ r.py \in Line
        BY <1>0, <1>1, <2>2, <2>3
      <4> QED BY <2>2, <4>1, <4>2 DEF Behind
    <3> QED BY <2>1, <3>1, <3>2 DEF w
  <2> QED BY <2>4, <2>5
<1>5. CASE ~(w.x > LastColumn)
  <2>1. Wrapped(w) = w
    BY <1>5 DEF Wrapped
  <2>2. Settled(w) = Noted(w)
    BY <1>0, <1>1 DEF Settled
  <2>3. /\ Noted(w) \in Screens
        /\ Noted(w).y = w.y /\ Noted(w).x = w.x /\ Noted(w).py = w.py /\ Noted(w).px = w.px
        /\ Noted(w).last_columns[w.y] = w.x
        /\ \A l \in Line : l # w.y => Noted(w).last_columns[l] = w.last_columns[l]
    BY <1>1, <1>3, NotedColumn
  <2>4. w.py \in Line
    BY <1>0, <1>1
  <2>5. ASSUME w.py = w.y PROVE Behind(Noted(w))
    BY <1>2, <2>3, <2>5 DEF Behind
  <2>6. ASSUME w.py # w.y PROVE Behind(Noted(w))
    BY <1>2, <2>3, <2>4, <2>6 DEF Behind
  <2> QED BY <2>1, <2>2, <2>5, <2>6 DEF w
<1> QED BY <1>4, <1>5

\* So does a control character the keyboard has: erasing stops at the prompt,
\* also when it goes back to the line the print ended on.
LEMMA BehindControl ==
    ASSUME NEW s, OnScreen(s), Behind(s), NEW char \in Typed
    PROVE  Behind(Control(s, char))
<1>0. /\ s \in Screens /\ s.x \in Nat /\ s.y \in Nat /\ s.px \in Nat /\ s.py \in Nat
      /\ s.last_columns \in [Line -> Nat]
      /\ s.py <= s.y /\ s.y <= LastLine /\ LastLine \in Nat /\ LastColumn \in Nat /\ 0 \in Nat
      /\ s.x <= LastColumn /\ s.y \in Line
      /\ \A line \in Nat : line <= LastLine + 1 => line \in Line
  BY Dimensions DEF OnScreen, Screens, Behind
<1>1. CASE char = "backspace"
  <2>0. Control(s, char) = Backspace(s)
    BY <1>1 DEF Control
  <2>1. CASE /\ (s.py = s.y /\ s.x > s.px) \/ (s.py < s.y /\ s.x > 0)
             /\ Backspace(s) = Noted(MoveTo(s, s.y, s.x - 1)) /\ s.x - 1 \in Nat
    <3>1. s.y > s.py \/ (s.y = s.py /\ s.x - 1 >= s.px)
      BY <1>0, <2>1
    <3>2. Behind(Noted(MoveTo(s, s.y, s.x - 1)))
      BY <1>0, <2>1, <3>1, BehindNoted
    <3> QED BY <2>0, <2>1, <3>2
  <2>2. CASE /\ s.py < s.y /\ s.x = 0
             /\ \E end \in 0 .. LastColumn :
                   /\ Backspace(s) = MoveTo([s EXCEPT !.last_columns =
                                               [s.last_columns EXCEPT ![s.y - 1] = end]], s.y - 1, end)
                   /\ s.y - 1 \in Line /\ s.y - 1 \in Nat
                   /\ end = s.last_columns[s.y - 1] \/ end = LastColumn
    <3>1. PICK end \in 0 .. LastColumn :
                   /\ Backspace(s) = MoveTo([s EXCEPT !.last_columns =
                                               [s.last_columns EXCEPT ![s.y - 1] = end]], s.y - 1, end)
                   /\ s.y - 1 \in Line /\ s.y - 1 \in Nat
                   /\ end = s.last_columns[s.y - 1] \/ end = LastColumn
      BY <2>2
    <3> DEFINE columns == [s.last_columns EXCEPT ![s.y - 1] = end]
               c == [s EXCEPT !.last_columns = columns]
               b == MoveTo(c, s.y - 1, end)
    <3>2. columns \in [Line -> Nat] /\ columns[s.y - 1] = end
          /\ \A l \in Line : l # s.y - 1 => columns[l] = s.last_columns[l]
      BY <1>0, <3>1
    <3>3. Backspace(s) = b
      BY <3>1
    <3> HIDE DEF columns
    <3>4. b.x = end /\ b.y = s.y - 1 /\ b.px = s.px /\ b.py = s.py /\ b.last_columns = columns
      BY <1>0, <3>2 DEF MoveTo, Screens
    <3> HIDE DEF c, b
    <3>5. s.py \in Line
      BY <1>0
    <3>6. CASE s.py = s.y - 1
      <4>1. end >= s.px
        BY <1>0, <3>1, <3>6 DEF Behind
      <4> QED BY <2>0, <3>2, <3>3, <3>4, <3>6, <4>1, <1>0 DEF Behind
    <3>7. CASE s.py # s.y - 1
      <4>1. s.y - 1 > s.py
        BY <1>0, <2>2, <3>7
      <4> QED BY <2>0, <3>2, <3>3, <3>4, <3>5, <3>7, <4>1 DEF Behind
    <3> QED BY <3>6, <3>7
  <2>3. CASE Backspace(s) = s
    BY <2>0, <2>3
  <2> QED BY <1>0, <2>1, <2>2, <2>3, Erased
<1>2. CASE char = "tab"
  <2> DEFINE to == IF s.x + TabWidth < LastColumn THEN s.x + (TabWidth - (s.x % TabWidth)) ELSE LastColumn
  <2>1. to \in Nat /\ to >= s.x
    BY <1>0, Dimensions
  <2>2. Control(s, char) = Noted(MoveTo(s, s.y, to))
    BY <1>2 DEF Control
  <2> HIDE DEF to
  <2>3. s.y > s.py \/ (s.y = s.py /\ to >= s.px)
    BY <1>0, <2>1 DEF Behind
  <2>4. Behind(Noted(MoveTo(s, s.y, to)))
    BY <1>0, <2>1, <2>3, BehindNoted
  <2> QED BY <2>2, <2>4
<1>3. CASE char = "newline"
  <2>1. CASE s.y < LastLine
    <3>1. Control(s, char) = Noted(MoveTo(s, s.y + 1, 0)) /\ s.y + 1 \in Nat
          /\ s.y + 1 \in Line /\ s.y + 1 > s.py
      BY <1>0, <1>3, <2>1 DEF Control
    <3>2. Behind(Noted(MoveTo(s, s.y + 1, 0)))
      BY <1>0, <3>1, BehindNoted
    <3> QED BY <3>1, <3>2
  <2>2. CASE ~(s.y < LastLine)
    <3>1. Control(s, char) = Scroll(s) /\ s.py <= LastLine
      BY <1>0, <1>3, <2>2 DEF Control
    <3> QED BY <1>0, <3>1, BehindScrolled
  <2> QED BY <2>1, <2>2
<1> QED BY <1>1, <1>2, <1>3 DEF Typed

\* vga_console_write_keyboard: while nobody prints, nothing that is typed takes
\* the cursor into what was printed before, however it wraps and scrolls.
THEOREM TypingSparesPrompt == ConsoleSpec => EchoKeepsThePrompt
<1> DEFINE Spares == EchoKey /\ Quiet /\ PromptIsBehind => PromptIsBehind'
<1>1. ConsoleInv /\ [ConsoleNext]_console_vars => [Spares]_console_vars
  <2> SUFFICES ASSUME ConsoleInv, EchoKey, Quiet, PromptIsBehind PROVE PromptIsBehind'
    OBVIOUS
  <2>1. OnScreen(screen)
    BY QuietCursor DEF OnScreen, ConsoleInv
  <2>2. Behind(screen)
    BY DEF PromptIsBehind, Behind
  <2>3. Behind(screen')
    BY <2>1, <2>2, BehindCharacter, BehindControl DEF EchoKey
  <2> QED BY <2>3 DEF PromptIsBehind, Behind
<1> QED BY <1>1, ConsoleInitInv, ConsoleStep, PTL DEF ConsoleSpec, EchoKeepsThePrompt

-----------------------------------------------------------------------------
(***************************************************************************)
(* drivers/pit.c: no tick finds the handler table empty and the clock does *)
(* not stay stopped, for any number of threads, handlers and calls.        *)
(* core/interrupts.c and sync/lock.c: a stretch under a spinlock is one    *)
(* step, for any number of threads, nested spinlocks and nested handlers.  *)
(***************************************************************************)

Steps == {"out", "enable", "disable", "freq", "remove", "register", "unmask"}
Operations == {"none", "enable", "disable", "freq", "dummy"} \cup TickHandler

\* Where the threads are: who replaces the handler brings one, and holds the
\* lock from the removal to the registration.
ThreadsInPlace ==
    /\ at \in [PitThread -> [step : Steps, op : Operations]]
    /\ \A t \in PitThread :
          /\ at[t].step \in {"remove", "register"} => at[t].op \in {"dummy"} \cup TickHandler
          /\ at[t].step = "register" => pit_lock = t
          /\ at[t].step = "disable" => at[t].op \in {"disable", "freq", "dummy"} \cup TickHandler

PitShape ==
    /\ pit \in [nesting : Nat, masked : BOOLEAN, handler : {"NULL", "dummy"} \cup TickHandler]
    /\ tick \in BOOLEAN
    /\ pit_lock \in PitThread \cup {NoPitThread}

\* The table is empty only while somebody holds the lock.
EmptyOnlyLocked == pit.handler = "NULL" => pit_lock # NoPitThread

PitInv == PitShape /\ ThreadsInPlace /\ EmptyOnlyLocked /\ ClockRuns

\* init_pit.
LEMMA PitInitInv == PitInit => PitInv
<1> SUFFICES ASSUME PitInit PROVE PitInv
  OBVIOUS
<1>1. PitShape
  BY DEF PitInit, PitShape
<1>2. ThreadsInPlace
  BY DEF PitInit, ThreadsInPlace, Out, Steps, Operations
<1>3. EmptyOnlyLocked /\ ClockRuns
  BY DEF PitInit, EmptyOnlyLocked, ClockRuns
<1> QED BY <1>1, <1>2, <1>3 DEF PitInv

\* A call begins: from "out", where nobody is about to unmask anything.
LEMMA PitCallStep == ASSUME PitInv, NEW t \in PitThread, CallPit(t) PROVE PitInv'
<1> USE DEF PitInv
<1> DEFINE Begins(step, op) ==
             /\ at' = [at EXCEPT ![t] = [step |-> step, op |-> op]]
             /\ step = "disable" => op \in {"disable", "freq", "dummy"} \cup TickHandler
<1>1. PICK step \in {"enable", "disable"}, op \in Operations : Begins(step, op)
  <2>1. CASE at' = [at EXCEPT ![t] = [step |-> "enable", op |-> "enable"]]
    <3>1. Begins("enable", "enable") /\ "enable" \in Operations
      BY <2>1 DEF Operations
    <3> QED BY <3>1
  <2>2. CASE \E op \in {"disable", "freq", "dummy"} \cup TickHandler :
                at' = [at EXCEPT ![t] = [step |-> "disable", op |-> op]]
    <3>1. PICK op \in {"disable", "freq", "dummy"} \cup TickHandler : Begins("disable", op)
      BY <2>2
    <3>2. op \in Operations
      BY DEF Operations
    <3> QED BY <3>1, <3>2
  <2> QED BY <2>1, <2>2 DEF CallPit
<1>2. pit' = pit /\ tick' = tick /\ pit_lock' = pit_lock /\ at[t] = Out
  BY DEF CallPit
<1>3. ThreadsInPlace'
  BY <1>1, <1>2 DEF ThreadsInPlace, Steps
<1>4. ClockRuns'
  BY <1>1, <1>2 DEF ThreadsInPlace, ClockRuns, Out
<1> QED BY <1>2, <1>3, <1>4 DEF PitShape, EmptyOnlyLocked

\* disable_pit counts before it masks; the count makes ClockRuns ask nothing.
LEMMA DisableStep == ASSUME PitInv, NEW t \in PitThread, DisablePit(t) PROVE PitInv'
<1> USE DEF PitInv
<1>1. /\ pit' = [pit EXCEPT !.nesting = @ + 1, !.masked = TRUE]
      /\ tick' = tick /\ pit_lock' = pit_lock /\ at[t].step = "disable"
  BY DEF DisablePit
<1>2. PitShape' /\ EmptyOnlyLocked' /\ pit'.nesting # 0
  <2>1. pit.nesting \in Nat /\ pit.nesting + 1 \in Nat /\ pit.nesting + 1 # 0
    BY DEF PitShape
  <2>2. pit' \in [nesting : Nat, masked : BOOLEAN, handler : {"NULL", "dummy"} \cup TickHandler]
    BY <1>1, <2>1 DEF PitShape
  <2>3. pit'.nesting = pit.nesting + 1 /\ pit'.handler = pit.handler
    BY <1>1 DEF PitShape
  <2> QED BY <1>1, <2>1, <2>2, <2>3 DEF PitShape, EmptyOnlyLocked
<1>3. ThreadsInPlace'
  <2>1. CASE at[t].op = "disable"
    BY <1>1, <2>1 DEF DisablePit, ThreadsInPlace, Out, Steps, Operations
  <2>2. CASE at[t].op = "freq"
    BY <1>1, <2>2 DEF DisablePit, ThreadsInPlace, To, Steps
  <2>3. CASE at[t].op \notin {"disable", "freq"}
    <3>1. To(t, "remove")
      BY <2>3 DEF DisablePit
    <3>2. at[t].op \in {"dummy"} \cup TickHandler
      BY <1>1, <2>3 DEF ThreadsInPlace, Operations
    <3> QED BY <1>1, <3>1, <3>2 DEF ThreadsInPlace, To, Steps
  <2> QED BY <2>1, <2>2, <2>3
<1> QED BY <1>2, <1>3 DEF ClockRuns

\* set_pit_freq and the two halves of set_pit_handler: the line stays as it is.
LEMMA ReplaceStep ==
    ASSUME PitInv, NEW t \in PitThread, SetFreq(t) \/ RemoveHandler(t) \/ RegisterHandler(t)
    PROVE  PitInv'
<1> USE DEF PitInv
<1>1. /\ tick' = tick /\ at[t].step # "unmask"
      /\ pit'.nesting = pit.nesting /\ pit'.masked = pit.masked
  BY DEF SetFreq, RemoveHandler, RegisterHandler, PitShape
<1>2. PICK step \in {"enable", "register"} : at' = [at EXCEPT ![t].step = step]
  BY DEF SetFreq, RemoveHandler, RegisterHandler, To
<1>3. ClockRuns'
  BY <1>1, <1>2 DEF ThreadsInPlace, ClockRuns
<1>4. PitShape' /\ ThreadsInPlace' /\ EmptyOnlyLocked'
  <2>1. CASE SetFreq(t)
    BY <2>1 DEF SetFreq, To, PitShape, ThreadsInPlace, EmptyOnlyLocked, Steps, Unlocked
  <2>2. CASE RemoveHandler(t)
    <3>1. \A s \in PitThread : at[s].step # "register"
      BY <2>2, PitAssumption DEF RemoveHandler, Unlocked, ThreadsInPlace
    <3>2. at[t].op \in {"dummy"} \cup TickHandler /\ t # NoPitThread
      BY <2>2, PitAssumption DEF RemoveHandler, ThreadsInPlace
    <3>3. CASE pit.handler = "NULL"
      BY <2>2, <3>3 DEF RemoveHandler, EmptyOnlyLocked, Unlocked
    <3>4. CASE pit.handler # "NULL"
      <4>1. pit' = [pit EXCEPT !.handler = "NULL"] /\ pit_lock' = t /\ To(t, "register")
        BY <2>2, <3>4 DEF RemoveHandler
      <4> QED BY <4>1, <1>1, <3>1, <3>2 DEF To, PitShape, ThreadsInPlace, EmptyOnlyLocked, Steps
    <3> QED BY <3>3, <3>4
  <2>3. CASE RegisterHandler(t)
    <3>1. pit_lock = t /\ at[t].op \in {"dummy"} \cup TickHandler
      BY <2>3 DEF RegisterHandler, ThreadsInPlace
    <3>2. \A s \in PitThread : s # t => at[s].step # "register"
      BY <3>1, PitAssumption DEF ThreadsInPlace
    <3>3. /\ pit' = IF pit.handler = "NULL" THEN [pit EXCEPT !.handler = at[t].op] ELSE pit
          /\ pit_lock' = NoPitThread /\ To(t, "enable")
      BY <2>3 DEF RegisterHandler
    <3>4. pit' \in [nesting : Nat, masked : BOOLEAN, handler : {"dummy"} \cup TickHandler]
      BY <3>1, <3>3 DEF PitShape
    <3>5. PitShape' /\ EmptyOnlyLocked'
      BY <3>3, <3>4, <1>1, PitAssumption DEF PitShape, EmptyOnlyLocked
    <3> QED BY <3>2, <3>3, <3>5 DEF To, ThreadsInPlace, Steps
  <2> QED BY <2>1, <2>2, <2>3
<1> QED BY <1>3, <1>4

\* enable_pit: whoever brings the count to zero goes on to unmask the line.
LEMMA PitEnableStep == ASSUME PitInv, NEW t \in PitThread, EnablePit(t) PROVE PitInv'
<1> USE DEF PitInv
<1>1. /\ pit' = [pit EXCEPT !.nesting = IF @ > 0 THEN @ - 1 ELSE @]
      /\ tick' = tick /\ pit_lock' = pit_lock /\ at[t].step = "enable"
  BY DEF EnablePit
<1>2. PitShape' /\ EmptyOnlyLocked'
  BY <1>1 DEF PitShape, EmptyOnlyLocked
<1>3. CASE pit'.nesting = 0
  <2>1. at' = [at EXCEPT ![t].step = "unmask"]
    BY <1>3 DEF EnablePit, To
  <2> QED BY <1>1, <1>2, <2>1 DEF ThreadsInPlace, ClockRuns, Steps
<1>4. CASE pit'.nesting # 0
  <2>1. at' = [at EXCEPT ![t] = Out]
    BY <1>4 DEF EnablePit
  <2> QED BY <1>1, <1>2, <1>4, <2>1 DEF ThreadsInPlace, ClockRuns, Out, Steps, Operations
<1> QED BY <1>3, <1>4

\* ... and does unmask it.
LEMMA UnmaskStep == ASSUME PitInv, NEW t \in PitThread, UnmaskLine(t) PROVE PitInv'
<1> USE DEF PitInv
<1>1. PitShape' /\ EmptyOnlyLocked' /\ ClockRuns'
  BY DEF UnmaskLine, PitShape, EmptyOnlyLocked, ClockRuns
<1>2. ThreadsInPlace'
  BY DEF UnmaskLine, ThreadsInPlace, Out, Steps, Operations
<1> QED BY <1>1, <1>2

\* Every step preserves the invariant.
LEMMA PitStep == PitInv /\ [PitNext]_pit_vars => PitInv'
<1> SUFFICES ASSUME PitInv, [PitNext]_pit_vars PROVE PitInv'
  OBVIOUS
<1>1. CASE \E t \in PitThread : CallPit(t)
  BY <1>1, PitCallStep
<1>2. CASE \E t \in PitThread : DisablePit(t)
  BY <1>2, DisableStep
<1>3. CASE \E t \in PitThread : SetFreq(t) \/ RemoveHandler(t) \/ RegisterHandler(t)
  BY <1>3, ReplaceStep
<1>4. CASE \E t \in PitThread : EnablePit(t)
  BY <1>4, PitEnableStep
<1>5. CASE \E t \in PitThread : UnmaskLine(t)
  BY <1>5, UnmaskStep
<1>6. CASE AcceptTick \/ DeliverTick \/ UNCHANGED pit_vars
  BY <1>6 DEF AcceptTick, DeliverTick, pit_vars, PitInv, PitShape, ThreadsInPlace, EmptyOnlyLocked, ClockRuns
<1> QED BY <1>1, <1>2, <1>3, <1>4, <1>5, <1>6 DEF PitNext

\* pit.c's enable_pit, disable_pit, set_pit_freq and set_pit_handler, called by
\* any number of threads: a tick that is delivered finds a handler, and the
\* line is unmasked once every disable has been undone.
THEOREM PitIsSound == PitSpec => []PitSound
<1>1. PitInv => PitSound
  BY DEF PitInv, PitSound, TickFindsHandler, EmptyOnlyLocked, Unlocked
<1> QED BY <1>1, PitInitInv, PitStep, PTL DEF PitSpec

\* The timer's variables keep their types.
THEOREM PitTypes == PitSpec => []PitTypeOK
<1>1. PitInv => PitTypeOK
  BY DEF PitInv, PitShape, PitTypeOK
<1> QED BY <1>1, PitInitInv, PitStep, PTL DEF PitSpec

-----------------------------------------------------------------------------
(* Interrupts and spinlocks                                                *)

\* What stacks are made of.
StackFrame == [of : {"thread"} \cup Device, at : {"run", "counting", "enabling"},
          locks : Nat, flag : BOOLEAN, ended : BOOLEAN]

\* The types, and no fault.
InterruptsShape ==
    /\ lapic_capable \in BOOLEAN
    /\ cpu \in [nesting : Nat, flag : BOOLEAN, runs : Runner]
    /\ stacks \in [Runner -> Seq(StackFrame)]
    /\ service \subseteq Device
    /\ fault = "none"
    /\ \A t \in Runner : Depth(t) > 0

\* A handler that has not sent its end of interrupt.
Open(frame) == frame.of \in Device /\ ~frame.ended

\* The thread at the bottom, handlers above it.
ThreadsBelow == \A t \in Runner : \A i \in 1 .. Depth(t) : stacks[t][i].of = "thread" <=> i = 1

\* No line has two handlers that are to end it.
OneOpen ==
    \A t, u \in Runner : \A i \in 1 .. Depth(t), j \in 1 .. Depth(u) :
        Open(stacks[t][i]) /\ Open(stacks[u][j]) /\ stacks[t][i].of = stacks[u][j].of
            => t = u /\ i = j

\* Code that was interrupted, or left by the scheduler, was between two calls
\* and holds nothing.
Waits(frame) ==
    /\ frame.at = "run" /\ frame.locks = 0 /\ frame.flag = TRUE
    /\ Open(frame) => frame.of \in Posting /\ frame.of \in service

OthersWait ==
    \A t \in Runner : \A i \in 1 .. Depth(t) :
        t # cpu.runs \/ i # Depth(t) => Waits(stacks[t][i])

\* The code that runs has the count and the flag that go with what it holds.
RunsWell ==
    /\ Now.locks = cpu.nesting
    /\ Now.at # "run" \/ cpu.nesting > 0 => cpu.flag = FALSE
    /\ Now.of = "thread" /\ Now.at = "run" /\ cpu.nesting = 0 => cpu.flag = TRUE
    /\ Open(Now) => /\ Now.of \in service
                    /\ \A line \in service : line # Now.of => Rank(Now.of) < Rank(line)
                    /\ cpu.flag = TRUE \/ Now.locks > 0 \/ Now.at # "run" => Now.of \in Posting

\* Whatever is in service is that of the running handler or of one that has
\* taken spinlocks.
ServiceKnown ==
    \A line \in service : line \in Posting \/ (Open(Now) /\ Now.of = line)

\* The inductive invariant.
InterruptsInv ==
    /\ InterruptsShape
    /\ ThreadsBelow /\ OneOpen /\ OthersWait
    /\ RunsWell /\ ServiceKnown

\* What the assumptions say of lines and their ranks.
LEMMA DeviceFacts ==
    /\ "thread" \notin Device /\ "timer" \notin Device /\ Posting \subseteq Device
    /\ \A d, e \in Posting : d = e
    /\ \A line \in Device \cup {"timer"} : Rank(line) \in Int
<1>1. DOMAIN Irq = {"timer", "keyboard", "rtc", "mouse"}
  BY DEF Irq
<1>2. \A line \in DOMAIN Irq : Irq[line] \in Int
  BY DEF Irq
<1>3. \A line \in DOMAIN Irq : Rank(line) \in Int
  BY <1>2 DEF Rank
<1> QED
  BY <1>1, <1>3, InterruptsAssumption DEF InterruptsAssumption

\* Start-up holds the one spinlock there is: the count starts at one.
LEMMA InterruptsStart == InterruptsInit => InterruptsInv
<1> SUFFICES ASSUME InterruptsInit PROVE InterruptsInv
  OBVIOUS
<1>a. Boot \in Runner
  BY InterruptsAssumption DEF InterruptsAssumption
<1> DEFINE First(t) == [FrameOf("thread", TRUE) EXCEPT !.locks = IF t = Boot THEN 1 ELSE 0]
<1>1. \A t \in Runner : First(t) \in StackFrame
  BY DEF FrameOf, StackFrame
<1>2. \A t \in Runner : stacks[t] = <<First(t)>>
  BY DEF InterruptsInit
<1> HIDE DEF First
<1>b. ASSUME NEW e \in StackFrame PROVE <<e>> \in Seq(StackFrame) /\ Len(<<e>>) = 1 /\ <<e>>[1] = e
  OBVIOUS
<1>3. \A t \in Runner : /\ stacks[t] \in Seq(StackFrame) /\ Depth(t) = 1 /\ stacks[t][1] = First(t)
  <2> TAKE t \in Runner
  <2> QED BY <1>1, <1>2, <1>b DEF Depth
<1>4. stacks \in [Runner -> Seq(StackFrame)]
  BY <1>3 DEF InterruptsInit
<1>5. InterruptsShape
  <2>1. \A t \in Runner : Depth(t) > 0
    BY <1>3
  <2> QED BY <1>a, <1>4, <2>1 DEF InterruptsShape, InterruptsInit
<1>6. \A t \in Runner : /\ First(t).of = "thread" /\ First(t).at = "run" /\ First(t).flag = TRUE
                        /\ First(t).locks = IF t = Boot THEN 1 ELSE 0
  BY DEF First, FrameOf
<1>7. \A t \in Runner : ~Open(First(t))
  BY <1>6, DeviceFacts DEF Open
<1>8. Now = First(Boot) /\ cpu.runs = Boot /\ cpu.nesting = 1 /\ cpu.flag = FALSE
  BY <1>a, <1>3 DEF Now, Top, InterruptsInit
<1>9. ThreadsBelow
  BY <1>3, <1>6 DEF ThreadsBelow
<1>10. OneOpen
  BY <1>3, <1>7 DEF OneOpen
<1>11. OthersWait
  BY <1>3, <1>6, <1>7, <1>8 DEF OthersWait, Waits
<1>12. RunsWell
  BY <1>a, <1>6, <1>7, <1>8, DeviceFacts DEF RunsWell
<1>13. ServiceKnown
  BY DEF ServiceKnown, InterruptsInit
<1> QED
  BY <1>5, <1>9, <1>10, <1>11, <1>12, <1>13 DEF InterruptsInv

\* Every stack has frames, the topmost of the active thread is the code that runs.
LEMMA TopFrame ==
    ASSUME InterruptsShape
    PROVE  /\ cpu.runs \in Runner /\ cpu.nesting \in Nat /\ cpu.flag \in BOOLEAN
           /\ \A t \in Runner : /\ stacks[t] \in Seq(StackFrame) /\ Depth(t) \in Nat \ {0}
                                /\ Depth(t) \in 1 .. Depth(t) /\ Top(t) = stacks[t][Depth(t)]
                                /\ \A i \in 1 .. Depth(t) : stacks[t][i] \in StackFrame
           /\ Now = stacks[cpu.runs][Depth(cpu.runs)] /\ Now \in StackFrame
<1>1. \A t \in Runner : stacks[t] \in Seq(StackFrame)
  BY DEF InterruptsShape
<1>2. ASSUME NEW t \in Runner
      PROVE /\ Depth(t) \in Nat \ {0} /\ Depth(t) \in 1 .. Depth(t)
            /\ \A i \in 1 .. Depth(t) : stacks[t][i] \in StackFrame
  BY <1>1, ElementOfSeq DEF InterruptsShape, Depth
<1> QED
  BY <1>1, <1>2 DEF Now, Top, InterruptsShape

\* What the end of interrupt of a handler ends.
LEMMA EndsOwn ==
    ASSUME InterruptsShape, RunsWell, Open(Now)
    PROVE  MostUrgent = {Now.of}
<1>1. /\ Now.of \in service /\ service \subseteq Device
      /\ \A line \in service : line # Now.of => Rank(Now.of) < Rank(line)
      /\ \A line \in service : Rank(line) \in Int
  BY DeviceFacts DEF RunsWell, InterruptsShape
<1>2. Now.of \in MostUrgent
  BY <1>1 DEF MostUrgent
<1>3. ASSUME NEW line \in MostUrgent PROVE line = Now.of
  BY <1>1 DEF MostUrgent
<1> QED
  BY <1>2, <1>3

\* What Change leaves alone.
LEMMA Changed ==
    ASSUME InterruptsShape, NEW frame \in StackFrame, Change(frame)
    PROVE  /\ stacks' \in [Runner -> Seq(StackFrame)]
           /\ \A t \in Runner : Depth(t)' = Depth(t)
           /\ \A t \in Runner : \A i \in 1 .. Depth(t) :
                 stacks'[t][i] = IF t = cpu.runs /\ i = Depth(t) THEN frame ELSE stacks[t][i]
<1> DEFINE s == stacks[cpu.runs]
           n == [s EXCEPT ![Len(s)] = frame]
<1>1. s \in Seq(StackFrame) /\ Len(s) \in 1 .. Len(s) /\ Depth(cpu.runs) = Len(s)
  BY TopFrame DEF Depth
<1>2. /\ n \in Seq(StackFrame) /\ Len(n) = Len(s)
      /\ \A i \in 1 .. Len(s) : n[i] = IF i = Len(s) THEN frame ELSE s[i]
  BY <1>1, ExceptSeq
<1>3. stacks' = [stacks EXCEPT ![cpu.runs] = n]
  BY DEF Change
<1> HIDE DEF n
<1>4. \A t \in Runner : stacks'[t] = IF t = cpu.runs THEN n ELSE stacks[t]
  BY <1>3 DEF InterruptsShape
<1>5. stacks' \in [Runner -> Seq(StackFrame)]
  BY <1>2, <1>3 DEF InterruptsShape
<1>6. \A t \in Runner : Depth(t)' = Depth(t)
  BY <1>2, <1>4 DEF Depth
<1>7. ASSUME NEW t \in Runner, NEW i \in 1 .. Depth(t)
      PROVE stacks'[t][i] = IF t = cpu.runs /\ i = Depth(t) THEN frame ELSE stacks[t][i]
  BY <1>1, <1>2, <1>4 DEF Depth
<1> QED
  BY <1>5, <1>6, <1>7

\* Handlers that come and go nowhere, and send nothing.
LEMMA SameOpen ==
    ASSUME OneOpen, \A t \in Runner : Depth(t)' = Depth(t),
           \A t \in Runner : \A i \in 1 .. Depth(t) :
               /\ stacks'[t][i].of = stacks[t][i].of
               /\ stacks'[t][i].ended = stacks[t][i].ended
    PROVE  OneOpen'
<1> SUFFICES ASSUME NEW t \in Runner, NEW u \in Runner,
                    NEW i \in 1 .. Depth(t)', NEW j \in 1 .. Depth(u)',
                    Open(stacks[t][i])', Open(stacks[u][j])',
                    stacks'[t][i].of = stacks'[u][j].of
             PROVE  t = u /\ i = j
  BY DEF OneOpen
<1>1. i \in 1 .. Depth(t) /\ j \in 1 .. Depth(u)
  OBVIOUS
<1>2. Open(stacks[t][i]) /\ Open(stacks[u][j]) /\ stacks[t][i].of = stacks[u][j].of
  BY <1>1 DEF Open
<1> QED
  BY <1>1, <1>2 DEF OneOpen

\* A step of the code that runs, short of its end of interrupt.
LEMMA SameCode ==
    ASSUME InterruptsInv, NEW frame \in StackFrame, Change(frame),
           frame.of = Now.of, frame.ended = Now.ended,
           cpu' \in [nesting : Nat, flag : BOOLEAN, runs : Runner], cpu'.runs = cpu.runs,
           UNCHANGED <<lapic_capable, service, fault>>
    PROVE  InterruptsShape' /\ ThreadsBelow' /\ OneOpen' /\ OthersWait' /\ ServiceKnown'
           /\ Now' = frame
<1> USE DEF InterruptsInv
<1>1. /\ stacks' \in [Runner -> Seq(StackFrame)]
      /\ \A t \in Runner : Depth(t)' = Depth(t)
      /\ \A t \in Runner : \A i \in 1 .. Depth(t) :
            stacks'[t][i] = IF t = cpu.runs /\ i = Depth(t) THEN frame ELSE stacks[t][i]
  BY Changed
<1>2. \A t \in Runner : \A i \in 1 .. Depth(t) :
          /\ stacks'[t][i].of = stacks[t][i].of
          /\ stacks'[t][i].ended = stacks[t][i].ended
  BY <1>1, TopFrame
<1>3. InterruptsShape'
  BY <1>1 DEF InterruptsShape
<1>4. ThreadsBelow'
  BY <1>1, <1>2 DEF ThreadsBelow
<1>5. OneOpen'
  BY <1>1, <1>2, SameOpen
<1>6. OthersWait'
  BY <1>1 DEF OthersWait, Waits, Open
<1>7. Now' = frame
  BY <1>1, TopFrame DEF Now, Top
<1>8. ServiceKnown'
  BY <1>7 DEF ServiceKnown, Open
<1> QED
  BY <1>3, <1>4, <1>5, <1>6, <1>7, <1>8

\* cli, then the count, then the other way round; sti looks at the count.
LEMMA DisableInterruptsStep == InterruptsInv /\ Disable => InterruptsInv'
<1> SUFFICES ASSUME InterruptsInv, Disable PROVE InterruptsInv'
  OBVIOUS
<1>1. /\ Now \in StackFrame /\ cpu.nesting \in Nat /\ cpu.flag \in BOOLEAN /\ cpu.runs \in Runner
      /\ cpu \in [nesting : Nat, flag : BOOLEAN, runs : Runner]
  BY TopFrame DEF InterruptsInv, InterruptsShape
<1>a. [Now EXCEPT !.at = "counting"] \in StackFrame
  BY <1>1 DEF StackFrame
<1>b. PICK frame \in StackFrame : frame = [Now EXCEPT !.at = "counting"]
  BY <1>a
<1>2. /\ frame.of = Now.of /\ frame.ended = Now.ended
      /\ frame.locks = Now.locks /\ frame.at = "counting"
  BY <1>1, <1>b DEF StackFrame
<1>3. /\ cpu' \in [nesting : Nat, flag : BOOLEAN, runs : Runner] /\ cpu'.runs = cpu.runs
      /\ cpu'.nesting = cpu.nesting /\ cpu'.flag = FALSE
  BY <1>1 DEF Disable
<1>5. Change(frame) /\ UNCHANGED <<lapic_capable, service, fault>> /\ Locks(Now)
  BY <1>b DEF Disable
<1>6. /\ InterruptsShape' /\ ThreadsBelow' /\ OneOpen' /\ OthersWait' /\ ServiceKnown'
      /\ Now' = frame
  BY <1>2, <1>3, <1>5, SameCode
<1>7. RunsWell'
  BY <1>1, <1>2, <1>3, <1>5, <1>6, DeviceFacts DEF InterruptsInv, RunsWell, Open, Locks, Rank
<1> QED
  BY <1>6, <1>7 DEF InterruptsInv

LEMMA CountStep == InterruptsInv /\ Count => InterruptsInv'
<1> SUFFICES ASSUME InterruptsInv, Count PROVE InterruptsInv'
  OBVIOUS
<1>1. /\ Now \in StackFrame /\ cpu.nesting \in Nat /\ cpu.flag \in BOOLEAN /\ cpu.runs \in Runner
      /\ cpu \in [nesting : Nat, flag : BOOLEAN, runs : Runner] /\ Now.locks \in Nat
  BY TopFrame DEF InterruptsInv, InterruptsShape, StackFrame
<1>n. PICK n \in Nat : n = Now.locks + 1
  BY <1>1
<1>a. [Now EXCEPT !.at = "run", !.locks = n] \in StackFrame
  BY <1>1 DEF StackFrame
<1>b. PICK frame \in StackFrame : frame = [Now EXCEPT !.at = "run", !.locks = n]
  BY <1>a
<1>2. /\ frame.of = Now.of /\ frame.ended = Now.ended
      /\ frame.locks = Now.locks + 1 /\ frame.at = "run"
  BY <1>1, <1>n, <1>b DEF StackFrame
<1>3. /\ cpu' \in [nesting : Nat, flag : BOOLEAN, runs : Runner] /\ cpu'.runs = cpu.runs
      /\ cpu'.nesting = cpu.nesting + 1 /\ cpu'.flag = cpu.flag
  BY <1>1 DEF Count
<1>5. Change(frame) /\ UNCHANGED <<lapic_capable, service, fault>> /\ Now.at = "counting"
  BY <1>n, <1>b DEF Count
<1>6. /\ InterruptsShape' /\ ThreadsBelow' /\ OneOpen' /\ OthersWait' /\ ServiceKnown'
      /\ Now' = frame
  BY <1>2, <1>3, <1>5, SameCode
<1>7. RunsWell'
  BY <1>1, <1>2, <1>3, <1>5, <1>6, DeviceFacts DEF InterruptsInv, RunsWell, Open, Rank
<1> QED
  BY <1>6, <1>7 DEF InterruptsInv

LEMMA EnableInterruptsStep == InterruptsInv /\ Enable => InterruptsInv'
<1> SUFFICES ASSUME InterruptsInv, Enable PROVE InterruptsInv'
  OBVIOUS
<1>1. /\ Now \in StackFrame /\ cpu.nesting \in Nat /\ cpu.flag \in BOOLEAN /\ cpu.runs \in Runner
      /\ cpu \in [nesting : Nat, flag : BOOLEAN, runs : Runner] /\ Now.locks \in Nat
      /\ Now.locks = cpu.nesting /\ Now.locks > 0
  BY TopFrame DEF InterruptsInv, InterruptsShape, StackFrame, RunsWell, Enable
<1>n. PICK n \in Nat : n = Now.locks - 1
  BY <1>1
<1>a. [Now EXCEPT !.at = "enabling", !.locks = n] \in StackFrame
  BY <1>1 DEF StackFrame
<1>b. PICK frame \in StackFrame : frame = [Now EXCEPT !.at = "enabling", !.locks = n]
  BY <1>a
<1>2. /\ frame.of = Now.of /\ frame.ended = Now.ended
      /\ frame.locks = Now.locks - 1 /\ frame.at = "enabling"
  BY <1>1, <1>n, <1>b DEF StackFrame
<1>3. /\ cpu' \in [nesting : Nat, flag : BOOLEAN, runs : Runner] /\ cpu'.runs = cpu.runs
      /\ cpu'.nesting = cpu.nesting - 1 /\ cpu'.flag = cpu.flag
  BY <1>1 DEF Enable
<1>5. Change(frame) /\ UNCHANGED <<lapic_capable, service, fault>>
  BY <1>n, <1>b DEF Enable
<1>6. /\ InterruptsShape' /\ ThreadsBelow' /\ OneOpen' /\ OthersWait' /\ ServiceKnown'
      /\ Now' = frame
  BY <1>2, <1>3, <1>5, SameCode
<1>7. RunsWell'
  BY <1>1, <1>2, <1>3, <1>5, <1>6, DeviceFacts DEF InterruptsInv, RunsWell, Open, Rank
<1> QED
  BY <1>6, <1>7 DEF InterruptsInv

LEMMA StiStep == InterruptsInv /\ Sti => InterruptsInv'
<1> SUFFICES ASSUME InterruptsInv, Sti PROVE InterruptsInv'
  OBVIOUS
<1>1. /\ Now \in StackFrame /\ cpu.nesting \in Nat /\ cpu.flag \in BOOLEAN /\ cpu.runs \in Runner
      /\ cpu \in [nesting : Nat, flag : BOOLEAN, runs : Runner] /\ Now.locks \in Nat
      /\ Now.at = "enabling"
  BY TopFrame DEF InterruptsInv, InterruptsShape, StackFrame, Sti
<1>a. [Now EXCEPT !.at = "run"] \in StackFrame
  BY <1>1 DEF StackFrame
<1>b. PICK frame \in StackFrame : frame = [Now EXCEPT !.at = "run"]
  BY <1>a
<1>2. /\ frame.of = Now.of /\ frame.ended = Now.ended
      /\ frame.locks = Now.locks /\ frame.at = "run"
  BY <1>1, <1>b DEF StackFrame
<1>3. /\ cpu' \in [nesting : Nat, flag : BOOLEAN, runs : Runner] /\ cpu'.runs = cpu.runs
      /\ cpu'.nesting = cpu.nesting /\ cpu'.flag = (cpu.flag \/ cpu.nesting = 0)
  BY <1>1 DEF Sti
<1>5. Change(frame) /\ UNCHANGED <<lapic_capable, service, fault>>
  BY <1>b DEF Sti
<1>6. /\ InterruptsShape' /\ ThreadsBelow' /\ OneOpen' /\ OthersWait' /\ ServiceKnown'
      /\ Now' = frame
  BY <1>2, <1>3, <1>5, SameCode
<1>7. cpu'.flag = (cpu.nesting = 0)
  BY <1>1, <1>3 DEF InterruptsInv, RunsWell
<1>8. RunsWell'
  BY <1>1, <1>2, <1>3, <1>5, <1>6, <1>7, DeviceFacts DEF InterruptsInv, RunsWell, Open, Rank
<1> QED
  BY <1>6, <1>8 DEF InterruptsInv

\* The line that is ended is the sender's, and no other frame waits for its end.
LEMMA EndStep == InterruptsInv /\ End => InterruptsInv'
<1> SUFFICES ASSUME InterruptsInv, End PROVE InterruptsInv'
  OBVIOUS
<1>1. /\ Now \in StackFrame /\ cpu.runs \in Runner
      /\ Open(Now) /\ Now.at = "run" /\ Now.locks = 0
  BY TopFrame DEF InterruptsInv, Open, End
<1>a. [Now EXCEPT !.ended = TRUE] \in StackFrame
  BY <1>1 DEF StackFrame
<1>b. PICK frame \in StackFrame : frame = [Now EXCEPT !.ended = TRUE]
  BY <1>a
<1>2. /\ frame.of = Now.of /\ frame.ended = TRUE
      /\ frame.locks = 0 /\ frame.at = "run"
  BY <1>1, <1>b DEF StackFrame
<1>3. Change(frame) /\ UNCHANGED <<lapic_capable, cpu, fault>> /\ service' = service \ MostUrgent
  BY <1>b DEF End
<1>4. service' = service \ {Now.of}
  BY <1>1, <1>3, EndsOwn DEF InterruptsInv
<1>5. /\ stacks' \in [Runner -> Seq(StackFrame)]
      /\ \A t \in Runner : Depth(t)' = Depth(t)
      /\ \A t \in Runner : \A i \in 1 .. Depth(t) :
            stacks'[t][i] = IF t = cpu.runs /\ i = Depth(t) THEN frame ELSE stacks[t][i]
  BY <1>3, Changed DEF InterruptsInv
<1>6. Now' = frame
  BY <1>3, <1>5, TopFrame DEF Now, Top, InterruptsInv
<1>7. InterruptsShape'
  BY <1>3, <1>4, <1>5 DEF InterruptsInv, InterruptsShape
<1>8. ThreadsBelow'
  <2>1. \A t \in Runner : \A i \in 1 .. Depth(t) : stacks'[t][i].of = stacks[t][i].of
    BY <1>2, <1>5, TopFrame DEF InterruptsInv
  <2> QED BY <1>5, <2>1 DEF InterruptsInv, ThreadsBelow
<1>9. OneOpen'
  <2> SUFFICES ASSUME NEW t \in Runner, NEW u \in Runner,
                      NEW i \in 1 .. Depth(t)', NEW j \in 1 .. Depth(u)',
                      Open(stacks[t][i])', Open(stacks[u][j])',
                      stacks'[t][i].of = stacks'[u][j].of
               PROVE  t = u /\ i = j
    BY DEF OneOpen
  <2>1. i \in 1 .. Depth(t) /\ j \in 1 .. Depth(u)
    BY <1>5
  <2>2. stacks'[t][i] = stacks[t][i] /\ stacks'[u][j] = stacks[u][j]
    BY <1>2, <1>5, <2>1 DEF Open
  <2>3. Open(stacks[t][i]) /\ Open(stacks[u][j]) /\ stacks[t][i].of = stacks[u][j].of
    BY <2>2 DEF Open
  <2> QED BY <2>1, <2>3 DEF InterruptsInv, OneOpen
<1>10. OthersWait'
  <2> SUFFICES ASSUME NEW t \in Runner, NEW i \in 1 .. Depth(t), t # cpu.runs \/ i # Depth(t)
               PROVE  Waits(stacks[t][i])'
    BY <1>3, <1>5 DEF OthersWait
  <2>1. stacks'[t][i] = stacks[t][i] /\ Waits(stacks[t][i])
    BY <1>5 DEF InterruptsInv, OthersWait
  <2>2. Open(stacks[t][i]) => stacks[t][i].of # Now.of
    <3>1. Depth(cpu.runs) \in 1 .. Depth(cpu.runs) /\ Now = stacks[cpu.runs][Depth(cpu.runs)]
      BY <1>1, TopFrame DEF InterruptsInv
    <3> QED BY <1>1, <3>1 DEF InterruptsInv, OneOpen
  <2> QED BY <1>4, <2>1, <2>2 DEF Waits, Open
<1>11. RunsWell'
  BY <1>1, <1>2, <1>3, <1>6, DeviceFacts DEF InterruptsInv, RunsWell, Open
<1>12. ServiceKnown'
  BY <1>4 DEF InterruptsInv, ServiceKnown
<1> QED
  BY <1>7, <1>8, <1>9, <1>10, <1>11, <1>12 DEF InterruptsInv

\* With the flag set nothing but a handler that takes spinlocks is in service.
LEMMA FlagSet ==
    ASSUME InterruptsInv, cpu.flag = TRUE
    PROVE  /\ cpu.nesting = 0 /\ Now.locks = 0 /\ Now.at = "run"
           /\ service \subseteq Posting
           /\ Open(Now) => Now.of \in Posting /\ Now.of \in service
<1>1. cpu.nesting = 0 /\ Now.locks = 0 /\ Now.at = "run"
  BY TopFrame DEF InterruptsInv, RunsWell
<1>2. Open(Now) => Now.of \in Posting /\ Now.of \in service
  BY DEF InterruptsInv, RunsWell
<1>3. service \subseteq Posting
  BY <1>2 DEF InterruptsInv, ServiceKnown
<1> QED
  BY <1>1, <1>2, <1>3

\* Code that was waiting goes on as it should.
LEMMA Resumes ==
    ASSUME NEW frame \in StackFrame, Now' = frame, Waits(frame)', service' \subseteq Posting,
           cpu'.nesting = 0, cpu'.flag = TRUE
    PROVE  RunsWell' /\ ServiceKnown'
<1>1. \A line \in service' : Open(frame)' => line = frame.of
  BY DeviceFacts DEF Waits, Open
<1>2. RunsWell'
  BY <1>1 DEF RunsWell, Waits, Open
<1>3. ServiceKnown'
  BY DEF ServiceKnown
<1> QED
  BY <1>2, <1>3

\* The scheduler leaves code that waits, and goes on with code that waited.
LEMMA SwitchStep ==
    ASSUME InterruptsInv, NEW t \in Runner, NEW refusal, ScheduleInt(t, refusal),
           cpu.flag = TRUE, UNCHANGED <<lapic_capable, service>>
    PROVE  InterruptsInv'
<1>1. /\ Now \in StackFrame /\ cpu.runs \in Runner
      /\ cpu \in [nesting : Nat, flag : BOOLEAN, runs : Runner]
  BY TopFrame DEF InterruptsInv, InterruptsShape
<1>2. /\ cpu.nesting = 0 /\ Now.locks = 0 /\ Now.at = "run"
      /\ service \subseteq Posting
      /\ Open(Now) => Now.of \in Posting /\ Now.of \in service
  BY FlagSet
<1>a. [Now EXCEPT !.flag = TRUE] \in StackFrame
  BY <1>1 DEF StackFrame
<1>b. PICK frame \in StackFrame : frame = [Now EXCEPT !.flag = TRUE]
  BY <1>a
<1>3. /\ frame.of = Now.of /\ frame.ended = Now.ended /\ frame.flag = TRUE
      /\ frame.locks = 0 /\ frame.at = "run"
  BY <1>1, <1>2, <1>b DEF StackFrame
<1>4. /\ Change(frame) /\ UNCHANGED <<lapic_capable, service, fault>>
      /\ cpu' = [cpu EXCEPT !.runs = t, !.flag = IF t = cpu.runs THEN @ ELSE Top(t).flag]
  <2>1. ~(cpu.nesting > 0)
    BY <1>2
  <2>2. frame = [Now EXCEPT !.flag = cpu.flag]
    BY <1>b
  <2> QED BY <2>1, <2>2 DEF ScheduleInt
<1>5. /\ stacks' \in [Runner -> Seq(StackFrame)]
      /\ \A u \in Runner : Depth(u)' = Depth(u)
      /\ \A u \in Runner : \A i \in 1 .. Depth(u) :
            stacks'[u][i] = IF u = cpu.runs /\ i = Depth(u) THEN frame ELSE stacks[u][i]
  BY <1>4, Changed DEF InterruptsInv
<1>6. \A u \in Runner : \A i \in 1 .. Depth(u) : Waits(stacks'[u][i])
  BY <1>2, <1>3, <1>5 DEF InterruptsInv, OthersWait, Waits, Open
<1>7. t # cpu.runs => Top(t).flag = TRUE
  BY TopFrame DEF InterruptsInv, OthersWait, Waits
<1>8. /\ cpu' \in [nesting : Nat, flag : BOOLEAN, runs : Runner]
      /\ cpu'.runs = t /\ cpu'.nesting = 0 /\ cpu'.flag = TRUE
  BY <1>1, <1>2, <1>4, <1>7
<1>9. InterruptsShape'
  BY <1>4, <1>5, <1>8 DEF InterruptsInv, InterruptsShape
<1>10. \A u \in Runner : \A i \in 1 .. Depth(u) :
          /\ stacks'[u][i].of = stacks[u][i].of
          /\ stacks'[u][i].ended = stacks[u][i].ended
  <2> SUFFICES ASSUME NEW u \in Runner, NEW i \in 1 .. Depth(u)
               PROVE  /\ stacks'[u][i].of = stacks[u][i].of
                      /\ stacks'[u][i].ended = stacks[u][i].ended
    OBVIOUS
  <2>1. CASE u = cpu.runs /\ i = Depth(u)
    <3>1. stacks'[u][i] = frame /\ stacks[u][i] = Now
      BY <1>5, <2>1, TopFrame DEF InterruptsInv
    <3> QED BY <1>3, <3>1
  <2>2. CASE ~(u = cpu.runs /\ i = Depth(u))
    BY <1>5, <2>2
  <2> QED BY <2>1, <2>2
<1>11. ThreadsBelow'
  BY <1>5, <1>10 DEF InterruptsInv, ThreadsBelow
<1>12. OneOpen'
  BY <1>5, <1>10, SameOpen DEF InterruptsInv
<1>13. OthersWait'
  BY <1>4, <1>5, <1>6 DEF OthersWait, Waits, Open
<1>14. PICK resumed \in StackFrame : resumed = stacks'[t][Depth(t)]
  BY <1>5, TopFrame DEF InterruptsInv
<1>15. Now' = resumed
  BY <1>5, <1>8, <1>14 DEF Now, Top
<1>16. Waits(resumed)'
  BY <1>4, <1>6, <1>14, TopFrame DEF Waits, Open, InterruptsInv
<1>17. RunsWell' /\ ServiceKnown'
  BY <1>2, <1>4, <1>8, <1>15, <1>16, Resumes
<1> QED
  BY <1>9, <1>11, <1>12, <1>13, <1>17 DEF InterruptsInv

LEMMA TimerStep == ASSUME InterruptsInv, NEW t \in Runner, TimerTick(t) PROVE InterruptsInv'
BY SwitchStep DEF TimerTick, InterruptsInv, InterruptsShape

LEMMA YieldStep == ASSUME InterruptsInv, NEW t \in Runner, Yield(t) PROVE InterruptsInv'
<1>1. cpu.flag = TRUE
  BY DEF InterruptsInv, RunsWell, Yield
<1> QED
  BY <1>1, SwitchStep DEF Yield

\* The stack under a handler that comes.
LEMMA Pushed ==
    ASSUME InterruptsShape, NEW below \in StackFrame, NEW above \in StackFrame,
           below = [Now EXCEPT !.flag = TRUE],
           stacks' = [stacks EXCEPT ![cpu.runs] =
                         Append([@ EXCEPT ![Len(@)].flag = TRUE], above)]
    PROVE  /\ stacks' \in [Runner -> Seq(StackFrame)]
           /\ \A t \in Runner : Depth(t)' = IF t = cpu.runs THEN Depth(t) + 1 ELSE Depth(t)
           /\ \A t \in Runner : \A i \in 1 .. Depth(t)' :
                 stacks'[t][i] = IF t # cpu.runs \/ i < Depth(t) THEN stacks[t][i]
                                 ELSE IF i = Depth(t) THEN below ELSE above
<1> DEFINE s == stacks[cpu.runs]
           b == [s EXCEPT ![Len(s)] = below]
           n == Append(b, above)
<1>1. s \in Seq(StackFrame) /\ Len(s) \in 1 .. Len(s) /\ Depth(cpu.runs) = Len(s) /\ Now = s[Len(s)]
  BY TopFrame DEF Depth
<1>2. /\ b \in Seq(StackFrame) /\ Len(b) = Len(s)
      /\ \A i \in 1 .. Len(s) : b[i] = IF i = Len(s) THEN below ELSE s[i]
  BY <1>1, ExceptSeq
<1>3. [s EXCEPT ![Len(s)].flag = TRUE] = b
  BY <1>1
<1> HIDE DEF b
<1>4. /\ n \in Seq(StackFrame) /\ Len(n) = Len(s) + 1
      /\ \A i \in 1 .. Len(s) : n[i] = b[i]
      /\ n[Len(s) + 1] = above
  BY <1>2, AppendProperties
<1>5. stacks' = [stacks EXCEPT ![cpu.runs] = n]
  BY <1>3
<1> HIDE DEF n
<1>6. \A t \in Runner : stacks'[t] = IF t = cpu.runs THEN n ELSE stacks[t]
  BY <1>5 DEF InterruptsShape
<1>7. stacks' \in [Runner -> Seq(StackFrame)]
  BY <1>4, <1>5 DEF InterruptsShape
<1>8. \A t \in Runner : Depth(t)' = IF t = cpu.runs THEN Depth(t) + 1 ELSE Depth(t)
  BY <1>1, <1>4, <1>6 DEF Depth
<1>9. ASSUME NEW t \in Runner, NEW i \in 1 .. Depth(t)'
      PROVE  stacks'[t][i] = IF t # cpu.runs \/ i < Depth(t) THEN stacks[t][i]
                             ELSE IF i = Depth(t) THEN below ELSE above
  <2>1. CASE t # cpu.runs
    BY <1>6, <2>1
  <2>2. CASE t = cpu.runs
    <3>1. i \in 1 .. Len(s) + 1 /\ stacks'[t] = n /\ stacks[t] = s /\ Depth(t) = Len(s)
      BY <1>1, <1>6, <1>8, <2>2
    <3> HIDE DEF s
    <3> QED BY <1>1, <1>2, <1>4, <2>2, <3>1
  <2> QED BY <2>1, <2>2
<1> QED
  BY <1>7, <1>8, <1>9

\* The stack a handler leaves.
LEMMA PoppedFrame ==
    ASSUME InterruptsShape, Depth(cpu.runs) > 1,
           stacks' = [stacks EXCEPT ![cpu.runs] = Front(@)]
    PROVE  /\ stacks' \in [Runner -> Seq(StackFrame)]
           /\ \A t \in Runner : Depth(t)' = IF t = cpu.runs THEN Depth(t) - 1 ELSE Depth(t)
           /\ \A t \in Runner : \A i \in 1 .. Depth(t)' : stacks'[t][i] = stacks[t][i]
           /\ Last(Front(stacks[cpu.runs])) = stacks[cpu.runs][Depth(cpu.runs) - 1]
<1> DEFINE s == stacks[cpu.runs]
           n == Front(s)
<1>1. s \in Seq(StackFrame) /\ Len(s) \in Nat /\ Len(s) > 1 /\ Depth(cpu.runs) = Len(s)
      /\ \A i \in 1 .. Len(s) : s[i] \in StackFrame
  BY TopFrame DEF Depth
<1> HIDE DEF s
<1>2. /\ n \in Seq(StackFrame) /\ Len(n) = Len(s) - 1
      /\ \A i \in 1 .. Len(s) - 1 : n[i] = s[i]
  <2>1. Len(s) - 1 \in Int /\ \A i \in 1 .. Len(s) - 1 : s[i] \in StackFrame
    BY <1>1
  <2>2. /\ SubSeq(s, 1, Len(s) - 1) \in Seq(StackFrame)
        /\ Len(SubSeq(s, 1, Len(s) - 1)) =
              IF 1 <= Len(s) - 1 THEN (Len(s) - 1) - 1 + 1 ELSE 0
        /\ \A i \in 1 .. (Len(s) - 1) - 1 + 1 :
              SubSeq(s, 1, Len(s) - 1)[i] = s[1 + i - 1]
    BY <2>1, SubSeqProperties
  <2> QED BY <1>1, <2>2 DEF Front
<1>3. stacks' = [stacks EXCEPT ![cpu.runs] = n]
  BY DEF s
<1> HIDE DEF n
<1>4. \A t \in Runner : stacks'[t] = IF t = cpu.runs THEN n ELSE stacks[t]
  BY <1>3 DEF InterruptsShape
<1>5. stacks' \in [Runner -> Seq(StackFrame)]
  BY <1>2, <1>3 DEF InterruptsShape
<1>6. \A t \in Runner : Depth(t)' = IF t = cpu.runs THEN Depth(t) - 1 ELSE Depth(t)
  BY <1>1, <1>2, <1>4 DEF Depth
<1>7. ASSUME NEW t \in Runner, NEW i \in 1 .. Depth(t)' PROVE stacks'[t][i] = stacks[t][i]
  BY <1>1, <1>2, <1>4, <1>6 DEF s
<1>8. n[Len(n)] = s[Len(s) - 1]
  BY <1>1, <1>2
<1>9. Last(Front(stacks[cpu.runs])) = stacks[cpu.runs][Depth(cpu.runs) - 1]
  BY <1>1, <1>8 DEF Last, n, s
<1> QED
  BY <1>5, <1>6, <1>7, <1>9

\* A handler comes: what it interrupts waits below it.
LEMMA InterruptStep == ASSUME InterruptsInv, NEW line \in Device, Interrupt(line) PROVE InterruptsInv'
<1>1. /\ Now \in StackFrame /\ cpu.runs \in Runner
      /\ cpu \in [nesting : Nat, flag : BOOLEAN, runs : Runner]
      /\ Now = stacks[cpu.runs][Depth(cpu.runs)] /\ Depth(cpu.runs) \in Nat \ {0}
      /\ cpu.flag = TRUE
  BY TopFrame DEF InterruptsInv, InterruptsShape, Interrupt
<1>2. /\ cpu.nesting = 0 /\ Now.locks = 0 /\ Now.at = "run"
      /\ service \subseteq Posting
      /\ Open(Now) => Now.of \in Posting /\ Now.of \in service
  BY <1>1, FlagSet
<1>a. [Now EXCEPT !.flag = TRUE] \in StackFrame /\ FrameOf(line, FALSE) \in StackFrame
  BY <1>1 DEF StackFrame, FrameOf
<1>b. PICK below \in StackFrame : below = [Now EXCEPT !.flag = TRUE]
  BY <1>a
<1>c. PICK above \in StackFrame : above = FrameOf(line, FALSE)
  BY <1>a
<1>3. /\ below.of = Now.of /\ below.ended = Now.ended /\ below.flag = TRUE
      /\ below.locks = 0 /\ below.at = "run"
      /\ above.of = line /\ above.ended = FALSE /\ above.locks = 0 /\ above.at = "run"
  BY <1>1, <1>2, <1>b, <1>c DEF StackFrame, FrameOf
<1>4. /\ stacks' = [stacks EXCEPT ![cpu.runs] = Append([@ EXCEPT ![Len(@)].flag = TRUE], above)]
      /\ cpu' = [cpu EXCEPT !.flag = FALSE]
      /\ service' = service \cup {line} /\ UNCHANGED <<lapic_capable, fault>>
  <2>1. ~(cpu.nesting > 0)
    BY <1>2
  <2>2. /\ stacks' = [stacks EXCEPT ![cpu.runs] =
                         Append([@ EXCEPT ![Len(@)].flag = TRUE], FrameOf(line, FALSE))]
        /\ cpu' = [cpu EXCEPT !.flag = FALSE]
        /\ service' = service \cup {line} /\ UNCHANGED <<lapic_capable, fault>>
    BY <2>1 DEF Interrupt
  <2> QED BY <2>2, <1>c
<1>5. /\ cpu' \in [nesting : Nat, flag : BOOLEAN, runs : Runner]
      /\ cpu'.runs = cpu.runs /\ cpu'.nesting = 0 /\ cpu'.flag = FALSE
  BY <1>1, <1>2, <1>4
<1>6. /\ stacks' \in [Runner -> Seq(StackFrame)]
      /\ \A t \in Runner : Depth(t)' = IF t = cpu.runs THEN Depth(t) + 1 ELSE Depth(t)
      /\ \A t \in Runner : \A i \in 1 .. Depth(t)' :
            stacks'[t][i] = IF t # cpu.runs \/ i < Depth(t) THEN stacks[t][i]
                            ELSE IF i = Depth(t) THEN below ELSE above
  BY <1>b, <1>4, Pushed DEF InterruptsInv
\* No frame below is of this line and not ended: the line was not in service.
<1>7. line \notin service /\ \A other \in service : Rank(line) < Rank(other)
  <2>1. \A other \in service : Rank(line) < Rank(other)
    BY DEF Interrupt, Passes
  <2> QED BY <2>1, DeviceFacts
<1>8. ASSUME NEW t \in Runner, NEW i \in 1 .. Depth(t)', ~(t = cpu.runs /\ i = Depth(t) + 1)
      PROVE  /\ i \in 1 .. Depth(t)
             /\ stacks'[t][i].of = stacks[t][i].of /\ stacks'[t][i].ended = stacks[t][i].ended
             /\ Waits(stacks'[t][i])
  <2>1. Depth(t) \in Nat \ {0}
    BY TopFrame DEF InterruptsInv
  <2>2. i \in 1 .. Depth(t)
    BY <1>6, <1>8, <2>1
  <2>3. CASE t = cpu.runs /\ i = Depth(t)
    BY <1>1, <1>2, <1>3, <1>6, <2>1, <2>2, <2>3 DEF Waits, Open
  <2>4. CASE ~(t = cpu.runs /\ i = Depth(t))
    BY <1>6, <2>1, <2>2, <2>4 DEF InterruptsInv, OthersWait
  <2> QED BY <2>2, <2>3, <2>4
<1>9. stacks'[cpu.runs][Depth(cpu.runs) + 1] = above /\ Now' = above
  BY <1>1, <1>5, <1>6 DEF Now, Top
<1>10. InterruptsShape'
  <2>1. \A t \in Runner : Depth(t)' > 0
    BY <1>6, TopFrame DEF InterruptsInv
  <2> QED BY <1>4, <1>5, <1>6, <2>1 DEF InterruptsInv, InterruptsShape
<1>11. ThreadsBelow'
  <2> SUFFICES ASSUME NEW t \in Runner, NEW i \in 1 .. Depth(t)'
               PROVE  stacks'[t][i].of = "thread" <=> i = 1
    BY DEF ThreadsBelow
  <2>1. CASE t = cpu.runs /\ i = Depth(t) + 1
    BY <1>1, <1>3, <1>9, <2>1, DeviceFacts
  <2>2. CASE ~(t = cpu.runs /\ i = Depth(t) + 1)
    BY <1>8, <2>2 DEF InterruptsInv, ThreadsBelow
  <2> QED BY <2>1, <2>2
<1>12. OneOpen'
  <2> SUFFICES ASSUME NEW t \in Runner, NEW u \in Runner,
                      NEW i \in 1 .. Depth(t)', NEW j \in 1 .. Depth(u)',
                      Open(stacks[t][i])', Open(stacks[u][j])',
                      stacks'[t][i].of = stacks'[u][j].of
               PROVE  t = u /\ i = j
    BY DEF OneOpen
  <2> DEFINE New(v, k) == v = cpu.runs /\ k = Depth(v) + 1
  <2>1. ASSUME NEW v \in Runner, NEW k \in 1 .. Depth(v)', ~New(v, k), Open(stacks[v][k])'
        PROVE  stacks'[v][k].of \in service
    BY <1>8, <2>1 DEF Waits, Open
  <2>2. ASSUME NEW v \in Runner, NEW k \in 1 .. Depth(v)', New(v, k)
        PROVE  stacks'[v][k].of = line
    BY <1>3, <1>9, <2>2
  <2>3. CASE New(t, i) /\ New(u, j)
    BY <2>3
  <2>4. CASE New(t, i) /\ ~New(u, j)
    <3> HIDE DEF New
    <3> QED BY <1>7, <2>1, <2>2, <2>4
  <2>5. CASE ~New(t, i) /\ New(u, j)
    <3> HIDE DEF New
    <3> QED BY <1>7, <2>1, <2>2, <2>5
  <2>6. CASE ~New(t, i) /\ ~New(u, j)
    <3>1. /\ i \in 1 .. Depth(t) /\ j \in 1 .. Depth(u)
          /\ stacks'[t][i].of = stacks[t][i].of /\ stacks'[t][i].ended = stacks[t][i].ended
          /\ stacks'[u][j].of = stacks[u][j].of /\ stacks'[u][j].ended = stacks[u][j].ended
      BY <1>8, <2>6
    <3>2. Open(stacks[t][i]) /\ Open(stacks[u][j]) /\ stacks[t][i].of = stacks[u][j].of
      BY <3>1 DEF Open
    <3> QED BY <3>1, <3>2 DEF InterruptsInv, OneOpen
  <2> QED BY <2>3, <2>4, <2>5, <2>6
<1>13. OthersWait'
  <2> SUFFICES ASSUME NEW t \in Runner, NEW i \in 1 .. Depth(t)', t # cpu'.runs \/ i # Depth(t)'
               PROVE  Waits(stacks[t][i])'
    BY DEF OthersWait
  <2>1. Waits(stacks'[t][i])
    BY <1>5, <1>6, <1>8
  <2>2. service \subseteq service'
    BY <1>4
  <2> QED BY <2>1, <2>2 DEF Waits, Open
<1>14. RunsWell'
  <2>1. Rank(line)' = Rank(line) /\ \A other \in service : Rank(other)' = Rank(other)
    BY <1>4 DEF Rank
  <2>2. \A other \in service' : other # line => (Rank(line) < Rank(other))'
    BY <1>4, <1>7, <2>1 DEF Rank
  <2> QED BY <1>3, <1>4, <1>5, <1>9, <2>2, DeviceFacts DEF RunsWell, Open, Rank
<1>15. ServiceKnown'
  BY <1>2, <1>3, <1>4, <1>9 DEF ServiceKnown, Open
<1> QED
  BY <1>10, <1>11, <1>12, <1>13, <1>14, <1>15 DEF InterruptsInv

\* A handler that has ended goes: what waited below it runs.
LEMMA IretStep == InterruptsInv /\ Iret => InterruptsInv'
<1> SUFFICES ASSUME InterruptsInv, Iret PROVE InterruptsInv'
  OBVIOUS
<1>1. /\ Now \in StackFrame /\ cpu.runs \in Runner
      /\ cpu \in [nesting : Nat, flag : BOOLEAN, runs : Runner]
      /\ Now = stacks[cpu.runs][Depth(cpu.runs)] /\ Depth(cpu.runs) \in Nat \ {0}
      /\ Now.of \in Device /\ Now.ended /\ ~Open(Now) /\ Now.locks = 0
  BY TopFrame DEF InterruptsInv, InterruptsShape, Iret, Open
<1>2. cpu.nesting = 0 /\ service \subseteq Posting
  BY <1>1 DEF InterruptsInv, RunsWell, ServiceKnown
<1>3. Depth(cpu.runs) > 1
  BY <1>1, DeviceFacts DEF InterruptsInv, ThreadsBelow
<1>4. /\ stacks' \in [Runner -> Seq(StackFrame)]
      /\ \A t \in Runner : Depth(t)' = IF t = cpu.runs THEN Depth(t) - 1 ELSE Depth(t)
      /\ \A t \in Runner : \A i \in 1 .. Depth(t)' : stacks'[t][i] = stacks[t][i]
      /\ Last(Front(stacks[cpu.runs])) = stacks[cpu.runs][Depth(cpu.runs) - 1]
  BY <1>3, PoppedFrame DEF InterruptsInv, Iret
<1>5. \A t \in Runner : Depth(t)' \in Nat \ {0} /\ 1 .. Depth(t)' \subseteq 1 .. Depth(t)
  BY <1>1, <1>3, <1>4, TopFrame DEF InterruptsInv
<1>6. ASSUME NEW t \in Runner, NEW i \in 1 .. Depth(t)'
      PROVE  Waits(stacks[t][i])
  <2>1. i \in 1 .. Depth(t) /\ (t # cpu.runs \/ i # Depth(t))
    BY <1>1, <1>4, <1>5
  <2> QED BY <2>1 DEF InterruptsInv, OthersWait
<1>7. PICK resumed \in StackFrame : resumed = stacks[cpu.runs][Depth(cpu.runs) - 1]
  BY <1>1, <1>3, TopFrame DEF InterruptsInv
<1>8. Waits(resumed)
  BY <1>1, <1>3, <1>4, <1>6, <1>7
<1>9. /\ UNCHANGED <<lapic_capable, service, fault>>
      /\ cpu' = [cpu EXCEPT !.flag = resumed.flag]
  BY <1>4, <1>7 DEF Iret
<1>10. /\ cpu' \in [nesting : Nat, flag : BOOLEAN, runs : Runner]
       /\ cpu'.runs = cpu.runs /\ cpu'.nesting = 0 /\ cpu'.flag = TRUE
  BY <1>1, <1>2, <1>8, <1>9 DEF Waits
<1>11. InterruptsShape'
  BY <1>4, <1>5, <1>9, <1>10 DEF InterruptsInv, InterruptsShape
<1>12. ThreadsBelow'
  BY <1>4, <1>5 DEF InterruptsInv, ThreadsBelow
<1>13. OneOpen'
  <2> SUFFICES ASSUME NEW t \in Runner, NEW u \in Runner,
                      NEW i \in 1 .. Depth(t)', NEW j \in 1 .. Depth(u)',
                      Open(stacks[t][i])', Open(stacks[u][j])',
                      stacks'[t][i].of = stacks'[u][j].of
               PROVE  t = u /\ i = j
    BY DEF OneOpen
  <2>1. /\ i \in 1 .. Depth(t) /\ j \in 1 .. Depth(u)
        /\ stacks'[t][i] = stacks[t][i] /\ stacks'[u][j] = stacks[u][j]
    BY <1>4, <1>5
  <2>2. Open(stacks[t][i]) /\ Open(stacks[u][j]) /\ stacks[t][i].of = stacks[u][j].of
    BY <2>1 DEF Open
  <2> QED BY <2>1, <2>2 DEF InterruptsInv, OneOpen
<1>14. OthersWait'
  <2> SUFFICES ASSUME NEW t \in Runner, NEW i \in 1 .. Depth(t)' PROVE Waits(stacks[t][i])'
    BY DEF OthersWait
  <2>1. Waits(stacks[t][i]) /\ stacks'[t][i] = stacks[t][i]
    BY <1>4, <1>6
  <2> QED BY <1>9, <2>1 DEF Waits, Open
<1>15. Now' = resumed
  BY <1>1, <1>4, <1>5, <1>7, <1>10 DEF Now, Top
<1>16. Waits(resumed)'
  BY <1>8, <1>9 DEF Waits, Open
<1>17. RunsWell' /\ ServiceKnown'
  BY <1>2, <1>9, <1>10, <1>15, <1>16, Resumes
<1> QED
  BY <1>11, <1>12, <1>13, <1>14, <1>17 DEF InterruptsInv

\* Every step preserves the invariant.
LEMMA InterruptsStep == InterruptsInv /\ [InterruptsNext]_interrupt_vars => InterruptsInv'
<1> SUFFICES ASSUME InterruptsInv, [InterruptsNext]_interrupt_vars PROVE InterruptsInv'
  OBVIOUS
<1>1. CASE UNCHANGED interrupt_vars
  <2>1. /\ lapic_capable' = lapic_capable /\ cpu' = cpu /\ stacks' = stacks
        /\ service' = service /\ fault' = fault
    BY <1>1 DEF interrupt_vars
  <2>2. Now' = Now /\ \A t \in Runner : Depth(t)' = Depth(t)
    BY <2>1 DEF Now, Top, Depth
  <2>3. InterruptsShape' /\ ThreadsBelow'
    BY <2>1, <2>2 DEF InterruptsInv, InterruptsShape, ThreadsBelow
  <2>4. OneOpen'
    BY <2>1, <2>2 DEF InterruptsInv, OneOpen, Open
  <2>5. OthersWait'
    BY <2>1, <2>2 DEF InterruptsInv, OthersWait, Waits, Open
  <2>6. RunsWell' /\ ServiceKnown'
    BY <2>1, <2>2 DEF InterruptsInv, RunsWell, ServiceKnown, Open, Rank
  <2> QED BY <2>3, <2>4, <2>5, <2>6 DEF InterruptsInv
<1>2. CASE InterruptsNext
  BY <1>2, DisableInterruptsStep, CountStep, EnableInterruptsStep, StiStep, EndStep, IretStep, InterruptStep,
     TimerStep, YieldStep DEF InterruptsNext
<1> QED
  BY <1>1, <1>2

\* A stretch under a spinlock is one step: whoever holds one is not interrupted
\* and not switched away from, no interrupt is sent back and the scheduler does
\* not panic, and an end of interrupt ends that of its sender; for every number
\* of threads, of nested spinlocks and of nested handlers.
THEOREM InterruptsStaySound == InterruptsSpec => []InterruptsSound
<1>1. InterruptsInv => InterruptsSound
  <2> SUFFICES ASSUME InterruptsInv PROVE InterruptsSound
    OBVIOUS
  <2>1. LocksExclude
    BY TopFrame DEF LocksExclude, InterruptsInv, OthersWait, Waits
  <2>2. NothingRefused
    BY DEF NothingRefused, InterruptsInv, InterruptsShape
  <2>3. EndsItsOwn
    BY EndsOwn DEF EndsItsOwn, InterruptsInv, Open
  <2> QED BY <2>1, <2>2, <2>3 DEF InterruptsSound
<1> QED
  BY <1>1, InterruptsStart, InterruptsStep, PTL DEF InterruptsSpec

\* Every field keeps its type.
THEOREM InterruptsTypes == InterruptsSpec => []InterruptsTypeOK
<1>1. InterruptsInv => InterruptsTypeOK
  BY DEF InterruptsInv, InterruptsShape, InterruptsTypeOK, StackFrame
<1> QED
  BY <1>1, InterruptsStart, InterruptsStep, PTL DEF InterruptsSpec

-----------------------------------------------------------------------------
(***************************************************************************)
(* drivers/vesa.c: the screen, the driver that prints and the thread that  *)
(* copies the buffer agree, for every set of video modes and every place   *)
(* where an allocation, a thread creation or the BIOS fails.               *)
(***************************************************************************)

Videos == [current_mode : Mode \cup {"none"}, shown : Mode \cup {"text"},
           mapped : Mode \cup {"none"}, driver : {"VGA", "VESA"},
           last_columns : Mode \cup {"none", "freed"}, double_buffering : BOOLEAN,
           vesa_buffer : Mode \cup {"none"}, size : Mode \cup {"none"}]
Places == {"idle", "enable", "create", "disable", "wait", "disabled", "bios", "columns",
           "map", "unmap", "panicked"}
Callers == [op : {"none", "set", "enable", "disable", "text"}, at : Places,
            buffered : BOOLEAN, broken : BOOLEAN]

VesaShape ==
    /\ video \in Videos /\ caller \in Callers
    /\ swap \in {"none", "test", "copy", "sleep", "ended"}
    /\ caller.op = "none" <=> caller.at = "idle"

\* The copying thread lives from create_thread to wait_thread, and the flag is
\* set from just before to just before: so none lives while the mode changes.
SwapLives ==
    CASE IsAt("create") -> video.double_buffering /\ swap = "none"
      [] IsAt("wait") -> ~video.double_buffering /\ swap # "none"
      [] caller.at \in {"disabled", "bios", "columns", "map", "unmap", "panicked"} ->
             ~video.double_buffering /\ swap = "none"
      [] OTHER -> (video.double_buffering <=> swap # "none") /\ swap # "ended"

\* What it writes to.
BufferFits ==
    video.double_buffering \/ swap # "none" =>
        video.current_mode = video.mapped /\ video.current_mode = video.size

\* The driver that prints is the one of what is shown.
Matches ==
    IF video.driver = "VGA" THEN video.shown = "text"
    ELSE /\ video.current_mode = video.shown /\ video.mapped = video.shown
         /\ video.last_columns = video.shown

\* While a call changes the mode: what is already in place of the new one.
ScreenFollows ==
    ~caller.broken =>
        CASE IsAt("columns") -> video.current_mode = video.shown
          [] IsAt("map") -> video.current_mode = video.shown /\ video.last_columns = video.shown
          [] IsAt("panicked") -> TRUE
          [] OTHER -> Matches

VesaInv == VesaShape /\ SwapLives /\ BufferFits /\ ScreenFollows

\* Text mode, no call, no copying thread.
LEMMA VesaInitInv == VesaInit => VesaInv
BY DEF VesaInit, VesaInv, VesaShape, Videos, Callers, Places, SwapLives, BufferFits,
       ScreenFollows, Matches, IsAt

\* The steps of a call that do not look at the screen.
LEMMA VesaCallStep ==
    ASSUME VesaInv, (\E op \in {"set", "enable", "disable", "text"} : CallVesa(op))
                    \/ AfterDisable \/ RefuseMode
    PROVE  VesaInv'
<1> USE DEF VesaInv
<1>1. video' = video /\ swap' = swap
  BY DEF CallVesa, AfterDisable, RefuseMode
<1>2. CASE \E op \in {"set", "enable", "disable", "text"} : CallVesa(op)
  <2>1. PICK op \in {"set", "enable", "disable", "text"} : CallVesa(op)
    BY <1>2
  <2>2. /\ caller' = [caller EXCEPT !.op = op, !.buffered = video.double_buffering,
                                    !.at = IF op = "enable" THEN "enable" ELSE "disable"]
        /\ caller.at = "idle"
    BY <2>1 DEF CallVesa, IsAt
  <2> DEFINE to == IF op = "enable" THEN "enable" ELSE "disable"
  <2>a. to \in {"enable", "disable"} /\ video.double_buffering \in BOOLEAN
    BY DEF VesaShape, Videos
  <2>b. caller' = [caller EXCEPT !.op = op, !.buffered = video.double_buffering, !.at = to]
    BY <2>2
  <2> HIDE DEF to
  <2>c. /\ caller' \in Callers /\ caller'.op = op /\ caller'.at = to
        /\ caller'.broken = caller.broken
    BY <2>a, <2>b DEF VesaShape, Callers, Places
  <2>3. VesaShape'
    BY <1>1, <2>a, <2>c DEF VesaShape
  <2>4. caller'.at \in {"enable", "disable"} /\ caller'.broken = caller.broken
    BY <2>a, <2>c
  <2> QED BY <1>1, <2>2, <2>3, <2>4 DEF SwapLives, BufferFits, ScreenFollows, Matches, IsAt
<1>3. CASE AfterDisable
  <2>1. caller.at = "disabled" /\ (Done \/ GoTo("unmap") \/ GoTo("bios"))
    BY <1>3 DEF AfterDisable, IsAt
  <2>2. VesaShape' /\ caller'.at \in {"idle", "unmap", "bios"} /\ caller'.broken = caller.broken
    BY <1>1, <1>3, <2>1 DEF AfterDisable, IsAt, Done, GoTo, VesaShape, Callers, Places
  <2> QED BY <1>1, <1>3, <2>2 DEF AfterDisable, SwapLives, BufferFits, ScreenFollows, Matches, IsAt
<1>4. CASE RefuseMode
  <2>1. VesaShape' /\ caller'.at = "idle" /\ caller'.broken = caller.broken
    BY <1>1, <1>4 DEF RefuseMode, IsAt, Done, VesaShape, Callers, Places
  <2> QED BY <1>1, <1>4, <2>1 DEF RefuseMode, SwapLives, BufferFits, ScreenFollows, Matches, IsAt
<1> QED BY <1>2, <1>3, <1>4

\* vesa_disable_double_buffering, up to the join.
LEMMA StopStep == ASSUME VesaInv, StopBuffering \/ JoinSwap PROVE VesaInv'
<1> USE DEF VesaInv
<1>1. CASE StopBuffering
  <2>1. CASE video.double_buffering
    <3>1. /\ video' = [video EXCEPT !.double_buffering = FALSE, !.vesa_buffer = "none"]
          /\ GoTo("wait") /\ swap' = swap /\ caller.at = "disable"
      BY <1>1, <2>1 DEF StopBuffering, IsAt
    <3>2. VesaShape' /\ caller'.at = "wait" /\ caller'.broken = caller.broken
      BY <3>1 DEF GoTo, VesaShape, Videos, Callers, Places
    <3> QED BY <2>1, <3>1, <3>2 DEF VesaShape, Videos, SwapLives, BufferFits, ScreenFollows, Matches, IsAt
  <2>2. CASE ~video.double_buffering
    <3>1. video' = video /\ GoTo("disabled") /\ swap' = swap /\ caller.at = "disable"
      BY <1>1, <2>2 DEF StopBuffering, IsAt
    <3>2. VesaShape' /\ caller'.at = "disabled" /\ caller'.broken = caller.broken
      BY <3>1 DEF GoTo, VesaShape, Callers, Places
    <3> QED BY <2>2, <3>1, <3>2 DEF SwapLives, BufferFits, ScreenFollows, Matches, IsAt
  <2> QED BY <2>1, <2>2
<1>2. CASE JoinSwap
  <2>1. video' = video /\ GoTo("disabled") /\ swap' = "none" /\ caller.at = "wait"
    BY <1>2 DEF JoinSwap, IsAt
  <2>2. VesaShape' /\ caller'.at = "disabled" /\ caller'.broken = caller.broken
    BY <2>1 DEF GoTo, VesaShape, Callers, Places
  <2> QED BY <2>1, <2>2 DEF SwapLives, BufferFits, ScreenFollows, Matches, IsAt
<1> QED BY <1>1, <1>2

\* set_vesa_mode: no thread copies from the BIOS call to the new mapping.
LEMMA ChangeStep ==
    ASSUME VesaInv, (\E mode \in Mode : ShowMode(mode)) \/ NewColumns \/ MapFramebuffer
    PROVE  VesaInv'
<1> USE DEF VesaInv
<1>1. swap' = swap /\ swap = "none" /\ ~video.double_buffering
  BY DEF ShowMode, NewColumns, MapFramebuffer, SwapLives, IsAt
<1>2. ASSUME NEW mode \in Mode, ShowMode(mode) PROVE VesaInv'
  <2>1. CASE video.current_mode # "none" /\ video.mapped # video.current_mode
    <3>1. video' = [video EXCEPT !.shown = mode] /\ Broken
      BY <1>2, <2>1 DEF ShowMode
    <3>2. VesaShape' /\ caller'.at = "idle" /\ caller'.broken
      BY <1>1, <3>1 DEF Broken, VesaShape, Videos, Callers, Places
    <3>3. ~video'.double_buffering
      BY <1>1, <3>1 DEF VesaShape, Videos
    <3> QED BY <1>1, <3>2, <3>3 DEF SwapLives, BufferFits, ScreenFollows, IsAt
  <2>2. CASE ~(video.current_mode # "none" /\ video.mapped # video.current_mode)
    <3>1. /\ video' = [video EXCEPT !.shown = mode, !.mapped = "none", !.current_mode = mode]
          /\ GoTo("columns") /\ caller.at = "bios"
      BY <1>2, <2>2 DEF ShowMode, IsAt
    <3>2. VesaShape' /\ caller'.at = "columns"
      BY <1>1, <3>1 DEF GoTo, VesaShape, Videos, Callers, Places
    <3>3. ~video'.double_buffering /\ video'.current_mode = video'.shown
      BY <1>1, <3>1 DEF VesaShape, Videos
    <3> QED BY <1>1, <3>2, <3>3 DEF SwapLives, BufferFits, ScreenFollows, IsAt
  <2> QED BY <2>1, <2>2
<1>3. CASE NewColumns
  <2>1. CASE video' = [video EXCEPT !.last_columns = video.current_mode] /\ GoTo("map")
    <3>1. VesaShape' /\ caller'.at = "map" /\ caller'.broken = caller.broken
      BY <1>1, <1>3, <2>1 DEF NewColumns, IsAt, GoTo, VesaShape, Videos, Callers, Places
    <3>2. /\ ~video'.double_buffering /\ video'.current_mode = video.current_mode
          /\ video'.shown = video.shown /\ video'.last_columns = video.current_mode
      BY <1>1, <2>1 DEF VesaShape, Videos
    <3> QED BY <1>1, <1>3, <3>1, <3>2 DEF NewColumns, SwapLives, BufferFits, ScreenFollows, IsAt
  <2>2. CASE video' = [video EXCEPT !.last_columns = "none"] /\ Broken
    <3>1. VesaShape' /\ caller'.at = "idle" /\ caller'.broken
      BY <1>1, <2>2 DEF Broken, VesaShape, Videos, Callers, Places
    <3>2. ~video'.double_buffering
      BY <1>1, <2>2 DEF VesaShape, Videos
    <3> QED BY <1>1, <3>1, <3>2 DEF SwapLives, BufferFits, ScreenFollows, IsAt
  <2> QED BY <1>3, <2>1, <2>2 DEF NewColumns
<1>4. CASE MapFramebuffer
  <2>1. /\ video' = [video EXCEPT !.mapped = video.current_mode, !.driver = "VESA"]
        /\ caller.at = "map" /\ (GoTo("enable") \/ Done)
    BY <1>4 DEF MapFramebuffer, IsAt
  <2>2. VesaShape' /\ caller'.at \in {"enable", "idle"} /\ caller'.broken = caller.broken
    BY <1>1, <2>1 DEF GoTo, Done, VesaShape, Videos, Callers, Places
  <2>3. /\ ~video'.double_buffering /\ video'.driver = "VESA"
        /\ video'.current_mode = video.current_mode /\ video'.shown = video.shown
        /\ video'.mapped = video.current_mode /\ video'.last_columns = video.last_columns
    BY <1>1, <2>1 DEF VesaShape, Videos
  <2> QED BY <1>1, <2>1, <2>2, <2>3 DEF SwapLives, BufferFits, ScreenFollows, Matches, IsAt
<1> QED BY <1>2, <1>3, <1>4

\* vesa_enable_double_buffering: a buffer only of what is mapped, and a thread
\* only with a buffer.
LEMMA VesaEnableStep == ASSUME VesaInv, NewBuffer \/ CreateSwap PROVE VesaInv'
<1> USE DEF VesaInv
<1> DEFINE Kept == /\ video'.current_mode = video.current_mode /\ video'.shown = video.shown
                   /\ video'.mapped = video.mapped /\ video'.driver = video.driver
                   /\ video'.last_columns = video.last_columns
                   /\ caller'.broken = caller.broken
<1>1. CASE NewBuffer
  <2>0. swap' = swap /\ caller.at = "enable"
    BY <1>1 DEF NewBuffer, IsAt
  <2>1. CASE video.double_buffering
    <3>1. video' = video /\ Done
      BY <1>1, <2>1 DEF NewBuffer
    <3>2. VesaShape' /\ caller'.at = "idle" /\ caller'.broken = caller.broken
      BY <2>0, <3>1 DEF Done, VesaShape, Callers, Places
    <3> QED BY <2>0, <3>1, <3>2 DEF SwapLives, BufferFits, ScreenFollows, Matches, IsAt
  <2>2. CASE /\ ~video.double_buffering
             /\ video' = [video EXCEPT !.vesa_buffer = "none", !.size = video.current_mode] /\ Done
    <3>1. VesaShape' /\ caller'.at = "idle" /\ Kept /\ ~video'.double_buffering
      BY <2>0, <2>2 DEF Done, VesaShape, Videos, Callers, Places
    <3> HIDE DEF Kept
    <3>2. SwapLives' /\ BufferFits' /\ ScreenFollows'
      BY <2>0, <2>2, <3>1 DEF Kept, SwapLives, BufferFits, ScreenFollows, Matches, IsAt
    <3> QED BY <3>1, <3>2
  <2>3. CASE /\ ~video.double_buffering /\ video.mapped = video.current_mode
             /\ video' = [video EXCEPT !.vesa_buffer = video.current_mode,
                                       !.size = video.current_mode, !.double_buffering = TRUE]
             /\ GoTo("create")
    <3>1. /\ VesaShape' /\ caller'.at = "create" /\ Kept /\ video'.double_buffering
          /\ video'.size = video.current_mode
      BY <2>0, <2>3 DEF GoTo, VesaShape, Videos, Callers, Places
    <3> HIDE DEF Kept
    <3>2. SwapLives' /\ BufferFits' /\ ScreenFollows'
      BY <2>0, <2>3, <3>1 DEF Kept, SwapLives, BufferFits, ScreenFollows, Matches, IsAt
    <3> QED BY <3>1, <3>2
  <2>4. CASE ~video.double_buffering /\ GoTo("panicked") /\ video' = video
    <3>1. VesaShape' /\ caller'.at = "panicked" /\ caller'.broken = caller.broken
      BY <2>0, <2>4 DEF GoTo, VesaShape, Callers, Places
    <3> QED BY <2>0, <2>4, <3>1 DEF SwapLives, BufferFits, ScreenFollows, IsAt
  <2> QED BY <1>1, <2>1, <2>2, <2>3, <2>4 DEF NewBuffer
<1>2. CASE CreateSwap
  <2>0. caller.at = "create" /\ Done
    BY <1>2 DEF CreateSwap, IsAt
  <2>1. CASE swap' = "test" /\ video' = video
    <3>1. VesaShape' /\ caller'.at = "idle" /\ caller'.broken = caller.broken
      BY <2>0, <2>1 DEF Done, VesaShape, Callers, Places
    <3> QED BY <2>0, <2>1, <3>1 DEF SwapLives, BufferFits, ScreenFollows, Matches, IsAt
  <2>2. CASE video' = [video EXCEPT !.double_buffering = FALSE] /\ swap' = swap
    <3>1. VesaShape' /\ caller'.at = "idle" /\ Kept /\ ~video'.double_buffering
      BY <2>0, <2>2 DEF Done, VesaShape, Videos, Callers, Places
    <3> HIDE DEF Kept
    <3>2. SwapLives' /\ BufferFits' /\ ScreenFollows'
      BY <2>0, <2>2, <3>1 DEF Kept, SwapLives, BufferFits, ScreenFollows, Matches, IsAt
    <3> QED BY <3>1, <3>2
  <2> QED BY <1>2, <2>1, <2>2 DEF CreateSwap
<1> QED BY <1>1, <1>2

\* Panic's way back to text mode, and the copying thread's own steps.
LEMMA TextAndSwapStep ==
    ASSUME VesaInv, SwitchToText \/ TestFlag \/ CopyBuffer \/ WakeUp
    PROVE  VesaInv'
<1> USE DEF VesaInv
<1>1. CASE SwitchToText
  <2>1. caller.at = "unmap" /\ GoTo("panicked") /\ swap' = swap
    BY <1>1 DEF SwitchToText, IsAt
  <2>2. video' \in Videos /\ video'.double_buffering = video.double_buffering
    <3>1. CASE video.mapped = video.current_mode
      <4>1. video' = [video EXCEPT !.mapped = "none", !.shown = "text", !.driver = "VGA",
                                   !.last_columns = "freed"]
        BY <1>1, <3>1 DEF SwitchToText
      <4>2. video \in Videos
        BY DEF VesaShape
      <4> QED BY <4>1, <4>2 DEF Videos
    <3>2. CASE video.mapped # video.current_mode
      BY <1>1, <3>2 DEF SwitchToText, VesaShape
    <3> QED BY <3>1, <3>2
  <2>3. VesaShape' /\ caller'.at = "panicked"
    BY <2>1, <2>2 DEF GoTo, VesaShape, Callers, Places
  <2> QED BY <2>1, <2>2, <2>3 DEF SwapLives, BufferFits, ScreenFollows, IsAt
<1>2. CASE TestFlag \/ CopyBuffer \/ WakeUp
  <2>1. video' = video /\ caller' = caller /\ swap # "none" /\ swap' # "none"
    BY <1>2 DEF TestFlag, CopyBuffer, WakeUp
  <2>2. VesaShape' /\ (swap' = "ended" => ~video.double_buffering)
    BY <1>2, <2>1 DEF TestFlag, CopyBuffer, WakeUp, VesaShape
  <2>3. SwapLives' /\ BufferFits' /\ ScreenFollows'
    BY <2>1, <2>2 DEF SwapLives, BufferFits, ScreenFollows, Matches, IsAt
  <2> QED BY <2>2, <2>3
<1> QED BY <1>1, <1>2

\* Every step preserves the invariant.
LEMMA VesaStep == VesaInv /\ [VesaNext]_vesa_vars => VesaInv'
<1> SUFFICES ASSUME VesaInv, [VesaNext]_vesa_vars PROVE VesaInv'
  OBVIOUS
<1>1. CASE UNCHANGED vesa_vars
  BY <1>1 DEF vesa_vars, VesaInv, VesaShape, SwapLives, BufferFits, ScreenFollows, Matches, IsAt
<1>2. CASE (\E op \in {"set", "enable", "disable", "text"} : CallVesa(op))
           \/ AfterDisable \/ RefuseMode
  BY <1>2, VesaCallStep
<1>3. CASE StopBuffering \/ JoinSwap
  BY <1>3, StopStep
<1>4. CASE (\E mode \in Mode : ShowMode(mode)) \/ NewColumns \/ MapFramebuffer
  BY <1>4, ChangeStep
<1>5. CASE NewBuffer \/ CreateSwap
  BY <1>5, VesaEnableStep
<1>6. CASE SwitchToText \/ TestFlag \/ CopyBuffer \/ WakeUp
  BY <1>6, TextAndSwapStep
<1> QED BY <1>1, <1>2, <1>3, <1>4, <1>5, <1>6 DEF VesaNext

\* vesa.c and graphic.c (set_vesa_mode, vesa_enable_double_buffering,
\* vesa_disable_double_buffering, swap_buffer): for every set of modes, the
\* copying thread writes only to a framebuffer that is mapped and of its size,
\* and between calls, unless one failed after changing the screen, the driver
\* that prints is the one of what is shown.
THEOREM VideoStaysSound == VesaSpec => []VideoSound
<1>1. VesaInv => VideoSound
  <2> SUFFICES ASSUME VesaInv PROVE VideoSound
    OBVIOUS
  <2>1. DriverMatchesScreen
    BY DEF VesaInv, VesaShape, ScreenFollows, Matches, IsAt, DriverMatchesScreen
  <2>2. CopyIsMapped
    BY DEF VesaInv, BufferFits, CopyIsMapped
  <2> QED BY <2>1, <2>2 DEF VideoSound
<1> QED BY <1>1, VesaInitInv, VesaStep, PTL DEF VesaSpec

\* The fields of the video driver keep their types.
THEOREM VesaTypes == VesaSpec => []VesaTypeOK
<1>1. VesaInv => VesaTypeOK
  BY DEF VesaInv, VesaShape, Videos, VesaTypeOK
<1> QED BY <1>1, VesaInitInv, VesaStep, PTL DEF VesaSpec

-----------------------------------------------------------------------------
(***************************************************************************)
(* drivers/mouse.c: the types of the driver's variables, and that a mouse  *)
(* whose packets never overflow is never misread.                          *)
(***************************************************************************)

MouseByte == [of : Packet, first : BOOLEAN]

\* While a packet is being assembled its first byte is there.
MouseShape ==
    /\ wire \in [bytes : Seq(MouseByte), last : Moves \cup {"none"}]
    /\ port \in [byte : {Nothing} \cup {<<b>> : b \in MouseByte}, irq : BOOLEAN]
    /\ mouse \in [cycle : 0 .. 2, byte : [0 .. 2 -> MouseByte \cup {Nothing}],
                  state : Moves \cup {"none"}, handling : BOOLEAN]
    /\ mouse.cycle > 0 => mouse.byte[0] \in MouseByte

LEMMA MouseStart == MouseInit => MouseShape
BY DEF MouseInit, MouseShape, Nothing

\* The bytes of a packet are three, and the first of them is marked.
LEMMA PacketBytes ==
    ASSUME NEW packet \in Packet
    PROVE  /\ Bytes(packet) \in Seq(MouseByte) /\ Len(Bytes(packet)) = 3
           /\ \A i \in 1 .. 3 : Bytes(packet)[i] = [of |-> packet, first |-> i = 1]
<1>1. \A i \in 1 .. 3 : [of |-> packet, first |-> i = 1] \in MouseByte
  BY DEF MouseByte
<1>2. Bytes(packet) \in [1 .. 3 -> MouseByte]
  BY <1>1 DEF Bytes
<1>3. 3 \in Nat
  OBVIOUS
<1>4. Bytes(packet) \in Seq(MouseByte)
  BY <1>2, <1>3, SeqDef
<1>5. Len(Bytes(packet)) = 3
  BY <1>2, <1>3, <1>4, LenProperties
<1> QED BY <1>4, <1>5 DEF Bytes

\* What the driver makes of a byte, by the place of the byte in its packet.
LEMMA TakenCases ==
    ASSUME MouseShape, NEW byte \in MouseByte
    PROVE  LET m == Taken(mouse, byte)
           IN  /\ m \in [cycle : 0 .. 2, byte : [0 .. 2 -> MouseByte \cup {Nothing}],
                         state : Moves \cup {"none"}, handling : BOOLEAN]
               /\ m.cycle > 0 => m.byte[0] \in MouseByte
               /\ mouse.cycle = 0 /\ byte.first =>
                      m.cycle = 1 /\ m.byte[0] = byte /\ m.state = mouse.state
               /\ mouse.cycle = 1 =>
                      m.cycle = 2 /\ m.byte[0] = mouse.byte[0] /\ m.state = mouse.state
               /\ mouse.cycle = 2 /\ mouse.byte[0].of \notin Overflows =>
                      m.cycle = 0 /\ m.state = mouse.byte[0].of
<1> DEFINE B == [0 .. 2 -> MouseByte \cup {Nothing}]
           S == Moves \cup {"none"}
           m == Taken(mouse, byte)
<1>1. /\ mouse \in [cycle : 0 .. 2, byte : B, state : S, handling : BOOLEAN]
      /\ mouse.cycle > 0 => mouse.byte[0] \in MouseByte
      /\ byte.first \in BOOLEAN
  BY DEF MouseShape, MouseByte
<1>2. PICK c \in 0 .. 2, bytes \in B, state \in S, handling \in BOOLEAN :
          mouse = [cycle |-> c, byte |-> bytes, state |-> state, handling |-> handling]
  BY <1>1
<1> DEFINE New(k) == [bytes EXCEPT ![k] = byte]
<1>3. ASSUME NEW k \in 0 .. 2
      PROVE  New(k) \in B /\ New(k)[0] = IF k = 0 THEN byte ELSE bytes[0]
  OBVIOUS
<1>4. c > 0 => bytes[0] \in MouseByte
  BY <1>1, <1>2
<1>5. CASE c = 0 /\ ~byte.first
  <2>1. m = [mouse EXCEPT !.byte[0] = byte, !.handling = FALSE]
    BY <1>1, <1>2, <1>5 DEF Taken
  <2>2. m = [cycle |-> 0, byte |-> New(0), state |-> state, handling |-> FALSE]
    BY <1>2, <1>5, <2>1
  <2> HIDE DEF m, New
  <2>3. m \in [cycle : 0 .. 2, byte : B, state : S, handling : BOOLEAN] /\ m.cycle = 0
    BY <1>2, <1>3, <2>2
  <2> QED BY <1>2, <1>5, <2>3 DEF m
<1>6. CASE (c = 0 /\ byte.first) \/ c = 1
  <2>1. m = [mouse EXCEPT !.byte[c] = byte, !.cycle = @ + 1]
    BY <1>1, <1>2, <1>6 DEF Taken
  <2>2. m = [cycle |-> c + 1, byte |-> New(c), state |-> state, handling |-> handling]
    BY <1>2, <1>6, <2>1
  <2> HIDE DEF m, New
  <2> QED BY <1>2, <1>3, <1>4, <1>6, <2>2 DEF m
<1>7. CASE c = 2 /\ bytes[0].of \in Overflows
  <2>1. m = [mouse EXCEPT !.byte[2] = byte]
    BY <1>1, <1>2, <1>7 DEF Taken
  <2>2. m = [cycle |-> 2, byte |-> New(2), state |-> state, handling |-> handling]
    BY <1>2, <1>7, <2>1
  <2> HIDE DEF m, New
  <2> QED BY <1>2, <1>3, <1>4, <1>7, <2>2 DEF m
<1>8. CASE c = 2 /\ bytes[0].of \notin Overflows
  <2>1. m = [mouse EXCEPT !.byte[2] = byte, !.state = bytes[0].of, !.cycle = 0]
    BY <1>1, <1>2, <1>8 DEF Taken
  <2>2. m = [cycle |-> 0, byte |-> New(2), state |-> bytes[0].of, handling |-> handling]
    BY <1>2, <1>8, <2>1
  <2>3. bytes[0].of \in Moves
    BY <1>4, <1>8 DEF MouseByte, Packet
  <2> HIDE DEF m, New
  <2> QED BY <1>2, <1>3, <1>8, <2>2, <2>3 DEF m
<1> QED BY <1>1, <1>5, <1>6, <1>7, <1>8

\* Every step preserves the types.
LEMMA MouseStep == MouseShape /\ [MouseNext]_mouse_vars => MouseShape'
<1> SUFFICES ASSUME MouseShape, [MouseNext]_mouse_vars PROVE MouseShape'
  OBVIOUS
<1>1. ASSUME NEW packet \in Packet, Move(packet) PROVE MouseShape'
  <2>1. wire' \in [bytes : Seq(MouseByte), last : Moves \cup {"none"}]
    BY <1>1, PacketBytes DEF Move, MouseShape
  <2> QED BY <1>1, <2>1 DEF Move, MouseShape
<1>2. CASE Arrive
  <2>1. wire.bytes \in Seq(MouseByte) /\ wire.bytes # <<>>
    BY <1>2 DEF Arrive, MouseShape
  <2>2. Head(wire.bytes) \in MouseByte /\ Tail(wire.bytes) \in Seq(MouseByte)
    BY <2>1
  <2> QED BY <1>2, <2>2 DEF Arrive, MouseShape
<1>3. CASE MouseInterrupt
  BY <1>3 DEF MouseInterrupt, MouseShape
<1>4. CASE ReadByte
  <2>1. PICK b \in MouseByte : port.byte = <<b>>
    BY <1>4 DEF ReadByte, MouseShape
  <2>2. mouse' = Taken(mouse, b)
    BY <1>4, <2>1 DEF ReadByte
  <2>3. port' \in [byte : {Nothing} \cup {<<c>> : c \in MouseByte}, irq : BOOLEAN]
    BY <1>4 DEF ReadByte, MouseShape
  <2> QED BY <1>4, <2>2, <2>3, TakenCases DEF ReadByte, MouseShape
<1>5. CASE Return
  BY <1>5 DEF Return, MouseShape
<1>6. CASE UNCHANGED mouse_vars
  BY <1>6 DEF mouse_vars, MouseShape
<1> QED BY <1>1, <1>2, <1>3, <1>4, <1>5, <1>6 DEF MouseNext

\* mouse.c (mouse_interrupt_handler): the cycle stays within a packet, and what
\* get_mouse_state copies is a packet that did not overflow.
THEOREM MouseTypes == MouseSpec => []MouseTypeOK
<1>1. MouseShape => MouseTypeOK
  BY DEF MouseShape, MouseTypeOK
<1> QED BY <1>1, MouseStart, MouseStep, PTL DEF MouseSpec

\* Where the bytes of a packet are: on the wire, in the 8042 and taken by the
\* driver are whole packets, of which the last one was moved last.
Left == Len(wire.bytes)
Held == IF port.byte = Nothing THEN 0 ELSE 1
WholePackets == Left \in 0 .. 3 /\ Left + Held + mouse.cycle \in {0, 3, 6}
OnTheWire == \A i \in 1 .. Left :
                 wire.bytes[i] = [of |-> wire.last, first |-> Left = 3 /\ i = 1]
InTheController == Held = 1 => /\ port.byte[1].first = (mouse.cycle = 0)
                               /\ Left < 3 => port.byte[1].of = wire.last
AtTheDriver == /\ mouse.cycle > 0 /\ Left < 3 => mouse.byte[0].of = wire.last
               /\ Left + Held + mouse.cycle = 0 => mouse.state = wire.last
InStep == WholePackets /\ OnTheWire /\ InTheController /\ AtTheDriver

LEMMA InStepKept ==
    ASSUME Overflows = {}, MouseShape, InStep, [MouseNext]_mouse_vars
    PROVE  InStep'
<1> USE DEF InStep
<1>0. /\ Left \in 0 .. 3 /\ Held \in {0, 1} /\ mouse.cycle \in 0 .. 2
      /\ Held = 0 <=> port.byte = Nothing
      /\ Left + Held + mouse.cycle \in {0, 3, 6}
  BY DEF WholePackets, Held, MouseShape
<1>1. ASSUME NEW packet \in Packet, Move(packet) PROVE InStep'
  <2>1. packet \in Moves /\ Left = 0
    BY <1>1 DEF Move, Packet, Left
  <2>2. wire' = [bytes |-> Bytes(packet), last |-> packet] /\ port' = port /\ mouse' = mouse
    BY <1>1, <2>1 DEF Move
  <2>3. Left' = 3 /\ Held' = Held /\ wire'.last = packet
    BY <2>2, PacketBytes DEF Left, Held
  <2>4. OnTheWire'
    BY <2>2, <2>3, PacketBytes DEF OnTheWire
  <2>5. WholePackets' /\ InTheController' /\ AtTheDriver'
    BY <1>0, <2>1, <2>2, <2>3 DEF WholePackets, InTheController, AtTheDriver
  <2> QED BY <2>4, <2>5
<1>2. CASE Arrive
  <2>1. /\ wire.bytes \in Seq(MouseByte) /\ wire.bytes # <<>> /\ Held = 0
        /\ Left \in 1 .. 3
    BY <1>0, <1>2 DEF Arrive, MouseShape, Left
  <2>2. /\ wire'.bytes = Tail(wire.bytes) /\ wire'.last = wire.last /\ mouse' = mouse
        /\ port'.byte = <<wire.bytes[1]>>
    BY <1>2, <2>1 DEF Arrive, MouseShape
  <2>3. /\ Left' = Left - 1 /\ Held' = 1 /\ port'.byte[1] = wire.bytes[1]
        /\ \A i \in 1 .. Left - 1 : wire'.bytes[i] = wire.bytes[i + 1]
    BY <2>1, <2>2 DEF Left, Held, Nothing
  <2>4. OnTheWire'
    <3> SUFFICES ASSUME NEW i \in 1 .. Left'
                 PROVE  wire'.bytes[i] = [of |-> wire'.last, first |-> Left' = 3 /\ i = 1]
      BY DEF OnTheWire
    <3>1. i \in 1 .. Left - 1 /\ i + 1 \in 1 .. Left
      BY <1>0, <2>3
    <3>2. wire.bytes[i + 1] = [of |-> wire.last, first |-> Left = 3 /\ i + 1 = 1]
      BY <3>1 DEF OnTheWire
    <3>3. (Left = 3 /\ i + 1 = 1) = FALSE /\ (Left' = 3 /\ i = 1) = FALSE
      BY <1>0, <2>3, <3>1
    <3>4. wire.bytes[i + 1] = [of |-> wire.last, first |-> FALSE]
      BY <3>2, <3>3
    <3>5. wire'.bytes[i] = wire.bytes[i + 1] /\ wire'.last = wire.last
      BY <2>2, <2>3, <3>1
    <3> QED BY <3>3, <3>4, <3>5
  <2>5. wire.bytes[1] = [of |-> wire.last, first |-> Left = 3]
    BY <2>1 DEF OnTheWire
  <2>6. (Left = 3) = (mouse.cycle = 0)
    BY <1>0, <2>1
  <2>7. WholePackets' /\ InTheController' /\ AtTheDriver'
    BY <1>0, <2>1, <2>2, <2>3, <2>5, <2>6 DEF WholePackets, InTheController, AtTheDriver
  <2> QED BY <2>4, <2>7
<1>3. CASE MouseInterrupt
  <2>1. wire' = wire /\ port'.byte = port.byte /\ mouse'.cycle = mouse.cycle
        /\ mouse'.byte = mouse.byte /\ mouse'.state = mouse.state
    BY <1>3 DEF MouseInterrupt, MouseShape
  <2> QED BY <2>1 DEF WholePackets, OnTheWire, InTheController, AtTheDriver, Left, Held
<1>4. CASE ReadByte
  <2>1. PICK b \in MouseByte : port.byte = <<b>>
    BY <1>4 DEF ReadByte, MouseShape
  <2>2. /\ mouse' = Taken(mouse, b) /\ wire' = wire /\ port'.byte = Nothing
        /\ Held = 1 /\ Held' = 0 /\ Left' = Left /\ port.byte[1] = b
    BY <1>4, <2>1 DEF ReadByte, MouseShape, Held, Left
  <2>3. /\ b.first = (mouse.cycle = 0)
        /\ Left < 3 => b.of = wire.last
        /\ mouse.cycle > 0 /\ Left < 3 => mouse.byte[0].of = wire.last
    BY <2>2 DEF InTheController, AtTheDriver
  <2>4. /\ mouse.cycle = 0 => mouse'.cycle = 1 /\ mouse'.byte[0] = b
        /\ mouse.cycle = 1 => mouse'.cycle = 2 /\ mouse'.byte[0] = mouse.byte[0]
        /\ mouse.cycle = 2 => mouse'.cycle = 0 /\ mouse'.state = mouse.byte[0].of
    BY <2>2, <2>3, TakenCases
  <2>5. OnTheWire'
    BY <2>2 DEF OnTheWire
  <2>6. WholePackets' /\ InTheController' /\ AtTheDriver'
    BY <1>0, <2>2, <2>3, <2>4 DEF WholePackets, InTheController, AtTheDriver
  <2> QED BY <2>5, <2>6
<1>5. CASE Return
  <2>1. wire' = wire /\ port' = port /\ mouse'.cycle = mouse.cycle
        /\ mouse'.byte = mouse.byte /\ mouse'.state = mouse.state
    BY <1>5 DEF Return, MouseShape
  <2> QED BY <2>1 DEF WholePackets, OnTheWire, InTheController, AtTheDriver, Left, Held
<1>6. CASE UNCHANGED mouse_vars
  BY <1>6 DEF mouse_vars, WholePackets, OnTheWire, InTheController, AtTheDriver, Left, Held
<1> QED BY <1>1, <1>2, <1>3, <1>4, <1>5, <1>6 DEF MouseNext

\* mouse.c (mouse_interrupt_handler): if no packet overflows, bytes are never
\* taken for those of another packet, however late the handler comes and
\* whichever byte arrives while it is in its loop.
THEOREM MouseFollowsTheHand ==
    ASSUME Overflows = {}
    PROVE  MouseSpec => []StateIsLastPacket
<1>1. MouseInit => InStep
  BY DEF MouseInit, InStep, WholePackets, OnTheWire, InTheController, AtTheDriver, Left, Held
<1>2. MouseShape /\ InStep => StateIsLastPacket
  <2> SUFFICES ASSUME MouseShape, InStep, wire.bytes = <<>>, port.byte = Nothing
               PROVE  mouse.state = wire.last
    BY DEF StateIsLastPacket
  <2>1. Left = 0 /\ Held = 0 /\ mouse.cycle \in 0 .. 2
    BY DEF Left, Held, MouseShape
  <2>2. mouse.cycle = 0
    BY <2>1 DEF InStep, WholePackets
  <2> QED BY <2>1, <2>2 DEF InStep, AtTheDriver
<1>3. MouseShape /\ InStep /\ [MouseNext]_mouse_vars => InStep'
  BY InStepKept
<1> QED BY <1>1, <1>2, <1>3, MouseStart, MouseStep, PTL DEF MouseSpec

-----------------------------------------------------------------------------
(***************************************************************************)
(* MCComponents: what holds of each component alone holds of each of those *)
(* side by side, for the behaviour of the whole is one of every component. *)
(***************************************************************************)

LEMMA EachStarts ==
    MCInit => /\ Init /\ HeapInit /\ PagingInit /\ PitInit
              /\ InterruptsInit /\ ConsoleInit /\ VesaInit /\ MouseInit
BY DEF MCInit

LEMMA EachSteps ==
    [MCNext]_MCVars =>
        /\ [Next]_vars /\ [HeapNext]_heap_vars /\ [PagingNext]_paging_vars
        /\ [PitNext]_pit_vars /\ [InterruptsNext]_interrupt_vars
        /\ [ConsoleNext]_console_vars /\ [VesaNext]_vesa_vars /\ [MouseNext]_mouse_vars
BY DEF MCNext, MCVars, Only

\* MCComponents: every component keeps its types, whichever of them is looked at.
THEOREM ComponentsKeepTypes == MCSpec => []ComponentsTypeOK
<1>1. MCSpec => /\ Spec /\ HeapSpec /\ PagingSpec /\ PitSpec
                /\ InterruptsSpec /\ ConsoleSpec /\ VesaSpec /\ MouseSpec
  BY EachStarts, EachSteps, PTL
     DEF MCSpec, Spec, HeapSpec, PagingSpec, PitSpec, InterruptsSpec, ConsoleSpec, VesaSpec,
         MouseSpec
<1>2. TypeOK /\ HeapTypeOK /\ PagingTypeOK /\ PitTypeOK /\ InterruptsTypeOK
      /\ ConsoleTypeOK /\ VesaTypeOK /\ MouseTypeOK => ComponentsTypeOK
  BY DEF ComponentsTypeOK
<1> QED
  BY <1>1, <1>2, ListsTypes, HeapTypes, PagingTypes, PitTypes, InterruptsTypes, CursorComesBack,
     VesaTypes, MouseTypes, PTL
=============================================================================
