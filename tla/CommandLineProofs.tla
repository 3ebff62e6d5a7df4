-------------------------- MODULE CommandLineProofs -------------------------
(***************************************************************************)
(* The line editor for screens, buffers and histories of every size,       *)
(* whatever is printed meanwhile: the buffers and the numbers beside them  *)
(* agree, no line that was entered is lost, and what the user sees is the  *)
(* line that Enter will execute.                                           *)
(***************************************************************************)
EXTENDS CommandLine, QueueProofs, FunctionTheorems

-----------------------------------------------------------------------------
\* Strings.

Chr == Chars \cup {NUL, SP}
Buf == [Places -> Chr]

\* b holds a string of n characters, and nothing but '\0' behind it.
Text(b, n) ==
  /\ b \in Buf /\ n \in Places
  /\ \A i \in Places : b[i] = NUL <=> i >= n

\* The places of a buffer are numbers, and there is one at least.
LEMMA PlacesAre ==
  /\ BUFFER_SIZE \in Nat /\ BUFFER_SIZE >= 1 /\ 0 \in Places
  /\ \A i : i \in Places <=> i \in Nat /\ i < BUFFER_SIZE
BY EditorAssumption DEF Places

\* str_length counts the characters of a string.
LEMMA LengthIs ==
  ASSUME NEW b, NEW n, Text(b, n)
  PROVE  str_length(b) = n
<1> DEFINE T == {i \in Places : b[i] = NUL}
<1>1. n \in T /\ n \in Nat
  BY PlacesAre DEF Text
<1>2. T \subseteq Nat /\ T # {}
  BY <1>1, PlacesAre
<1>3. Min(T) \in T /\ Min(T) <= n
  BY <1>1, <1>2, MinIsLeast
<1>4. Min(T) >= n /\ Min(T) \in Nat
  <2>1. Min(T) \in Places /\ b[Min(T)] = NUL
    BY <1>3
  <2> HIDE DEF T
  <2> QED BY <2>1, PlacesAre DEF Text
<1>5. Min(T) = n
  BY <1>1, <1>3, <1>4
<1> QED BY <1>5 DEF str_length

\* A line for the next command is empty.
LEMMA EmptyText == Text(EMPTY, 0)
BY PlacesAre DEF Text, EMPTY, Buf, Chr

\* str_copy over a string that is not longer leaves nothing of it, and over
\* any string it makes the same string.
LEMMA CopyText ==
  ASSUME NEW b, NEW n, Text(b, n), NEW d, NEW m, Text(d, m), m <= n
  PROVE  Text(str_copy(b, d), n) /\ String(str_copy(b, d)) = String(b)
<1> DEFINE c == str_copy(b, d)
<1>1. str_length(b) = n
  BY LengthIs
<1>2. b \in Buf /\ d \in Buf /\ n \in Nat /\ m \in Nat /\ n \in Places
  BY PlacesAre DEF Text
<1>3. c = [i \in Places |-> IF i <= n THEN b[i] ELSE d[i]]
  BY <1>1 DEF str_copy
<1> HIDE DEF c
<1>4. c \in Buf
  BY <1>2, <1>3 DEF Buf
<1>5. \A i \in Places : c[i] = NUL <=> i >= n
  <2> SUFFICES ASSUME NEW i \in Places PROVE c[i] = NUL <=> i >= n
    OBVIOUS
  <2>1. i \in Nat
    BY PlacesAre
  <2>2. CASE i <= n
    BY <1>3, <2>2 DEF Text
  <2>3. CASE ~(i <= n)
    <3>1. d[i] = NUL
      BY <1>2, <2>1, <2>3 DEF Text
    <3> QED BY <1>2, <1>3, <2>1, <2>3, <3>1
  <2> QED BY <2>2, <2>3
<1>6. Text(c, n)
  BY <1>2, <1>4, <1>5 DEF Text
<1>7. str_length(c) = n
  BY <1>6, LengthIs
<1>8. \A k \in 1..n : c[k - 1] = b[k - 1]
  BY <1>2, <1>3, PlacesAre
<1>9. String(c) = String(b)
  BY <1>1, <1>7, <1>8 DEF String
<1> QED BY <1>6, <1>9 DEF c

\* A character typed at p of a line that is not full.
LEMMA InsertText ==
  ASSUME NEW b, NEW n, Text(b, n), n < BUFFER_SIZE - 1, NEW p \in 0..n, NEW c \in Chars
  PROVE  Text([i \in Places |-> IF i = p THEN c
                                ELSE IF i \in (p + 1)..n THEN b[i - 1] ELSE b[i]], n + 1)
<1> DEFINE d == [i \in Places |-> IF i = p THEN c
                                  ELSE IF i \in (p + 1)..n THEN b[i - 1] ELSE b[i]]
<1>1. n \in Nat /\ n + 1 \in Places /\ b \in Buf /\ p \in Nat /\ p <= n
  BY PlacesAre DEF Text
<1>2. c # NUL /\ c \in Chr
  BY EditorAssumption DEF Chr
<1>3. ASSUME NEW i \in Places PROVE d[i] \in Chr /\ (d[i] = NUL <=> i >= n + 1)
  <2>1. i \in Nat
    BY PlacesAre
  <2>2. CASE i = p
    BY <1>1, <1>2, <2>2
  <2>3. CASE i \in (p + 1)..n
    <3>1. i - 1 \in Places /\ ~(i - 1 >= n)
      BY <1>1, <2>1, <2>3, PlacesAre
    <3>2. b[i - 1] # NUL /\ b[i - 1] \in Chr
      BY <1>1, <3>1 DEF Text, Buf
    <3> QED BY <1>1, <2>1, <2>3, <3>2
  <2>4. CASE i # p /\ i \notin (p + 1)..n
    <3>1. d[i] = b[i] /\ b[i] \in Chr
      BY <1>1, <2>4 DEF Buf
    <3>2. i < p \/ i > n
      BY <1>1, <2>1, <2>4
    <3> QED BY <1>1, <2>1, <3>1, <3>2 DEF Text
  <2> QED BY <2>2, <2>3, <2>4
<1>4. d \in Buf
  BY <1>3 DEF Buf
<1> HIDE DEF d
<1>5. Text(d, n + 1)
  BY <1>1, <1>3, <1>4 DEF Text
<1> QED BY <1>5 DEF d

\* The character at p goes, if there is one.
LEMMA DeleteText ==
  ASSUME NEW b, NEW n, Text(b, n), NEW p \in 0..n
  PROVE  Text([i \in Places |-> IF i \in p..(n - 1) THEN b[i + 1] ELSE b[i]],
              IF p < n THEN n - 1 ELSE n)
<1> DEFINE d == [i \in Places |-> IF i \in p..(n - 1) THEN b[i + 1] ELSE b[i]]
           m == IF p < n THEN n - 1 ELSE n
<1>1. n \in Nat /\ n \in Places /\ b \in Buf /\ p \in Nat /\ p <= n /\ m \in Nat /\ m \in Places
  BY PlacesAre DEF Text
<1>2. ASSUME NEW i \in Places PROVE d[i] \in Chr /\ (d[i] = NUL <=> i >= m)
  <2>1. i \in Nat
    BY PlacesAre
  <2>2. CASE i \in p..(n - 1)
    <3>1. i + 1 \in Places /\ p < n
      BY <1>1, <2>1, <2>2, PlacesAre
    <3>2. b[i + 1] \in Chr /\ (b[i + 1] = NUL <=> i + 1 >= n)
      BY <1>1, <3>1 DEF Text, Buf
    <3> QED BY <1>1, <2>1, <2>2, <3>1, <3>2
  <2>3. CASE i \notin p..(n - 1)
    <3>1. d[i] = b[i] /\ b[i] \in Chr /\ (b[i] = NUL <=> i >= n)
      BY <1>1, <2>3 DEF Text, Buf
    <3>2. i < p \/ i >= n
      BY <1>1, <2>1, <2>3
    <3> QED BY <1>1, <2>1, <3>1, <3>2
  <2> QED BY <2>2, <2>3
<1>3. d \in Buf
  BY <1>2 DEF Buf
<1> HIDE DEF d, m
<1>4. Text(d, m)
  BY <1>1, <1>2, <1>3 DEF Text
<1> QED BY <1>4 DEF d, m

-----------------------------------------------------------------------------
\* The screen.

W == SCREEN_WIDTH

\* Cells, with the cursor on one of them or behind the last.
Screens(V) == [cell : [0..(CELLS - 1) -> V], cursor : 0..(CELLS - 1)]
Wide(V) == [cell : [0..(CELLS - 1) -> V], cursor : 0..CELLS]
OnScreen(s) == \E V : s \in Screens(V)

\* Characters that are shown as they are.
Plain(c) == c \notin {NUL, NL, TAB, BS, DEL}

\* The next line or tab stop is on the screen or right behind it.
LEMMA NextStop ==
  ASSUME NEW d \in Nat \ {0}, NEW K \in Nat, NEW x \in Nat, x < d * K
  PROVE  d * (x \div d + 1) \in 1..(d * K)
<1> DEFINE q == x \div d
<1>1. q \in Nat /\ d * q <= x
  BY SMTT(30)
<1> HIDE DEF q
<1>2. d * K \in Nat /\ d * q \in Nat
  BY <1>1
<1>3. q < K
  <2> SUFFICES ASSUME K <= q PROVE FALSE
    BY <1>1
  <2>1. d * K <= d * q
    BY <1>1, Grows
  <2> QED BY <1>1, <1>2, <2>1
<1>4. q + 1 \in Nat /\ q + 1 <= K /\ 1 <= q + 1
  BY <1>1, <1>3
<1>5. d * (q + 1) \in Nat /\ d * (q + 1) <= d * K
  BY <1>4, Grows
<1>6. d * 1 <= d * (q + 1)
  BY <1>4, Grows
<1> QED BY <1>2, <1>5, <1>6 DEF q

\* The measures of the screen.
LEMMA CellsAre ==
  /\ CELLS \in Nat /\ CELLS < 65536 /\ CELLS = W * SCREEN_HEIGHT
  /\ W \in Nat \ {0} /\ W < CELLS /\ BUFFER_SIZE + W <= CELLS
  /\ \E K \in Nat : CELLS = TAB_WIDTH * K
<1>1. W \in Nat /\ SCREEN_HEIGHT \in Nat /\ TAB_WIDTH \in Nat \ {0} /\ W # 0
  BY ScreenAssumption DEF W
<1>2. CELLS = W * SCREEN_HEIGHT
  BY DEF CELLS, W
<1>3. CELLS \in Nat
  BY <1>1, <1>2
<1>4. CELLS < 65536
  BY ScreenAssumption
<1>5. BUFFER_SIZE + W <= CELLS /\ BUFFER_SIZE \in Nat /\ BUFFER_SIZE >= 1
  BY EditorAssumption DEF W
<1> DEFINE k == W \div TAB_WIDTH
<1>6. k \in Nat /\ W = TAB_WIDTH * k
  BY <1>1, ScreenAssumption, SMTT(30) DEF W
<1> HIDE DEF k
<1>7. k * SCREEN_HEIGHT \in Nat /\ W * SCREEN_HEIGHT = TAB_WIDTH * (k * SCREEN_HEIGHT)
  BY <1>1, <1>6
<1> QED BY <1>1, <1>2, <1>3, <1>4, <1>5, <1>7

\* The beginning of the next line, and the next tab stop.
LEMMA LineStop ==
  ASSUME NEW x \in Nat, x < CELLS
  PROVE  SCREEN_WIDTH * (x \div SCREEN_WIDTH + 1) \in 1..CELLS
<1>1. SCREEN_WIDTH \in Nat \ {0} /\ SCREEN_HEIGHT \in Nat
      /\ CELLS = SCREEN_WIDTH * SCREEN_HEIGHT
  BY ScreenAssumption DEF CELLS
<1> QED BY <1>1, NextStop

LEMMA TabStop ==
  ASSUME NEW x \in Nat, x < CELLS
  PROVE  TAB_WIDTH * (x \div TAB_WIDTH + 1) \in 1..CELLS
<1>1. PICK K \in Nat : CELLS = TAB_WIDTH * K
  BY CellsAre
<1>2. TAB_WIDTH \in Nat \ {0}
  BY ScreenAssumption
<1> QED BY <1>1, <1>2, NextStop

\* A position of the screen fits into 16 bits.
LEMMA PositionIs ==
  ASSUME NEW p \in 0..CELLS
  PROVE  Position(p) = p
BY CellsAre DEF Position

\* The fields of a screen.
LEMMA ScreenFields ==
  ASSUME NEW s, OnScreen(s)
  PROVE  s.cursor \in 0..(CELLS - 1) /\ s.cursor \in Nat /\ s.cursor < CELLS
<1>1. PICK V : s \in Screens(V)
  BY DEF OnScreen
<1> QED BY <1>1, CellsAre DEF Screens

\* Scrolling brings the cursor back.
LEMMA ScrolledOn ==
  ASSUME NEW V, NEW s \in Wide(V)
  PROVE  OnScreen(Scrolled(s))
<1> DEFINE U == V \cup {SP}
           cell == [k \in 0..(CELLS - 1) |->
                     IF k + SCREEN_WIDTH < CELLS THEN s.cell[k + SCREEN_WIDTH] ELSE SP]
           home == CELLS - SCREEN_WIDTH
<1>1. CELLS \in Nat /\ W \in Nat \ {0} /\ W < CELLS /\ W = SCREEN_WIDTH
  BY CellsAre DEF W
<1>2. s.cell \in [0..(CELLS - 1) -> V] /\ s.cursor \in 0..CELLS
  BY DEF Wide
<1>3. cell \in [0..(CELLS - 1) -> U]
  BY <1>1, <1>2
<1>4. home \in 0..CELLS /\ home \in 0..(CELLS - 1) /\ Position(home) = home
  <2>1. home \in 0..CELLS /\ home \in 0..(CELLS - 1)
    BY <1>1
  <2> HIDE DEF home
  <2> QED BY <2>1, PositionIs
<1>5. CASE s.cursor = CELLS
  <2>1. Scrolled(s) = set_cursor_pos(scroll(s), home)
    BY <1>5 DEF Scrolled
  <2>2. scroll(s) = [s EXCEPT !.cell = cell]
    BY DEF scroll, Wide
  <2> HIDE DEF cell, home, U
  <2>3. Scrolled(s) = [s EXCEPT !.cell = cell, !.cursor = home]
    BY <1>4, <2>1, <2>2 DEF set_cursor_pos, Wide
  <2>4. Scrolled(s) \in Screens(U)
    BY <1>3, <1>4, <2>3 DEF Wide, Screens
  <2> QED BY Zenon, <2>4 DEF OnScreen
<1>6. CASE s.cursor # CELLS
  <2>1. Scrolled(s) = s
    BY <1>6 DEF Scrolled
  <2>2. s.cursor \in 0..(CELLS - 1)
    BY <1>1, <1>2, <1>6
  <2>3. s \in Screens(V)
    BY <2>2 DEF Wide, Screens
  <2> QED BY Zenon, <2>1, <2>3 DEF OnScreen
<1> QED BY <1>5, <1>6

\* A line of scrolling in front of the cursor.
LEMMA ScrollOn ==
  ASSUME NEW s, OnScreen(s)
  PROVE  OnScreen(scroll(s))
<1>1. PICK V : s \in Screens(V)
  BY DEF OnScreen
<1> DEFINE U == V \cup {SP}
           cell == [k \in 0..(CELLS - 1) |->
                     IF k + SCREEN_WIDTH < CELLS THEN s.cell[k + SCREEN_WIDTH] ELSE SP]
<1>2. CELLS \in Nat /\ SCREEN_WIDTH \in Nat
  BY CellsAre DEF W
<1>3. cell \in [0..(CELLS - 1) -> U]
  BY <1>1, <1>2 DEF Screens
<1>4. scroll(s) = [s EXCEPT !.cell = cell]
  BY <1>1 DEF scroll, Screens
<1> HIDE DEF cell, U
<1>5. scroll(s) \in Screens(U)
  BY <1>1, <1>3, <1>4 DEF Screens
<1> QED BY Zenon, <1>5 DEF OnScreen

\* The cursor is put on a cell.
LEMMA CursorOn ==
  ASSUME NEW s, OnScreen(s), NEW p \in 0..(CELLS - 1)
  PROVE  LET u == set_cursor_pos(s, p)
         IN  OnScreen(u) /\ u.cursor = p /\ u.cell = s.cell
<1>1. PICK V : s \in Screens(V)
  BY DEF OnScreen
<1>2. Position(p) = p
  BY PositionIs, CellsAre
<1>3. set_cursor_pos(s, p) = [s EXCEPT !.cursor = p]
  BY <1>2 DEF set_cursor_pos
<1>4. [s EXCEPT !.cursor = p] \in Screens(V)
  BY <1>1 DEF Screens
<1>5. OnScreen([s EXCEPT !.cursor = p])
  BY Zenon, <1>4 DEF OnScreen
<1> QED BY <1>1, <1>3, <1>5 DEF Screens

\* Spaces up to a line or tab stop.
LEMMA PadToWide ==
  ASSUME NEW V, NEW s \in Screens(V), NEW p \in 1..CELLS
  PROVE  PadTo(s, p).cursor = p /\ \E U : PadTo(s, p) \in Wide(U)
<1> DEFINE U == V \cup {SP}
           a == s.cursor
           cell == [k \in 0..(CELLS - 1) |-> IF k \in a..(p - 1) THEN SP ELSE s.cell[k]]
<1>1. Position(p) = p /\ p \in 0..CELLS
  BY PositionIs, CellsAre
<1>2. cell \in [0..(CELLS - 1) -> U]
  BY DEF Screens
<1>3. pad(s, a, p) = [s EXCEPT !.cell = cell]
  BY DEF pad, Screens
<1> HIDE DEF cell, U
<1>4. PadTo(s, p) = [s EXCEPT !.cell = cell, !.cursor = p]
  BY <1>1, <1>3 DEF PadTo, set_cursor_pos, Screens
<1>5. PadTo(s, p) \in Wide(U) /\ PadTo(s, p).cursor = p
  BY <1>1, <1>2, <1>4 DEF Wide, Screens
<1> QED BY <1>5

\* A character that is not special.
LEMMA PlainIs ==
  ASSUME NEW V, NEW s \in Screens(V), NEW c, Plain(c)
  PROVE  LET cell == [k \in 0..(CELLS - 1) |-> IF k = s.cursor THEN c ELSE s.cell[k]]
         IN  /\ Placed(s, c) = [s EXCEPT !.cell = cell, !.cursor = s.cursor + 1]
             /\ Placed(s, c) \in Wide(V \cup {c})
<1> DEFINE cell == [k \in 0..(CELLS - 1) |-> IF k = s.cursor THEN c ELSE s.cell[k]]
           p == s.cursor + 1
           U == V \cup {c}
<1>1. p \in 0..CELLS
  BY CellsAre DEF Screens
<1>2. Position(p) = p
  <2> HIDE DEF p
  <2> QED BY <1>1, PositionIs
<1>3. Placed(s, c) = set_cursor_pos(put_char(s, s.cursor, c), p)
  BY DEF Placed, Plain
<1>4. put_char(s, s.cursor, c) = [s EXCEPT !.cell = cell]
  BY DEF put_char, Screens
<1>5. cell \in [0..(CELLS - 1) -> U]
  BY DEF Screens
<1> HIDE DEF cell, p, U
<1>6. Placed(s, c) = [s EXCEPT !.cell = cell, !.cursor = p]
  BY <1>2, <1>3, <1>4 DEF set_cursor_pos, Screens
<1>7. Placed(s, c) \in Wide(U)
  BY <1>1, <1>5, <1>6 DEF Wide, Screens
<1> QED BY <1>6, <1>7 DEF cell, p, U

\* Whatever is written, the cursor stays on the screen, unless a backspace
\* takes it off the first cell.
LEMMA WriteCharOn ==
  ASSUME NEW s, OnScreen(s), NEW c, c = BS => s.cursor > 0
  PROVE  OnScreen(write_char(s, c))
<1>1. PICK V : s \in Screens(V)
  BY DEF OnScreen
<1>0. s.cursor \in Nat /\ s.cursor < CELLS /\ CELLS \in Nat
  BY ScreenFields, CellsAre
<1>2. SUFFICES \E U : Placed(s, c) \in Wide(U)
  BY ScrolledOn DEF write_char
<1>3. CASE c = NUL
  <2>1. Placed(s, c) = s
    BY <1>3 DEF Placed, NUL, NL, TAB, BS, DEL
  <2>2. s \in Wide(V)
    BY <1>1, CellsAre DEF Wide, Screens
  <2> QED BY <2>1, <2>2
<1>4. CASE c = NL
  <2> DEFINE p == SCREEN_WIDTH * (s.cursor \div SCREEN_WIDTH + 1)
  <2>1. Placed(s, c) = PadTo(s, p)
    BY <1>4 DEF Placed, NUL, NL, TAB, BS, DEL
  <2>2. p \in 1..CELLS
    BY <1>0, LineStop
  <2> HIDE DEF p
  <2> QED BY <1>1, <2>1, <2>2, PadToWide
<1>5. CASE c = TAB
  <2> DEFINE p == TAB_WIDTH * (s.cursor \div TAB_WIDTH + 1)
  <2>1. Placed(s, c) = PadTo(s, p)
    BY <1>5 DEF Placed, NUL, NL, TAB, BS, DEL
  <2>2. p \in 1..CELLS
    BY <1>0, TabStop
  <2> HIDE DEF p
  <2> QED BY <1>1, <2>1, <2>2, PadToWide
<1>6. CASE c = BS
  <2> DEFINE p == s.cursor - 1
             cell == [k \in 0..(CELLS - 1) |-> IF k = p THEN SP ELSE s.cell[k]]
             U == V \cup {SP}
  <2>1. p \in 0..CELLS
    BY <1>0, <1>6
  <2>2. Position(p) = p
    <3> HIDE DEF p
    <3> QED BY <2>1, PositionIs
  <2>3. Placed(s, c) = put_char(set_cursor_pos(s, p), Position(p), SP)
    BY <1>6 DEF Placed, NUL, NL, TAB, BS, DEL
  <2>4. cell \in [0..(CELLS - 1) -> U]
    BY <1>1 DEF Screens
  <2> HIDE DEF p, U
  <2>5. set_cursor_pos(s, p) = [s EXCEPT !.cursor = p]
    BY <2>2 DEF set_cursor_pos
  <2>6. put_char([s EXCEPT !.cursor = p], p, SP) = [s EXCEPT !.cursor = p, !.cell = cell]
    BY <1>1 DEF put_char, Screens
  <2> HIDE DEF cell
  <2>7. Placed(s, c) = [s EXCEPT !.cursor = p, !.cell = cell]
    BY Zenon, <2>2, <2>3, <2>5, <2>6
  <2>8. Placed(s, c) \in Wide(U)
    BY <1>1, <2>1, <2>4, <2>7 DEF Wide, Screens
  <2> QED BY <2>8
<1>7. CASE c = DEL
  <2> DEFINE cell == [k \in 0..(CELLS - 1) |-> IF k < s.cursor THEN s.cell[k]
                        ELSE IF k + 1 < CELLS THEN s.cell[k + 1] ELSE HIDDEN]
             U == V \cup {HIDDEN}
  <2>1. Placed(s, c) = [s EXCEPT !.cell = cell]
    BY <1>1, <1>7 DEF Placed, NL, NUL, TAB, BS, DEL, Screens
  <2>2. cell \in [0..(CELLS - 1) -> U]
    BY <1>0, <1>1 DEF Screens
  <2> HIDE DEF cell, U
  <2>3. Placed(s, c) \in Wide(U)
    BY <1>1, <2>1, <2>2, CellsAre DEF Wide, Screens
  <2> QED BY <2>3
<1>8. CASE Plain(c)
  BY <1>1, <1>8, PlainIs
<1> QED BY <1>3, <1>4, <1>5, <1>6, <1>7, <1>8 DEF Plain

\* Characters that take the cursor forward.
Advances(c) == c \notin {NUL, BS, DEL}

\* Behind these there is room for a backspace.
LEMMA Forward ==
  ASSUME NEW s, OnScreen(s), NEW c, Advances(c)
  PROVE  write_char(s, c).cursor > 0
<1>1. PICK V : s \in Screens(V)
  BY DEF OnScreen
<1>0. /\ s.cursor \in Nat /\ s.cursor < CELLS /\ CELLS \in Nat
      /\ SCREEN_WIDTH \in Nat /\ SCREEN_WIDTH < CELLS
  BY ScreenFields, CellsAre DEF W
<1> DEFINE u == Placed(s, c)
           home == CELLS - SCREEN_WIDTH
<1>2. SUFFICES (\E U : u \in Wide(U)) /\ u.cursor \in 1..CELLS
  <2> HIDE DEF u
  <2>1. PICK U : u \in Wide(U)
    BY <1>2
  <2>2. home \in 1..CELLS /\ home > 0 /\ Position(home) = home
    <3>1. home \in 0..CELLS /\ home > 0 /\ home \in 1..CELLS
      BY <1>0
    <3> HIDE DEF home
    <3> QED BY <3>1, PositionIs
  <2>3. Scrolled(u).cursor = home \/ Scrolled(u) = u
    <3>1. scroll(u) \in [cell : {scroll(u).cell}, cursor : {u.cursor}]
      BY <2>1 DEF scroll, Wide
    <3> HIDE DEF home
    <3>2. set_cursor_pos(scroll(u), home).cursor = home
      BY <2>2, <3>1 DEF set_cursor_pos
    <3> QED BY <3>2 DEF Scrolled, home
  <2>4. write_char(s, c) = Scrolled(u)
    BY DEF write_char, u
  <2> HIDE DEF home
  <2> QED BY <1>0, <1>2, <2>2, <2>3, <2>4
<1>3. CASE c = NL
  <2> DEFINE p == SCREEN_WIDTH * (s.cursor \div SCREEN_WIDTH + 1)
  <2>1. u = PadTo(s, p)
    BY <1>3 DEF Placed, NUL, NL, TAB, BS, DEL
  <2>2. p \in 1..CELLS
    BY <1>0, LineStop
  <2> HIDE DEF p, u
  <2> QED BY <1>1, <2>1, <2>2, PadToWide
<1>4. CASE c = TAB
  <2> DEFINE p == TAB_WIDTH * (s.cursor \div TAB_WIDTH + 1)
  <2>1. u = PadTo(s, p)
    BY <1>4 DEF Placed, NUL, NL, TAB, BS, DEL
  <2>2. p \in 1..CELLS
    BY <1>0, TabStop
  <2> HIDE DEF p, u
  <2> QED BY <1>1, <2>1, <2>2, PadToWide
<1>5. CASE Plain(c)
  <2> DEFINE cell == [k \in 0..(CELLS - 1) |-> IF k = s.cursor THEN c ELSE s.cell[k]]
             p == s.cursor + 1
  <2>1. u = [s EXCEPT !.cell = cell, !.cursor = p] /\ \E U : u \in Wide(U)
    BY <1>1, <1>5, PlainIs
  <2>2. p \in 1..CELLS
    BY <1>0
  <2> HIDE DEF cell, p, u
  <2>3. u.cursor = p
    BY <1>1, <2>1 DEF Screens
  <2> QED BY <2>1, <2>2, <2>3
<1> QED BY <1>3, <1>4, <1>5 DEF Advances, Plain

\* u is s after the character c, which was shown.
Shown(u, s, c) ==
  /\ u.cursor = s.cursor + 1
  /\ \A k \in 0..(CELLS - 1) : u.cell[k] = IF k = s.cursor THEN c ELSE s.cell[k]

\* A character in front of the last cell.
LEMMA WriteCharShown ==
  ASSUME NEW s, OnScreen(s), NEW c, Plain(c), s.cursor + 1 < CELLS
  PROVE  Shown(write_char(s, c), s, c)
<1>1. PICK V : s \in Screens(V)
  BY DEF OnScreen
<1> DEFINE cell == [k \in 0..(CELLS - 1) |-> IF k = s.cursor THEN c ELSE s.cell[k]]
           p == s.cursor + 1
           u == Placed(s, c)
<1>2. p # CELLS
  BY ScreenFields, CellsAre
<1>3. u = [s EXCEPT !.cell = cell, !.cursor = p]
  BY <1>1, PlainIs
<1>4. \A k \in 0..(CELLS - 1) : cell[k] = IF k = s.cursor THEN c ELSE s.cell[k]
  OBVIOUS
<1> HIDE DEF cell, p, u
<1>5. u.cursor = p /\ u.cell = cell
  BY <1>1, <1>3 DEF Screens
<1>6. write_char(s, c) = u
  BY <1>2, <1>5 DEF write_char, Scrolled, u
<1> QED BY <1>4, <1>5, <1>6 DEF Shown, p


\* The screens between the characters of write_string.
Writing(F, n, s, cs) ==
  F = [i \in 0..n |-> IF i = 0 THEN s ELSE write_char(F[i - 1], cs[i])]

LEMMA WritingExists ==
  ASSUME NEW n \in Nat, NEW s, NEW cs
  PROVE  \E F : Writing(F, n, s, cs)
<1> DEFINE T == {r \in Nat : \E F : Writing(F, r, s, cs)}
<1>1. 0 \in T
  <2> DEFINE F == [i \in 0..0 |-> s]
  <2>1. F = [i \in 0..0 |-> IF i = 0 THEN s ELSE write_char(F[i - 1], cs[i])]
    <3>1. \A i \in 0..0 : i = 0
      OBVIOUS
    <3>2. \A i \in 0..0 : s = IF i = 0 THEN s ELSE write_char(F[i - 1], cs[i])
      BY <3>1
    <3> QED BY <3>2
  <2> QED BY <2>1 DEF Writing
<1>2. ASSUME NEW r \in 1..n, r - 1 \in T PROVE r \in T
  <2> DEFINE p == r - 1
  <2>1. p \in Nat /\ r \in Nat /\ p + 1 = r
    OBVIOUS
  <2>2. PICK F : Writing(F, p, s, cs)
    BY <1>2
  <2> HIDE DEF p
  <2> DEFINE w(i) == IF i = 0 THEN s ELSE write_char(F[i - 1], cs[i])
             G == [i \in 0..r |-> w(i)]
             x(i) == IF i = 0 THEN s ELSE write_char(G[i - 1], cs[i])
  <2>3. ASSUME NEW i \in 0..p PROVE G[i] = F[i]
    <3>1. i \in 0..r
      BY <2>1
    <3>2. F = [j \in 0..p |-> w(j)]
      BY <2>2 DEF Writing
    <3> HIDE DEF w
    <3> QED BY <3>1, <3>2
  <2>4. \A i \in 0..r : i # 0 => i - 1 \in 0..p
    BY <2>1
  <2>5. \A i \in 0..r : w(i) = x(i)
    <3> SUFFICES ASSUME NEW i \in 0..r PROVE w(i) = x(i)
      OBVIOUS
    <3>1. CASE i = 0
      BY <3>1
    <3>2. CASE i # 0
      <4>1. G[i - 1] = F[i - 1]
        BY <2>3, <2>4, <3>2
      <4> HIDE DEF G
      <4> QED BY <3>2, <4>1
    <3> QED BY <3>1, <3>2
  <2>6. G = [i \in 0..r |-> w(i)]
    OBVIOUS
  <2>7. G = [i \in 0..r |-> x(i)]
    <3> HIDE DEF G, w, x
    <3> QED BY <2>5, <2>6
  <2>8. Writing(G, r, s, cs)
    <3> HIDE DEF G, w
    <3> QED BY <2>7 DEF Writing
  <2> QED BY <2>1, <2>8
<1>3. n \in T
  <2> HIDE DEF T
  <2> QED BY <1>1, <1>2, Climb
<1> QED BY <1>3

Characters(F, n, s, cs) ==
  /\ F[0] = s /\ write_string(s, cs) = F[n]
  /\ \A i \in 1..n : F[i] = write_char(F[i - 1], cs[i])

\* write_string writes its characters one after the other.
LEMMA WriteFacts ==
  ASSUME NEW s, NEW cs, NEW n \in Nat, Len(cs) = n
  PROVE  \E F : Characters(F, n, s, cs)
<1> DEFINE F == CHOOSE f : Writing(f, n, s, cs)
           v(i) == IF i = 0 THEN s ELSE write_char(F[i - 1], cs[i])
<1>1. Writing(F, n, s, cs)
  BY Zenon, WritingExists
<1>2. write_string(s, cs) = F[n]
  BY DEF write_string, Writing
<1> HIDE DEF F
<1>3. F = [i \in 0..n |-> v(i)]
  BY <1>1 DEF Writing
<1>4. \A i \in 0..n : F[i] = v(i)
  <2> HIDE DEF v
  <2> QED BY <1>3
<1>5. 0 \in 0..n /\ \A i \in 1..n : i \in 0..n /\ i # 0
  OBVIOUS
<1> QED BY <1>2, <1>4, <1>5 DEF Characters

\* Without backspaces, or with backspaces the cursor has room for, a string
\* leaves the cursor on the screen.
LEMMA KeepsOn ==
  ASSUME NEW s, OnScreen(s), NEW cs, Len(cs) \in Nat,
         \A i \in 1..Len(cs) :
           cs[i] = BS => (i = 1 /\ s.cursor > 0) \/ (i > 1 /\ Advances(cs[i - 1]))
  PROVE  OnScreen(write_string(s, cs))
<1> DEFINE n == Len(cs)
<1>a. PICK F : Characters(F, n, s, cs)
  BY WriteFacts
<1>1. /\ F[0] = s /\ write_string(s, cs) = F[n]
      /\ \A i \in 1..n : F[i] = write_char(F[i - 1], cs[i])
  BY <1>a DEF Characters
<1> DEFINE On(i) == OnScreen(F[i]) /\ (i > 0 /\ Advances(cs[i]) => F[i].cursor > 0)
           T == {i \in 0..n : On(i)}
<1>2. 0 \in T
  BY <1>1
<1>3. ASSUME NEW i \in 1..n, i - 1 \in T PROVE i \in T
  <2> DEFINE j == i - 1
  <2>1. /\ OnScreen(F[j]) /\ (j > 0 /\ Advances(cs[j]) => F[j].cursor > 0)
        /\ i \in 0..n /\ i > 0 /\ (i > 1 => j > 0) /\ (i = 1 => j = 0)
    BY <1>3
  <2>2. F[i] = write_char(F[j], cs[i])
    BY <1>1
  <2>3. cs[i] = BS => (i = 1 /\ s.cursor > 0) \/ (i > 1 /\ Advances(cs[j]))
    OBVIOUS
  <2> HIDE DEF j
  <2>4. cs[i] = BS => F[j].cursor > 0
    BY <1>1, <2>1, <2>3
  <2>5. OnScreen(F[i])
    BY <2>1, <2>2, <2>4, WriteCharOn
  <2>6. Advances(cs[i]) => F[i].cursor > 0
    BY <2>1, <2>2, Forward
  <2> QED BY <2>1, <2>5, <2>6
<1>4. n \in T
  <2> HIDE DEF T, n
  <2> QED BY <1>2, <1>3, Climb DEF n
<1> QED BY <1>1, <1>4

\* u is s after the first n characters of cs, which were shown.
Written(u, s, cs, n) ==
  /\ u.cursor = s.cursor + n
  /\ \A k \in 0..(CELLS - 1) :
       /\ s.cursor <= k /\ k < s.cursor + n => u.cell[k] = cs[(k - s.cursor) + 1]
       /\ k < s.cursor \/ s.cursor + n <= k => u.cell[k] = s.cell[k]

\* A text that ends in front of the last cell.
LEMMA ShowText ==
  ASSUME NEW s, OnScreen(s), NEW cs, Len(cs) \in Nat,
         \A i \in 1..Len(cs) : Plain(cs[i]), s.cursor + Len(cs) < CELLS
  PROVE  OnScreen(write_string(s, cs)) /\ Written(write_string(s, cs), s, cs, Len(cs))
<1> DEFINE n == Len(cs)
           a == s.cursor
<1>0. a \in Nat /\ CELLS \in Nat /\ n \in Nat /\ a + n < CELLS
  BY ScreenFields, CellsAre
<1>a. PICK F : Characters(F, n, s, cs)
  BY WriteFacts
<1>1. /\ F[0] = s /\ write_string(s, cs) = F[n]
      /\ \A i \in 1..n : F[i] = write_char(F[i - 1], cs[i])
  BY <1>a DEF Characters
<1> DEFINE T == {i \in 0..n : OnScreen(F[i]) /\ Written(F[i], s, cs, i)}
<1>2. 0 \in T
  <2>1. Written(s, s, cs, 0)
    BY <1>0 DEF Written
  <2> QED BY <1>1, <2>1
<1>3. ASSUME NEW i \in 1..n, i - 1 \in T PROVE i \in T
  <2> DEFINE j == i - 1
             t == F[j]
             u == F[i]
             c == cs[i]
  <2>1. OnScreen(t) /\ Written(t, s, cs, j) /\ j \in Nat /\ i = j + 1 /\ i \in 0..n /\ Plain(c)
    BY <1>3
  <2>2. t.cursor = a + j /\ t.cursor + 1 < CELLS
    BY <1>0, <2>1 DEF Written
  <2>3. c # BS
    BY <2>1 DEF Plain
  <2>4. u = write_char(t, c)
    BY <1>1
  <2> HIDE DEF t, u, c, j, a, n
  <2>5. OnScreen(u)
    BY <2>1, <2>3, <2>4, WriteCharOn
  <2>6. Shown(u, t, c)
    BY <2>1, <2>2, <2>4, WriteCharShown
  <2>7. u.cursor = a + i
    BY <1>0, <2>1, <2>2, <2>6 DEF Shown
  <2>8. ASSUME NEW k \in 0..(CELLS - 1), a <= k, k < a + i PROVE u.cell[k] = cs[(k - a) + 1]
    <3>1. CASE k = a + j
      BY <1>0, <2>1, <2>2, <2>6, <3>1 DEF Shown, c
    <3>2. CASE k # a + j
      <4>1. k < a + j /\ k # t.cursor
        BY <1>0, <2>1, <2>2, <2>8, <3>2
      <4>2. t.cell[k] = cs[(k - a) + 1]
        BY <2>1, <2>8, <4>1 DEF Written, a
      <4> QED BY <2>6, <4>1, <4>2 DEF Shown
    <3> QED BY <3>1, <3>2
  <2>9. ASSUME NEW k \in 0..(CELLS - 1), k < a \/ a + i <= k PROVE u.cell[k] = s.cell[k]
    <3>1. (k < a \/ a + j <= k) /\ k # t.cursor
      BY <1>0, <2>1, <2>2, <2>9
    <3>2. t.cell[k] = s.cell[k]
      BY <2>1, <3>1 DEF Written, a
    <3> QED BY <2>6, <3>1, <3>2 DEF Shown
  <2>10. Written(u, s, cs, i)
    BY <2>7, <2>8, <2>9 DEF Written, a
  <2> QED BY <2>1, <2>5, <2>10 DEF u
<1>4. n \in T
  <2> HIDE DEF T, n
  <2> QED BY <1>0, <1>2, <1>3, Climb
<1> QED BY <1>1, <1>4

-----------------------------------------------------------------------------
\* The editor.

Partial == UNION {[D -> Buf] : D \in SUBSET Buffers}

\* Editors by their fields; what the screen is and where the prompt ends is
\* left open.
Editors(X, Y) ==
  [screen : X, start_of_command : Y, blank_command : Buf,
   pos : Nat, length : Nat, max_length : Nat,
   history : [0..(HISTORY_SIZE - 1) -> 0..(HISTORY_SIZE + 1)],
   history_length : Nat, history_pos : Nat, heap : Partial]
Editor(s) == \E X : \E Y : s \in Editors(X, Y)

\* t is s but for the screen.
Alike(t, s) ==
  /\ Editor(t)
  /\ t.blank_command = s.blank_command
  /\ t.pos = s.pos /\ t.length = s.length /\ t.max_length = s.max_length
  /\ t.history = s.history
  /\ t.history_length = s.history_length /\ t.history_pos = s.history_pos
  /\ t.heap = s.heap

\* The entries of the history are the buffers that are allocated, each holds
\* a string, and the line is as long as length says.
Lines(s) ==
  /\ Editor(s)
  /\ s.history_length \in 0..(HISTORY_SIZE - 1)
  /\ s.history_pos \in 0..s.history_length
  /\ \A k, l \in 0..s.history_length : s.history[k] = s.history[l] => k = l
  /\ DOMAIN s.heap = {s.history[k] : k \in 0..s.history_length}
  /\ \A b \in DOMAIN s.heap : \E n \in Nat : Text(s.heap[b], n)
  /\ Text(Line(s), s.length)
  /\ s.pos <= s.length /\ s.length <= s.max_length
  /\ s.max_length \in Places

\* Cells that some line of the history or the edited one may have taken.
Reached(s, i) ==
  \/ i <= s.max_length
  \/ \E b \in DOMAIN s.heap : i <= str_length(s.heap[b])

\* There are blanks for these cells; and: for all but the last.
Blanks(s) == \A i \in Places : Reached(s, i) => s.blank_command[i] = SP
BlanksBut(s) ==
  \A i \in Places : Reached(s, i) /\ i # s.max_length => s.blank_command[i] = SP

\* The fields of an editor.
LEMMA EditorFields ==
  ASSUME NEW s, Editor(s)
  PROVE  /\ s.blank_command \in Buf
         /\ s.pos \in Nat /\ s.length \in Nat /\ s.max_length \in Nat
         /\ s.history \in [0..(HISTORY_SIZE - 1) -> 0..(HISTORY_SIZE + 1)]
         /\ s.history_length \in Nat /\ s.history_pos \in Nat
         /\ s.heap \in Partial
         /\ DOMAIN s.heap \subseteq Buffers
         /\ s.heap \in [DOMAIN s.heap -> Buf]
<1>1. PICK X : \E Y : s \in Editors(X, Y)
  BY DEF Editor
<1>2. PICK Y : s \in Editors(X, Y)
  BY <1>1
<1>3. /\ s.blank_command \in Buf
      /\ s.pos \in Nat /\ s.length \in Nat /\ s.max_length \in Nat
      /\ s.history \in [0..(HISTORY_SIZE - 1) -> 0..(HISTORY_SIZE + 1)]
      /\ s.history_length \in Nat /\ s.history_pos \in Nat
      /\ s.heap \in Partial
  BY <1>2 DEF Editors
<1>4. PICK D \in SUBSET Buffers : s.heap \in [D -> Buf]
  BY <1>3 DEF Partial
<1>5. DOMAIN s.heap = D
  BY <1>4
<1> QED BY <1>3, <1>4, <1>5

\* Writing to the screen, and moving the prompt with it, leave the rest.
LEMMA Redrawn ==
  ASSUME NEW s, Editor(s), NEW x, NEW y
  PROVE  /\ Alike([s EXCEPT !.screen = x], s)
         /\ Alike([s EXCEPT !.screen = x, !.start_of_command = y], s)
<1>1. PICK X : \E Y : s \in Editors(X, Y)
  BY DEF Editor
<1>2. PICK Y : s \in Editors(X, Y)
  BY <1>1
<1>3. /\ [s EXCEPT !.screen = x] \in Editors(X \cup {x}, Y)
      /\ [s EXCEPT !.screen = x, !.start_of_command = y] \in Editors(X \cup {x}, Y \cup {y})
  BY <1>2 DEF Editors
<1>4. Editor([s EXCEPT !.screen = x])
      /\ Editor([s EXCEPT !.screen = x, !.start_of_command = y])
  BY <1>3, Zenon DEF Editor
<1> QED BY <1>2, <1>4 DEF Alike, Editors

\* The line scrolls, or not.
LEMMA FitAlike ==
  ASSUME NEW s, Editor(s)
  PROVE  Alike(Fit(s), s)
<1>1. Alike(s, s)
  BY DEF Alike
<1> DEFINE x == scroll(s.screen)
           y == s.start_of_command - SCREEN_WIDTH
<1>2. Alike([s EXCEPT !.screen = x, !.start_of_command = y], s)
  BY Redrawn
<1>3. Fit(s) = s \/ Fit(s) = [s EXCEPT !.screen = x, !.start_of_command = y]
  <2>1. PICK X : \E Y : s \in Editors(X, Y)
    BY DEF Editor
  <2>2. PICK Y : s \in Editors(X, Y)
    BY <2>1
  <2> QED BY <2>2 DEF Fit, Editors
<1> QED BY Zenon, <1>1, <1>2, <1>3

\* The cursor is put where the next character goes.
LEMMA SetPosAlike ==
  ASSUME NEW s, Editor(s)
  PROVE  Alike(set_pos(s), s)
<1>1. PICK X : \E Y : s \in Editors(X, Y)
  BY DEF Editor
<1>2. PICK Y : s \in Editors(X, Y)
  BY <1>1
<1> DEFINE x == set_cursor_pos(s.screen, s.start_of_command + s.pos)
<1>3. set_pos(s) = [s EXCEPT !.screen = x]
  BY <1>2 DEF set_pos, Editors
<1> HIDE DEF x
<1> QED BY Zenon, <1>3, Redrawn

\* What agrees but for the screen is equally sound.
LEMMA AlikeSound ==
  ASSUME NEW t, NEW s, Alike(t, s)
  PROVE  /\ Lines(s) => Lines(t)
         /\ Blanks(s) => Blanks(t)
         /\ BlanksBut(s) => BlanksBut(t)
BY DEF Alike, Lines, Line, Entry, Blanks, BlanksBut, Reached

\* g is s with the first blank behind the line filled.
Blanked(g, s) ==
  /\ Editor(g)
  /\ g.blank_command = [s.blank_command EXCEPT ![s.max_length] = SP]
  /\ g.pos = s.pos /\ g.length = s.length /\ g.max_length = s.max_length
  /\ g.history = s.history
  /\ g.history_length = s.history_length /\ g.history_pos = s.history_pos
  /\ g.heap = s.heap

\* echo_command writes to the screen, and leaves a blank where it put the '\0'.
LEMMA EchoFacts ==
  ASSUME NEW s, Editor(s)
  PROVE  Blanked(echo_command(s), s)
<1> DEFINE x == Echoed(s, String([s.blank_command EXCEPT ![s.max_length] = NUL]))
           f == [s.blank_command EXCEPT ![s.max_length] = SP]
           b == [s EXCEPT !.screen = x, !.blank_command[s.max_length] = SP]
           y == Echoed(b, String(Line(s)))
           c == [b EXCEPT !.screen = y]
<1>1. PICK X : \E Y : s \in Editors(X, Y)
  BY DEF Editor
<1>2. PICK Y : s \in Editors(X, Y)
  BY <1>1
<1>3. f \in Buf
  <2>1. s.blank_command \in [Places -> Chr]
    BY EditorFields DEF Buf
  <2>2. SP \in Chr
    BY DEF Chr
  <2> QED BY <2>1, <2>2 DEF Buf
<1>4. echo_command(s) = set_pos(c)
  BY DEF echo_command
<1> HIDE DEF x
<1>5. b = [s EXCEPT !.screen = x, !.blank_command = f]
  BY <1>2 DEF Editors
<1> HIDE DEF f, b
<1>6. /\ b \in Editors(X \cup {x}, Y)
      /\ b.blank_command = f
      /\ b.pos = s.pos /\ b.length = s.length /\ b.max_length = s.max_length
      /\ b.history = s.history
      /\ b.history_length = s.history_length /\ b.history_pos = s.history_pos
      /\ b.heap = s.heap
  BY <1>2, <1>3, <1>5 DEF Editors
<1>7. Editor(b)
  BY <1>6, Zenon DEF Editor
<1> HIDE DEF y
<1>8. Alike(c, b)
  BY Zenon, <1>7, Redrawn
<1> HIDE DEF c
<1>9. Alike(set_pos(c), c)
  BY <1>8, SetPosAlike DEF Alike
<1> QED BY <1>4, <1>6, <1>8, <1>9 DEF Blanked, Alike, f

\* So the blanks reach all cells again.
LEMMA EchoSound ==
  ASSUME NEW s, Lines(s), BlanksBut(s)
  PROVE  Lines(echo_command(s)) /\ Blanks(echo_command(s))
<1> DEFINE g == echo_command(s)
<1>1. Editor(s) /\ s.max_length \in Places
  BY DEF Lines
<1>2. Blanked(g, s)
  BY <1>1, EchoFacts
<1> HIDE DEF g
<1>3. Lines(g)
  BY <1>2 DEF Blanked, Lines, Line, Entry
<1>4. ASSUME NEW i \in Places, Reached(g, i) PROVE g.blank_command[i] = SP
  <2>1. Reached(s, i)
    BY <1>2, <1>4 DEF Blanked, Reached
  <2>2. s.blank_command \in [Places -> Chr]
    BY <1>1, EditorFields DEF Buf
  <2>3. CASE i = s.max_length
    BY <1>2, <2>2, <2>3 DEF Blanked
  <2>4. CASE i # s.max_length
    BY <1>2, <2>1, <2>2, <2>4 DEF Blanked, BlanksBut
  <2> QED BY <2>3, <2>4
<1> QED BY <1>3, <1>4 DEF Blanks, g

-----------------------------------------------------------------------------
\* The editor on the screen.

\* The prompt and all cells behind it that lines took are on the screen.
View(s) ==
  /\ OnScreen(s.screen) /\ s.start_of_command \in Nat
  /\ s.start_of_command + s.max_length < CELLS

\* These cells show the line, and the cursor is inside it.
Shows(s) ==
  /\ s.screen.cursor = s.start_of_command + s.pos
  /\ \A i \in 0..(s.max_length - 1) :
       s.screen.cell[s.start_of_command + i] = IF i < s.length THEN Line(s)[i] ELSE SP

\* The characters in front of the first '\0'.
LEMMA StringIs ==
  ASSUME NEW b, NEW n \in Places, b[n] = NUL, \A i \in 0..(n - 1) : b[i] # NUL
  PROVE  /\ Len(String(b)) = n /\ n \in Nat
         /\ \A k \in 1..n : String(b)[k] = b[k - 1]
<1> DEFINE T == {i \in Places : b[i] = NUL}
<1>0. n \in Nat /\ n \in T
  BY PlacesAre
<1>1. T \subseteq Nat /\ T # {}
  BY <1>0, PlacesAre
<1>2. Min(T) \in T /\ Min(T) <= n
  BY <1>0, <1>1, MinIsLeast
<1>3. Min(T) \in Nat /\ b[Min(T)] = NUL
  BY <1>1, <1>2
<1>4. Min(T) = n
  <2> HIDE DEF T
  <2> QED BY <1>0, <1>2, <1>3
<1>5. str_length(b) = n
  BY <1>4 DEF str_length
<1>6. String(b) = [k \in 1..n |-> b[k - 1]]
  BY <1>5 DEF String
<1>7. Len([k \in 1..n |-> b[k - 1]]) = n
  BY <1>0
<1> QED BY <1>0, <1>6, <1>7

\* What is in a line is shown as it is.
LEMMA ChrPlain ==
  ASSUME NEW c \in Chr, c # NUL
  PROVE  Plain(c)
<1>1. Plain(SP)
  BY DEF Plain, SP, NUL, NL, TAB, BS, DEL
<1>2. c \in Chars => Plain(c)
  BY EditorAssumption DEF Plain
<1> QED BY <1>1, <1>2 DEF Chr

\* A text from p on leaves the other cells; y is the screen x with it.
Overlaid(y, x, p, cs) ==
  /\ OnScreen(y)
  /\ \A k \in 0..(CELLS - 1) :
       /\ p <= k /\ k < p + Len(cs) => y.cell[k] = cs[(k - p) + 1]
       /\ k < p \/ p + Len(cs) <= k => y.cell[k] = x.cell[k]

\* The two halves of echo_command.
LEMMA EchoedOver ==
  ASSUME NEW s, OnScreen(s.screen), s.start_of_command \in Nat, NEW cs, Len(cs) \in Nat,
         \A i \in 1..Len(cs) : Plain(cs[i]), s.start_of_command + Len(cs) < CELLS
  PROVE  Overlaid(Echoed(s, cs), s.screen, s.start_of_command, cs)
<1> DEFINE p == s.start_of_command
           x == s.screen
           u == set_cursor_pos(x, p)
           y == write_string(u, cs)
<1>1. p \in 0..(CELLS - 1) /\ OnScreen(x)
  BY CellsAre
<1>2. OnScreen(u) /\ u.cursor = p /\ u.cell = x.cell
  <2> HIDE DEF p, x
  <2> QED BY <1>1, CursorOn
<1>3. Echoed(s, cs) = y
  BY DEF Echoed
<1> HIDE DEF u
<1>4. OnScreen(y) /\ Written(y, u, cs, Len(cs))
  BY <1>2, ShowText
<1> HIDE DEF y
<1>5. Overlaid(y, x, p, cs)
  BY <1>2, <1>4 DEF Overlaid, Written
<1> QED BY <1>3, <1>5

\* The screens of echo_command.
LEMMA EchoScreens ==
  ASSUME NEW s, Editor(s)
  PROVE  \E b : LET g == echo_command(s)
                    x == Echoed(s, String([s.blank_command EXCEPT ![s.max_length] = NUL]))
                    y == Echoed(b, String(Line(s)))
                IN  /\ b.screen = x /\ b.start_of_command = s.start_of_command
                    /\ g.screen = set_cursor_pos(y, s.start_of_command + s.pos)
                    /\ g.start_of_command = s.start_of_command
<1> DEFINE x == Echoed(s, String([s.blank_command EXCEPT ![s.max_length] = NUL]))
           f == [s.blank_command EXCEPT ![s.max_length] = SP]
           b == [s EXCEPT !.screen = x, !.blank_command[s.max_length] = SP]
           y == Echoed(b, String(Line(s)))
           c == [b EXCEPT !.screen = y]
           g == echo_command(s)
<1>1. PICK X : \E Y : s \in Editors(X, Y)
  BY DEF Editor
<1>2. PICK Y : s \in Editors(X, Y)
  BY <1>1
<1>3. g = set_pos(c)
  BY DEF echo_command
<1> HIDE DEF x
<1>4. /\ b.screen = x /\ b.start_of_command = s.start_of_command /\ b.pos = s.pos
      /\ DOMAIN b = DOMAIN s
  BY <1>2 DEF Editors
<1>5. DOMAIN s = {"screen", "start_of_command", "blank_command", "pos", "length",
                  "max_length", "history", "history_length", "history_pos", "heap"}
  BY <1>2 DEF Editors
<1> HIDE DEF b, y, g
<1>6. c.screen = y /\ c.start_of_command = s.start_of_command /\ c.pos = s.pos
  BY <1>4, <1>5
<1>7. "screen" \in DOMAIN c
  BY <1>4, <1>5
<1> HIDE DEF c
<1>8. /\ set_pos(c).screen = set_cursor_pos(c.screen, c.start_of_command + c.pos)
      /\ set_pos(c).start_of_command = c.start_of_command
  BY <1>7 DEF set_pos
<1> QED BY <1>3, <1>4, <1>6, <1>8 DEF x, y, g

\* echo_command shows the line, whatever was in its cells.
LEMMA EchoShows ==
  ASSUME NEW s, Lines(s), BlanksBut(s), View(s)
  PROVE  View(echo_command(s)) /\ Shows(echo_command(s))
<1> DEFINE p == s.start_of_command
           m == s.max_length
           n == s.length
           e == [s.blank_command EXCEPT ![m] = NUL]
           blanks == String(e)
           line == String(Line(s))
           x == Echoed(s, blanks)
           g == echo_command(s)
<1>0. /\ m \in Places /\ m \in Nat /\ n \in Nat /\ n <= m /\ s.pos \in Nat /\ s.pos <= n
      /\ p \in Nat /\ CELLS \in Nat /\ p + m < CELLS /\ OnScreen(s.screen) /\ Editor(s)
      /\ Text(Line(s), n)
  BY EditorFields, CellsAre DEF Lines, View
<1>1. e[m] = NUL /\ \A i \in 0..(m - 1) : e[i] = SP
  <2>1. s.blank_command \in [Places -> Chr]
    BY <1>0, EditorFields DEF Buf
  <2>2. \A i \in 0..(m - 1) : i \in Places /\ i <= m /\ i # m
    BY <1>0, PlacesAre
  <2>3. \A i \in 0..(m - 1) : s.blank_command[i] = SP
    BY <2>2 DEF BlanksBut, Reached
  <2> QED BY <1>0, <2>1, <2>2, <2>3
<1> HIDE DEF e
<1>2. Len(blanks) = m /\ \A k \in 1..m : blanks[k] = SP
  <2>1. \A i \in 0..(m - 1) : e[i] # NUL
    BY <1>1 DEF SP, NUL
  <2>2. Len(blanks) = m /\ \A k \in 1..m : blanks[k] = e[k - 1]
    BY <1>0, <1>1, <2>1, StringIs
  <2>3. \A k \in 1..m : k - 1 \in 0..(m - 1)
    BY <1>0
  <2> QED BY <1>1, <2>2, <2>3
<1>3. Len(line) = n /\ \A k \in 1..n : line[k] = Line(s)[k - 1] /\ Plain(line[k])
  <2>1. /\ Line(s) \in [Places -> Chr] /\ n \in Places
        /\ \A i \in Places : Line(s)[i] = NUL <=> i >= n
    BY <1>0 DEF Text, Buf
  <2>2. \A i \in 0..(n - 1) : i \in Places /\ ~(i >= n)
    BY <1>0, <2>1, PlacesAre
  <2>3. Line(s)[n] = NUL /\ \A i \in 0..(n - 1) : Line(s)[i] # NUL
    BY <1>0, <2>1, <2>2
  <2>4. Len(line) = n /\ \A k \in 1..n : line[k] = Line(s)[k - 1]
    BY <2>1, <2>3, StringIs
  <2>5. ASSUME NEW k \in 1..n PROVE Plain(line[k])
    <3>1. k - 1 \in 0..(n - 1)
      BY <1>0
    <3>2. Line(s)[k - 1] \in Chr /\ Line(s)[k - 1] # NUL
      BY <2>1, <2>2, <2>3, <3>1
    <3>3. line[k] \in Chr /\ line[k] # NUL
      BY <2>4, <3>2
    <3> HIDE DEF line
    <3> QED BY <3>3, ChrPlain
  <2> QED BY <2>4, <2>5
<1> HIDE DEF blanks, line
<1>4. Overlaid(x, s.screen, p, blanks)
  <2>1. \A k \in 1..m : Plain(blanks[k])
    BY <1>2 DEF Plain, SP, NUL, NL, TAB, BS, DEL
  <2> QED BY <1>0, <1>2, <2>1, EchoedOver
<1>5. PICK b : /\ b.screen = x /\ b.start_of_command = p
               /\ g.screen = set_cursor_pos(Echoed(b, line), p + s.pos)
               /\ g.start_of_command = p
  BY <1>0, EchoScreens DEF x, blanks, e, line
<1> DEFINE y == Echoed(b, line)
<1>6. Overlaid(y, x, p, line)
  <2>1. p + n < CELLS /\ OnScreen(x)
    BY <1>0, <1>4 DEF Overlaid
  <2> HIDE DEF x
  <2> QED BY <1>0, <1>3, <1>5, <2>1, EchoedOver
<1>7. Blanked(g, s)
  BY <1>0, EchoFacts
<1> HIDE DEF x, y, g
<1>8. OnScreen(g.screen) /\ g.screen.cursor = p + s.pos /\ g.screen.cell = y.cell
  <2>1. p + s.pos \in 0..(CELLS - 1) /\ OnScreen(y)
    BY <1>0, <1>6 DEF Overlaid
  <2> QED BY <1>5, <2>1, CursorOn DEF y
<1>9. /\ g.pos = s.pos /\ g.length = n /\ g.max_length = m /\ Line(g) = Line(s)
  BY <1>7 DEF Blanked, Line, Entry
<1>10. ASSUME NEW i \in 0..(m - 1)
       PROVE  g.screen.cell[p + i] = IF i < n THEN Line(s)[i] ELSE SP
  <2> DEFINE k == p + i
  <2>1. k \in 0..(CELLS - 1) /\ p <= k /\ k < p + m /\ k - p = i /\ (k < p + n <=> i < n)
        /\ (~(i < n) => p + n <= k) /\ i + 1 \in 1..m /\ (i < n => i + 1 \in 1..n)
        /\ (i + 1) - 1 = i
    BY <1>0
  <2> HIDE DEF k
  <2>2. CASE i < n
    <3>1. y.cell[k] = line[i + 1]
      BY <1>3, <1>6, <2>1, <2>2 DEF Overlaid
    <3> QED BY <1>3, <1>8, <2>1, <2>2, <3>1 DEF k
  <2>3. CASE ~(i < n)
    <3>1. y.cell[k] = x.cell[k]
      BY <1>3, <1>6, <2>1, <2>3 DEF Overlaid
    <3>2. x.cell[k] = blanks[i + 1]
      BY <1>2, <1>4, <2>1 DEF Overlaid
    <3> QED BY <1>2, <1>8, <2>1, <2>3, <3>1, <3>2 DEF k
  <2> QED BY <2>2, <2>3
<1>11. View(g)
  BY <1>0, <1>5, <1>8, <1>9 DEF View
<1>12. Shows(g)
  BY <1>5, <1>8, <1>9, <1>10 DEF Shows
<1> QED BY <1>11, <1>12 DEF g

\* A scroll in time keeps a longer line on the screen.
LEMMA FitView ==
  ASSUME NEW s, Editor(s), OnScreen(s.screen), s.start_of_command \in Nat,
         s.length \in Places, s.length <= s.max_length,
         \/ s.start_of_command + s.max_length < CELLS
         \/ s.max_length = s.length /\ Fits(Fit(s))
  PROVE  View(Fit(s))
<1> DEFINE p == s.start_of_command
           x == scroll(s.screen)
           y == p - SCREEN_WIDTH
           t == [s EXCEPT !.screen = x, !.start_of_command = y]
<1>0. /\ CELLS \in Nat /\ SCREEN_WIDTH \in Nat /\ BUFFER_SIZE + SCREEN_WIDTH <= CELLS
      /\ s.length \in Nat /\ s.length < BUFFER_SIZE /\ BUFFER_SIZE \in Nat
      /\ s.max_length \in Nat
  BY CellsAre, PlacesAre, EditorFields DEF W
<1>1. PICK X : \E Y : s \in Editors(X, Y)
  BY DEF Editor
<1>2. PICK Y : s \in Editors(X, Y)
  BY <1>1
<1>3. CASE p + s.length >= CELLS
  <2>1. Fit(s) = t
    BY <1>2, <1>3 DEF Fit, Editors
  <2>2. OnScreen(x)
    BY ScrollOn
  <2>3. y \in Nat
    BY <1>0, <1>3
  <2>4. s.max_length = s.length /\ Fits(t)
    BY <1>0, <1>3, <2>1
  <2> HIDE DEF x, y
  <2>5. t.screen = x /\ t.start_of_command = y /\ t.max_length = s.max_length
        /\ t.length = s.length
    BY <1>2 DEF Editors
  <2> HIDE DEF t
  <2> QED BY <2>1, <2>2, <2>3, <2>4, <2>5 DEF View, Fits
<1>4. CASE ~(p + s.length >= CELLS)
  <2>1. Fit(s) = s
    BY <1>4 DEF Fit
  <2>2. p + s.max_length < CELLS
    BY <1>0, <1>4, <2>1 DEF Fits
  <2> QED BY <2>1, <2>2 DEF View
<1> QED BY <1>3, <1>4

\* One more character: a line of scrolling is enough.
LEMMA FitEnough ==
  ASSUME NEW s, Editor(s), s.start_of_command \in Nat,
         s.start_of_command + s.length <= CELLS
  PROVE  Fits(Fit(s))
<1> DEFINE x == scroll(s.screen)
           y == s.start_of_command - SCREEN_WIDTH
           t == [s EXCEPT !.screen = x, !.start_of_command = y]
<1>0. CELLS \in Nat /\ SCREEN_WIDTH \in Nat \ {0} /\ s.length \in Nat
  BY CellsAre, EditorFields DEF W
<1>1. PICK X : \E Y : s \in Editors(X, Y)
  BY DEF Editor
<1>2. PICK Y : s \in Editors(X, Y)
  BY <1>1
<1>3. CASE s.start_of_command + s.length >= CELLS
  <2>1. Fit(s) = t
    BY <1>2, <1>3 DEF Fit, Editors
  <2> HIDE DEF x
  <2>2. t.start_of_command = y /\ t.length = s.length
    BY <1>2 DEF Editors
  <2> HIDE DEF t
  <2> QED BY <1>0, <2>1, <2>2 DEF Fits
<1>4. CASE ~(s.start_of_command + s.length >= CELLS)
  BY <1>0, <1>4 DEF Fit, Fits
<1> QED BY <1>3, <1>4

\* The cursor moves and the cells stay.
LEMMA SetPosShows ==
  ASSUME NEW s, Lines(s), View(s)
  PROVE  LET g == set_pos(s)
         IN  /\ View(g) /\ g.screen.cell = s.screen.cell
             /\ g.screen.cursor = s.start_of_command + s.pos
             /\ g.start_of_command = s.start_of_command
<1> DEFINE g == set_pos(s)
           q == s.start_of_command + s.pos
           x == set_cursor_pos(s.screen, q)
<1>0. q \in 0..(CELLS - 1) /\ OnScreen(s.screen) /\ Editor(s)
  BY EditorFields, CellsAre DEF Lines, View
<1>1. PICK X : \E Y : s \in Editors(X, Y)
  BY <1>0 DEF Editor
<1>2. PICK Y : s \in Editors(X, Y)
  BY <1>1
<1>3. OnScreen(x) /\ x.cursor = q /\ x.cell = s.screen.cell
  <2> HIDE DEF q
  <2> QED BY <1>0, CursorOn
<1>4. g = [s EXCEPT !.screen = x]
  BY <1>2 DEF set_pos, Editors
<1> HIDE DEF x, g
<1>5. g.screen = x /\ g.start_of_command = s.start_of_command
      /\ g.max_length = s.max_length
  BY <1>2, <1>4 DEF Editors
<1> QED BY <1>3, <1>5 DEF View, g

-----------------------------------------------------------------------------
\* Keys.

\* t is s with the line b of n characters, the cursor at p and m cells taken.
Edited(t, s, b, p, n, m) ==
  /\ Editor(t)
  /\ t.screen = s.screen /\ t.start_of_command = s.start_of_command
  /\ t.blank_command = s.blank_command
  /\ t.pos = p /\ t.length = n /\ t.max_length = m
  /\ t.history = s.history
  /\ t.history_length = s.history_length /\ t.history_pos = s.history_pos
  /\ t.heap = [s.heap EXCEPT ![s.history[s.history_pos]] = b]

\* The line is one of the buffers.
LEMMA LineIsBuffer ==
  ASSUME NEW s, Lines(s)
  PROVE  s.history[s.history_pos] \in DOMAIN s.heap /\ Line(s) \in Buf
<1>1. s.history_pos \in 0..s.history_length
  BY DEF Lines
<1> QED BY <1>1 DEF Lines, Text

\* A line that is at most one cell longer than any was since the prompt.
LEMMA EditedSound ==
  ASSUME NEW s, Lines(s), Blanks(s), NEW b, NEW n, Text(b, n), NEW p \in Nat, p <= n,
         NEW m \in Places, n <= m, s.max_length <= m, m <= s.max_length + 1,
         NEW t, Edited(t, s, b, p, n, m)
  PROVE  Lines(t) /\ BlanksBut(t)
<1> DEFINE cur == s.history[s.history_pos]
<1>1. cur \in DOMAIN s.heap
  BY LineIsBuffer
<1>2. /\ DOMAIN t.heap = DOMAIN s.heap /\ t.heap[cur] = b
      /\ \A c \in DOMAIN s.heap : c # cur => t.heap[c] = s.heap[c]
  BY <1>1 DEF Edited
<1>3. n \in Nat /\ m \in Nat /\ s.max_length \in Nat /\ str_length(b) = n
  BY PlacesAre, LengthIs DEF Text, Lines
<1>4. Line(t) = b
  BY <1>2 DEF Edited, Line, Entry
<1>5. Lines(t)
  <2>1. \A c \in DOMAIN t.heap : \E k \in Nat : Text(t.heap[c], k)
    BY <1>2, <1>3 DEF Lines
  <2> QED BY <1>2, <1>4, <2>1 DEF Lines, Edited
<1>6. ASSUME NEW i \in Places, Reached(t, i), i # m PROVE s.blank_command[i] = SP
  <2>1. i \in Nat
    BY PlacesAre
  <2>2. CASE i <= m
    <3>1. i <= s.max_length
      BY <1>3, <1>6, <2>1, <2>2
    <3> QED BY <3>1 DEF Blanks, Reached
  <2>3. ASSUME NEW c \in DOMAIN t.heap, i <= str_length(t.heap[c]) PROVE s.blank_command[i] = SP
    <3>1. CASE c = cur
      BY <1>2, <1>3, <2>1, <2>2, <2>3, <3>1
    <3>2. CASE c # cur
      BY <1>2, <2>3, <3>2 DEF Blanks, Reached
    <3> QED BY <3>1, <3>2
  <2>4. t.max_length = m
    BY DEF Edited
  <2> QED BY <1>6, <2>2, <2>3, <2>4 DEF Reached
<1>7. BlanksBut(t)
  BY <1>6 DEF BlanksBut, Edited
<1> QED BY <1>5, <1>7

\* A new line is written to its buffer.
LEMMA SetLineFields ==
  ASSUME NEW X, NEW Y, NEW s \in Editors(X, Y), NEW b \in Buf
  PROVE  LET t == SetLine(s, b)
         IN  /\ t \in Editors(X, Y)
             /\ t.screen = s.screen /\ t.start_of_command = s.start_of_command
             /\ t.heap = [s.heap EXCEPT ![s.history[s.history_pos]] = b]
             /\ t.blank_command = s.blank_command
             /\ t.pos = s.pos /\ t.length = s.length /\ t.max_length = s.max_length
             /\ t.history = s.history
             /\ t.history_length = s.history_length /\ t.history_pos = s.history_pos
<1> DEFINE heap == [s.heap EXCEPT ![s.history[s.history_pos]] = b]
<1>1. Editor(s)
  BY Zenon DEF Editor
<1>2. heap \in Partial
  <2>1. s.heap \in [DOMAIN s.heap -> Buf] /\ DOMAIN s.heap \subseteq Buffers
    BY <1>1, EditorFields
  <2>2. heap \in [DOMAIN s.heap -> Buf]
    BY <2>1
  <2> QED BY <2>1, <2>2 DEF Partial
<1>3. SetLine(s, b) = [s EXCEPT !.heap = heap]
  BY DEF SetLine, Editors
<1> HIDE DEF heap
<1>4. /\ [s EXCEPT !.heap = heap] \in Editors(X, Y)
      /\ [s EXCEPT !.heap = heap].heap = heap
  BY <1>2 DEF Editors
<1> QED BY <1>3, <1>4 DEF Editors, heap

\* Fields written one after the other.
LEMMA EditedFields ==
  ASSUME NEW s, Lines(s), NEW b \in Buf, NEW p \in Nat, NEW n \in Nat, NEW m \in Nat
  PROVE  Edited([SetLine(s, b) EXCEPT !.pos = p, !.length = n, !.max_length = m],
                s, b, p, n, m)
<1> DEFINE r == SetLine(s, b)
           t == [r EXCEPT !.pos = p, !.length = n, !.max_length = m]
<1>1. PICK X : \E Y : s \in Editors(X, Y)
  BY DEF Lines, Editor
<1>2. PICK Y : s \in Editors(X, Y)
  BY <1>1
<1>3. /\ r \in Editors(X, Y)
      /\ r.screen = s.screen /\ r.start_of_command = s.start_of_command
      /\ r.heap = [s.heap EXCEPT ![s.history[s.history_pos]] = b]
      /\ r.blank_command = s.blank_command /\ r.history = s.history
      /\ r.history_length = s.history_length /\ r.history_pos = s.history_pos
  BY <1>2, SetLineFields
<1> HIDE DEF r
<1>4. /\ t \in Editors(X, Y) /\ t.heap = r.heap
      /\ t.screen = r.screen /\ t.start_of_command = r.start_of_command
      /\ t.blank_command = r.blank_command
      /\ t.pos = p /\ t.length = n /\ t.max_length = m
      /\ t.history = r.history
      /\ t.history_length = r.history_length /\ t.history_pos = r.history_pos
  BY <1>3 DEF Editors
<1> HIDE DEF t
<1>5. Editor(t)
  BY <1>4, Zenon DEF Editor
<1>6. Edited(t, s, b, p, n, m)
  BY <1>3, <1>4, <1>5 DEF Edited
<1> QED BY <1>6 DEF t, r

\* A character typed into a line that is not full.
LEMMA Typed ==
  ASSUME NEW s, Lines(s), Blanks(s), NEW c \in Chars, s.length < BUFFER_SIZE - 1
  PROVE  LET g == echo_command(Fit(update_max_length(Inserted(s, c))))
         IN  /\ Lines(g) /\ Blanks(g) /\ g.history = s.history
             /\ View(s) => View(g) /\ Shows(g)
<1> DEFINE p == s.pos
           n == s.length
           b == [i \in Places |-> IF i = p THEN c
                                  ELSE IF i \in (p + 1)..n THEN Line(s)[i - 1]
                                  ELSE Line(s)[i]]
           m == IF n + 1 > s.max_length THEN n + 1 ELSE s.max_length
           r == [SetLine(s, b) EXCEPT !.pos = p + 1, !.length = n + 1, !.max_length = m]
           u == update_max_length(Inserted(s, c))
<1>1. /\ Text(Line(s), n) /\ p \in Nat /\ n \in Nat /\ p <= n /\ p \in 0..n
      /\ s.max_length \in Nat /\ n <= s.max_length /\ s.max_length \in Places
  BY EditorFields DEF Lines
<1>2. Text(b, n + 1)
  BY <1>1, InsertText
<1>3. b \in Buf /\ n + 1 \in Nat /\ p + 1 \in Nat /\ p + 1 <= n + 1
  BY <1>1, <1>2 DEF Text
<1>4. m \in Places /\ m \in Nat /\ n + 1 <= m /\ s.max_length <= m /\ m <= s.max_length + 1
  BY <1>1, PlacesAre
<1>5. u = r
  <2>1. PICK X : \E Y : s \in Editors(X, Y)
    BY DEF Lines, Editor
  <2>2. PICK Y : s \in Editors(X, Y)
    BY <2>1
  <2> DEFINE l == SetLine(s, b)
  <2>3. Inserted(s, c) = [l EXCEPT !.pos = @ + 1, !.length = @ + 1]
    BY DEF Inserted
  <2>4. l \in Editors(X, Y) /\ l.pos = p /\ l.length = n /\ l.max_length = s.max_length
    <3>1. b \in Buf
      BY <1>3
    <3> HIDE DEF b
    <3>0. s \in Editors(X, Y)
      BY <2>2
    <3>2. l \in Editors(X, Y)
      BY <3>0, <3>1, SetLineFields
    <3>3. l.pos = s.pos /\ l.length = s.length /\ l.max_length = s.max_length
      BY <3>0 DEF SetLine, Editors
    <3> QED BY <3>2, <3>3
  <2> HIDE DEF l, b
  <2>7. Inserted(s, c) = [l EXCEPT !.pos = p + 1, !.length = n + 1]
    BY <2>3, <2>4 DEF Editors
  <2>8. u = [l EXCEPT !.pos = p + 1, !.length = n + 1, !.max_length = m]
    BY <2>4, <2>7 DEF update_max_length, Editors
  <2> QED BY <2>8 DEF l
<1>6. Edited(r, s, b, p + 1, n + 1, m)
  BY <1>1, <1>3, <1>4, EditedFields
<1> HIDE DEF b, m, r
<1>7. Lines(r) /\ BlanksBut(r)
  BY <1>2, <1>3, <1>4, <1>6, EditedSound
<1> HIDE DEF u
<1>8. Alike(Fit(u), u)
  BY <1>5, <1>7, FitAlike DEF Lines
<1>9. Lines(Fit(u)) /\ BlanksBut(Fit(u))
  BY <1>5, <1>7, <1>8, AlikeSound
<1>10. Blanked(echo_command(Fit(u)), Fit(u))
  BY <1>9, EchoFacts DEF Lines
<1>11. echo_command(Fit(u)).history = s.history
  BY <1>5, <1>6, <1>8, <1>10 DEF Blanked, Alike, Edited
<1>12. ASSUME View(s) PROVE View(Fit(u))
  <2>1. /\ Editor(u) /\ OnScreen(u.screen) /\ u.length = n + 1 /\ u.max_length = m
        /\ u.start_of_command = s.start_of_command /\ u.start_of_command \in Nat
    BY <1>5, <1>6, <1>12 DEF Edited, View
  <2>2. u.length \in Places /\ u.length <= u.max_length
    BY <1>5, <1>7 DEF Lines, Text
  <2>3. s.start_of_command + s.max_length < CELLS /\ CELLS \in Nat
    BY <1>12, CellsAre DEF View
  <2>4. CASE n + 1 > s.max_length
    <3>1. m = n + 1 /\ n = s.max_length
      BY <1>1, <2>4 DEF m
    <3>2. u.start_of_command + u.length <= CELLS
      BY <1>1, <2>1, <2>3, <3>1
    <3> QED BY <2>1, <2>2, <3>1, <3>2, FitEnough, FitView
  <2>5. CASE ~(n + 1 > s.max_length)
    <3>1. m = s.max_length
      BY <2>5 DEF m
    <3> QED BY <2>1, <2>2, <2>3, <3>1, FitView
  <2> QED BY <2>4, <2>5
<1> QED BY <1>9, <1>11, <1>12, EchoSound, EchoShows DEF u

\* The cursor moves inside the line.
LEMMA Moved ==
  ASSUME NEW s, Lines(s), Blanks(s), NEW p \in Nat, p <= s.length
  PROVE  LET t == [s EXCEPT !.pos = p]
         IN  /\ Lines(t) /\ Blanks(t) /\ t.pos = p /\ t.history = s.history
             /\ Lines(set_pos(t)) /\ Blanks(set_pos(t)) /\ set_pos(t).history = s.history
             /\ View(s) => View(t) /\ View(set_pos(t))
             /\ View(s) /\ Shows(s) => Shows(set_pos(t))
<1> DEFINE t == [s EXCEPT !.pos = p]
<1>1. PICK X : \E Y : s \in Editors(X, Y)
  BY DEF Lines, Editor
<1>2. PICK Y : s \in Editors(X, Y)
  BY <1>1
<1>3. /\ t \in Editors(X, Y) /\ t.heap = s.heap
      /\ t.screen = s.screen /\ t.start_of_command = s.start_of_command
      /\ t.blank_command = s.blank_command
      /\ t.pos = p /\ t.length = s.length /\ t.max_length = s.max_length
      /\ t.history = s.history
      /\ t.history_length = s.history_length /\ t.history_pos = s.history_pos
  BY <1>2 DEF Editors
<1> HIDE DEF t
<1>4. Editor(t)
  BY <1>3, Zenon DEF Editor
<1>5. Lines(t) /\ Blanks(t)
  BY <1>3, <1>4 DEF Lines, Line, Entry, Blanks, Reached
<1>6. Alike(set_pos(t), t)
  BY <1>4, SetPosAlike
<1>7. Lines(set_pos(t)) /\ Blanks(set_pos(t)) /\ set_pos(t).history = s.history
  BY <1>3, <1>5, <1>6, AlikeSound DEF Alike
<1>8. View(s) => View(t)
  BY <1>3 DEF View
<1> DEFINE g == set_pos(t)
<1>9. View(s) => /\ View(g) /\ g.screen.cell = t.screen.cell
                 /\ g.screen.cursor = t.start_of_command + t.pos
                 /\ g.start_of_command = t.start_of_command
  BY <1>5, <1>8, SetPosShows
<1> HIDE DEF g
<1>10. View(s) /\ Shows(s) => Shows(g)
  <2>1. g.pos = p /\ g.length = s.length /\ g.max_length = s.max_length /\ Line(g) = Line(s)
    BY <1>3, <1>6 DEF Alike, Line, Entry, g
  <2> QED BY <1>3, <1>9, <2>1 DEF Shows
<1> QED BY <1>3, <1>5, <1>7, <1>8, <1>9, <1>10 DEF t, g

\* A character goes.
LEMMA DeletedSound ==
  ASSUME NEW s, Lines(s), Blanks(s)
  PROVE  LET g == echo_command(Deleted(s))
         IN  /\ Lines(g) /\ Blanks(g) /\ g.history = s.history
             /\ View(s) => View(g) /\ Shows(g)
<1> DEFINE p == s.pos
           n == s.length
           b == [i \in Places |-> IF i \in p..(n - 1) THEN Line(s)[i + 1] ELSE Line(s)[i]]
           k == IF p < n THEN n - 1 ELSE n
           m == s.max_length
           r == [SetLine(s, b) EXCEPT !.pos = p, !.length = k, !.max_length = m]
           d == Deleted(s)
<1>1. /\ Text(Line(s), n) /\ p \in Nat /\ n \in Nat /\ p <= n /\ p \in 0..n
      /\ m \in Nat /\ n <= m /\ m \in Places
  BY EditorFields DEF Lines
<1>2. Text(b, k)
  BY <1>1, DeleteText
<1>3. b \in Buf /\ k \in Nat /\ p <= k /\ k <= m /\ m <= m + 1
  BY <1>1, <1>2 DEF Text
<1>4. d = r
  <2>1. PICK X : \E Y : s \in Editors(X, Y)
    BY DEF Lines, Editor
  <2>2. PICK Y : s \in Editors(X, Y)
    BY <2>1
  <2> DEFINE l == SetLine(s, b)
  <2>3. d = [l EXCEPT !.length = IF s.pos < s.length THEN @ - 1 ELSE @]
    BY DEF Deleted
  <2>4. l \in Editors(X, Y) /\ l.pos = p /\ l.length = n /\ l.max_length = m
    <3>1. b \in Buf
      BY <1>3
    <3> HIDE DEF b
    <3>0. s \in Editors(X, Y)
      BY <2>2
    <3>2. l \in Editors(X, Y)
      BY <3>0, <3>1, SetLineFields
    <3>3. l.pos = s.pos /\ l.length = s.length /\ l.max_length = s.max_length
      BY <3>0 DEF SetLine, Editors
    <3> QED BY <3>2, <3>3
  <2> HIDE DEF l, b, d
  <2>5. d = [l EXCEPT !.length = k]
    BY <2>3, <2>4 DEF Editors
  <2>6. [l EXCEPT !.pos = p, !.length = k, !.max_length = m] = [l EXCEPT !.length = k]
    BY <2>4 DEF Editors
  <2> QED BY <2>5, <2>6 DEF l
<1>5. Edited(r, s, b, p, k, m)
  BY <1>1, <1>3, EditedFields
<1> HIDE DEF b, k, r, d
<1>6. Lines(r) /\ BlanksBut(r)
  BY <1>1, <1>2, <1>3, <1>5, EditedSound
<1>7. Lines(echo_command(r)) /\ Blanks(echo_command(r))
  BY <1>6, EchoSound
<1>8. Blanked(echo_command(r), r)
  BY <1>6, EchoFacts DEF Lines
<1>9. echo_command(r).history = s.history
  BY <1>5, <1>8 DEF Blanked, Edited
<1>10. View(s) => View(r)
  BY <1>5 DEF Edited, View
<1> QED BY <1>4, <1>6, <1>7, <1>9, <1>10, EchoShows DEF d

\* The line of another entry is recalled.
LEMMA RecalledSound ==
  ASSUME NEW s, Lines(s), Blanks(s), NEW k \in 0..s.history_length
  PROVE  LET g == echo_command(Recalled(s, k))
         IN  /\ Lines(g) /\ Blanks(g) /\ g.history = s.history
             /\ View(s) /\ Fits(Recalled(s, k)) => View(g) /\ Shows(g)
<1> DEFINE b == s.history[k]
           n == str_length(Entry(s, k))
           m == IF n > s.max_length THEN n ELSE s.max_length
           r == [s EXCEPT !.history_pos = k, !.pos = n, !.length = n]
           u == update_max_length(r)
           g == echo_command(Fit(u))
<1>1. b \in DOMAIN s.heap /\ k \in Nat
  BY EditorFields DEF Lines
<1>2. PICK l \in Nat : Text(s.heap[b], l)
  BY <1>1 DEF Lines
<1>3. n = l
  BY <1>2, LengthIs DEF Entry
<1>4. n \in Nat /\ n \in Places /\ Text(s.heap[b], n)
  BY <1>2, <1>3 DEF Text
<1>5. s.max_length \in Nat /\ s.max_length \in Places
  BY EditorFields DEF Lines
<1>6. PICK X : \E Y : s \in Editors(X, Y)
  BY DEF Lines, Editor
<1>7. PICK Y : s \in Editors(X, Y)
  BY <1>6
<1> HIDE DEF n
<1>8. /\ r \in Editors(X, Y) /\ r.heap = s.heap
      /\ r.screen = s.screen /\ r.start_of_command = s.start_of_command
      /\ r.blank_command = s.blank_command
      /\ r.pos = n /\ r.length = n /\ r.max_length = s.max_length
      /\ r.history = s.history
      /\ r.history_length = s.history_length /\ r.history_pos = k
  BY <1>1, <1>4, <1>7 DEF Editors
<1> HIDE DEF r
<1>9. u = [r EXCEPT !.max_length = m]
  BY <1>8 DEF update_max_length, Editors
<1>10. m \in Nat /\ m \in Places /\ n <= m /\ s.max_length <= m
  BY <1>4, <1>5
<1>11. m = n \/ m = s.max_length
  OBVIOUS
<1> HIDE DEF m, u
<1>12. /\ u \in Editors(X, Y) /\ u.heap = s.heap
       /\ u.screen = s.screen /\ u.start_of_command = s.start_of_command
       /\ u.blank_command = s.blank_command
       /\ u.pos = n /\ u.length = n /\ u.max_length = m
       /\ u.history = s.history
       /\ u.history_length = s.history_length /\ u.history_pos = k
  BY <1>8, <1>9, <1>10 DEF Editors
<1>13. Editor(u)
  BY <1>12, Zenon DEF Editor
<1>14. Lines(u)
  <2>1. Line(u) = s.heap[b]
    BY <1>12 DEF Line, Entry
  <2>2. u.pos <= u.length
    BY <1>4, <1>12
  <2> QED BY <1>4, <1>10, <1>12, <1>13, <2>1, <2>2 DEF Lines
<1>15. Blanks(u)
  <2> SUFFICES ASSUME NEW i \in Places, Reached(u, i) PROVE Reached(s, i)
    BY <1>12 DEF Blanks
  <2>1. CASE i <= m
    <3>1. CASE m = n
      BY <1>1, <2>1, <3>1 DEF Reached, n, Entry
    <3>2. CASE m = s.max_length
      BY <2>1, <3>2 DEF Reached
    <3> QED BY <1>11, <3>1, <3>2
  <2>2. CASE \E c \in DOMAIN s.heap : i <= str_length(s.heap[c])
    BY <2>2 DEF Reached
  <2> QED BY <1>12, <2>1, <2>2 DEF Reached
<1>16. Alike(Fit(u), u)
  BY <1>13, FitAlike
<1>17. Lines(Fit(u)) /\ Blanks(Fit(u))
  BY <1>14, <1>15, <1>16, AlikeSound
<1>18. Lines(g) /\ Blanks(g)
  BY <1>17, EchoSound DEF Blanks, BlanksBut
<1>19. Blanked(g, Fit(u))
  BY <1>17, EchoFacts DEF Lines
<1> HIDE DEF g
<1>20. g.history = s.history
  BY <1>12, <1>16, <1>19 DEF Blanked, Alike
<1>21. Recalled(s, k) = Fit(u)
  BY DEF Recalled, u, r, n
<1>22. ASSUME View(s), Fits(Fit(u)) PROVE View(Fit(u))
  <2>1. /\ OnScreen(u.screen) /\ u.start_of_command \in Nat
        /\ s.start_of_command + s.max_length < CELLS
    BY <1>12, <1>22 DEF View
  <2>2. u.length \in Places /\ u.length <= u.max_length
    BY <1>4, <1>10, <1>12
  <2>3. \/ u.start_of_command + u.max_length < CELLS
        \/ u.max_length = u.length /\ Fits(Fit(u))
    BY <1>11, <1>12, <1>22, <2>1
  <2> QED BY <1>13, <2>1, <2>2, <2>3, FitView
<1>23. View(s) /\ Fits(Recalled(s, k)) => View(g) /\ Shows(g)
  <2>1. BlanksBut(Fit(u))
    BY <1>17 DEF Blanks, BlanksBut
  <2> QED BY <1>17, <1>21, <1>22, <2>1, EchoShows DEF g
<1> QED BY <1>18, <1>20, <1>21, <1>23 DEF g

-----------------------------------------------------------------------------
\* finalize_command.

Full(s) == s.history_length = HISTORY_SIZE - 1

\* How many entries n new prompts push out.
Gone(s, n) ==
  LET room == HISTORY_SIZE - 1 - s.history_length
  IN  IF n > room THEN n - room ELSE 0

\* The string that entry k of the history is to have, the line that is
\* entered included.
Remembered(s, k) ==
  String(Entry(s, IF k # s.history_length THEN k
                  ELSE IF Full(s) THEN s.history_length ELSE s.history_pos))

\* The entries of s moved by what n new prompts push out.
Passed(g, s, n) ==
  /\ g.history_length = s.history_length + n - Gone(s, n)
  /\ \A k \in Gone(s, n)..s.history_length :
       String(Entry(g, k - Gone(s, n))) = Remembered(s, k)

\* t is the editor between prompts: the line of s went into the history, and
\* the next line has no buffer yet.
Between(t, s) ==
  /\ Editor(t)
  /\ t.history_length \in 1..(HISTORY_SIZE - 1)
  /\ t.history_pos = t.history_length
  /\ \A k, l \in 0..(t.history_length - 1) : t.history[k] = t.history[l] => k = l
  /\ DOMAIN t.heap = {t.history[k] : k \in 0..(t.history_length - 1)}
  /\ \A b \in DOMAIN t.heap : \E n \in Nat : Text(t.heap[b], n)
  /\ \A b \in DOMAIN t.heap : \A i \in Places :
       i <= str_length(t.heap[b]) => t.blank_command[i] = SP
  /\ Passed(t, s, 1)

\* The oldest entry goes and the others move.
LEMMA ShiftedBetween ==
  ASSUME NEW s, Lines(s), Blanks(s), Full(s)
  PROVE  Between(Shifted(s), s)
<1> DEFINE t == Shifted(s)
           top == HISTORY_SIZE - 1
           heap == [b \in DOMAIN s.heap \ {s.history[0]} |-> s.heap[b]]
           history == [k \in DOMAIN s.history |-> IF k = top THEN s.history[k]
                                                  ELSE s.history[k + 1]]
<1>1. PICK X : \E Y : s \in Editors(X, Y)
  BY DEF Lines, Editor
<1>2. PICK Y : s \in Editors(X, Y)
  BY <1>1
<1>3. top \in Nat /\ top >= 1 /\ s.history_length = top /\ HISTORY_SIZE \in Nat
  BY EditorAssumption DEF Full
<1>4. /\ s.history \in [0..top -> 0..(HISTORY_SIZE + 1)] /\ DOMAIN s.history = 0..top
      /\ s.heap \in [DOMAIN s.heap -> Buf] /\ DOMAIN s.heap \subseteq Buffers
      /\ s.history_pos \in 0..top /\ s.blank_command \in Buf
  BY <1>3, EditorFields DEF Lines
<1>5. heap \in Partial
  <2>1. heap \in [DOMAIN s.heap \ {s.history[0]} -> Buf]
    BY <1>4
  <2>2. DOMAIN s.heap \ {s.history[0]} \in SUBSET Buffers
    BY <1>4
  <2> QED BY <2>1, <2>2 DEF Partial
<1>6. history \in [0..top -> 0..(HISTORY_SIZE + 1)]
  <2> SUFFICES ASSUME NEW k \in 0..top, k # top PROVE s.history[k + 1] \in 0..(HISTORY_SIZE + 1)
    BY <1>4
  <2>1. k + 1 \in 0..top
    BY <1>3
  <2> QED BY <1>4, <2>1
<1>7. t = [s EXCEPT !.heap = heap, !.history = history, !.history_pos = s.history_length]
  BY <1>2 DEF Shifted, Editors
<1>8. /\ DOMAIN heap = DOMAIN s.heap \ {s.history[0]}
      /\ \A b \in DOMAIN heap : heap[b] = s.heap[b]
      /\ \A k \in 0..(top - 1) : history[k] = s.history[k + 1]
  BY <1>3, <1>4
<1> HIDE DEF heap, history, t
<1>9. /\ t \in Editors(X, Y) /\ t.heap = heap /\ t.history = history
      /\ t.blank_command = s.blank_command
      /\ t.history_length = top /\ t.history_pos = top
  BY <1>2, <1>3, <1>5, <1>6, <1>7 DEF Editors
<1>10. Editor(t)
  BY <1>9, Zenon DEF Editor
<1>11. \A k, l \in 0..top : s.history[k] = s.history[l] => k = l
  BY <1>3 DEF Lines
<1> HIDE DEF top
<1>12. \A k, l \in 0..(top - 1) : history[k] = history[l] => k = l
  <2> SUFFICES ASSUME NEW k \in 0..(top - 1), NEW l \in 0..(top - 1), history[k] = history[l]
               PROVE  k = l
    OBVIOUS
  <2>1. k + 1 \in 0..top /\ l + 1 \in 0..top /\ s.history[k + 1] = s.history[l + 1]
    BY <1>3, <1>8
  <2>2. k + 1 = l + 1
    BY <1>11, <2>1
  <2> QED BY <2>2
<1>13. DOMAIN heap = {history[k] : k \in 0..(top - 1)}
  <2>1. DOMAIN s.heap = {s.history[k] : k \in 0..top}
    BY <1>3 DEF Lines
  <2>2. ASSUME NEW b \in DOMAIN heap PROVE \E k \in 0..(top - 1) : b = history[k]
    <3>1. PICK k \in 0..top : b = s.history[k]
      BY <1>8, <2>1
    <3>2. k # 0
      BY <1>8, <3>1
    <3>3. k - 1 \in 0..(top - 1) /\ k = k - 1 + 1
      BY <1>3, <3>2
    <3> QED BY <1>8, <3>1, <3>3
  <2>3. ASSUME NEW k \in 0..(top - 1) PROVE history[k] \in DOMAIN heap
    <3>1. k + 1 \in 0..top /\ 0 \in 0..top /\ k + 1 # 0
      BY <1>3
    <3>2. s.history[k + 1] # s.history[0]
      BY <1>11, <3>1
    <3> QED BY <1>8, <2>1, <3>1, <3>2
  <2> QED BY <2>2, <2>3
<1>14. ASSUME NEW k \in 1..top PROVE String(Entry(t, k - 1)) = Remembered(s, k)
  <2>1. k - 1 \in 0..(top - 1) /\ k - 1 + 1 = k
    BY <1>3
  <2>2. history[k - 1] = s.history[k] /\ history[k - 1] \in DOMAIN heap
    BY <1>8, <1>13, <2>1
  <2>3. Entry(t, k - 1) = Entry(s, k)
    BY <1>8, <1>9, <2>2 DEF Entry
  <2> QED BY <2>3 DEF Remembered
<1>15. Gone(s, 1) = 1
  BY <1>3 DEF Gone, Full, top
<1>16. Passed(t, s, 1)
  <2>1. t.history_length = s.history_length + 1 - Gone(s, 1)
    BY <1>3, <1>9, <1>15
  <2>2. \A k \in Gone(s, 1)..s.history_length :
          String(Entry(t, k - Gone(s, 1))) = Remembered(s, k)
    BY <1>3, <1>14, <1>15
  <2> QED BY <2>1, <2>2 DEF Passed
<1>17. \A b \in DOMAIN heap : \E n \in Nat : Text(heap[b], n)
  BY <1>8 DEF Lines
<1>18. ASSUME NEW b \in DOMAIN heap, NEW i \in Places, i <= str_length(heap[b])
       PROVE  s.blank_command[i] = SP
  BY <1>8, <1>18 DEF Blanks, Reached
<1>19. t.history_length \in 1..(HISTORY_SIZE - 1)
  BY <1>3, <1>9 DEF top
<1> QED BY <1>9, <1>10, <1>12, <1>13, <1>16, <1>17, <1>18, <1>19 DEF Between, t

\* The line is copied to the end of the history, which grows.
LEMMA KeptBetween ==
  ASSUME NEW s, Lines(s), Blanks(s), ~Full(s), ~Overwrites(s)
  PROVE  Between(Kept(s), s)
<1> DEFINE t == Kept(s)
           last == s.history_length
           end == s.history[last]
           old == s.heap[end]
           new == str_copy(Line(s), old)
           heap == [s.heap EXCEPT ![end] = new]
<1>1. PICK X : \E Y : s \in Editors(X, Y)
  BY DEF Lines, Editor
<1>2. PICK Y : s \in Editors(X, Y)
  BY <1>1
<1>3. last \in Nat /\ last + 1 <= HISTORY_SIZE - 1 /\ HISTORY_SIZE \in Nat
  BY EditorAssumption DEF Full, Lines
<1>4. /\ s.heap \in [DOMAIN s.heap -> Buf] /\ DOMAIN s.heap \subseteq Buffers
      /\ s.history_pos \in 0..last /\ end \in DOMAIN s.heap
      /\ \A k \in 0..last : s.history[k] \in DOMAIN s.heap
      /\ \A k, l \in 0..last : s.history[k] = s.history[l] => k = l
      /\ DOMAIN s.heap = {s.history[k] : k \in 0..last}
  <2>1. Editor(s) /\ last \in 0..last
    BY <1>3 DEF Lines
  <2>2. s.heap \in [DOMAIN s.heap -> Buf] /\ DOMAIN s.heap \subseteq Buffers
    BY <2>1, EditorFields
  <2>3. /\ s.history_pos \in 0..last
        /\ \A k, l \in 0..last : s.history[k] = s.history[l] => k = l
        /\ DOMAIN s.heap = {s.history[k] : k \in 0..last}
    BY DEF Lines
  <2> HIDE DEF last
  <2>4. \A k \in 0..last : s.history[k] \in DOMAIN s.heap
    BY <2>3
  <2> QED BY <2>1, <2>2, <2>3, <2>4
<1>5. PICK m \in Nat : Text(old, m)
  BY <1>4 DEF Lines
<1>6. Text(Line(s), s.length) /\ s.length \in Nat
  BY EditorFields DEF Lines
<1>7. m <= s.length
  <2>1. str_length(Line(s)) = s.length /\ str_length(old) = m
    BY <1>5, <1>6, LengthIs
  <2>2. ~(str_length(Line(s)) < str_length(Entry(s, last)))
    BY <1>3 DEF Overwrites, Full
  <2> QED BY <1>5, <1>6, <2>1, <2>2 DEF Entry
<1>8. Text(new, s.length) /\ String(new) = String(Line(s)) /\ str_length(new) = s.length
  BY <1>5, <1>6, <1>7, CopyText, LengthIs
<1>9. new \in Buf
  BY <1>8 DEF Text
<1> HIDE DEF new
<1>10. heap \in Partial
  <2>1. heap \in [DOMAIN s.heap -> Buf]
    BY <1>4, <1>9
  <2> QED BY <1>4, <2>1 DEF Partial
<1>11. t = [s EXCEPT !.heap = heap, !.history_length = last + 1, !.history_pos = last + 1]
  BY <1>2 DEF Kept, Editors, new
<1>12. /\ DOMAIN heap = DOMAIN s.heap /\ heap[end] = new
       /\ \A b \in DOMAIN s.heap : b # end => heap[b] = s.heap[b]
  BY <1>4
<1> HIDE DEF heap, t
<1>13. /\ t \in Editors(X, Y) /\ t.heap = heap /\ t.history = s.history
       /\ t.blank_command = s.blank_command
       /\ t.history_length = last + 1 /\ t.history_pos = last + 1
  <2> DEFINE next == last + 1
  <2>1. next \in Nat
    BY <1>3
  <2>2. t = [s EXCEPT !.heap = heap, !.history_length = next, !.history_pos = next]
    BY <1>11
  <2> HIDE DEF next
  <2>3. /\ t \in Editors(X, Y) /\ t.heap = heap /\ t.history = s.history
        /\ t.blank_command = s.blank_command
        /\ t.history_length = next /\ t.history_pos = next
    BY <1>2, <1>10, <2>1, <2>2 DEF Editors
  <2> QED BY <2>3 DEF next
<1>14. Editor(t)
  BY <1>13, Zenon DEF Editor
<1>15. 0..(t.history_length - 1) = 0..last
  BY <1>3, <1>13
<1>16. String(Entry(t, last)) = String(Line(s))
  BY <1>8, <1>12, <1>13 DEF Entry
<1>17. ASSUME NEW k \in 0..last PROVE String(Entry(t, k)) = Remembered(s, k)
  <2>1. CASE k = last
    <3>1. Remembered(s, k) = String(Line(s))
      BY <2>1 DEF Remembered, Line
    <3> QED BY <1>16, <2>1, <3>1
  <2>2. CASE k # last
    <3>1. last \in 0..last
      BY <1>3
    <3>2. s.history[k] # end /\ s.history[k] \in DOMAIN s.heap
      BY <1>4, <2>2, <3>1
    <3>3. Entry(t, k) = Entry(s, k)
      BY <1>12, <1>13, <3>2 DEF Entry
    <3> QED BY <2>2, <3>3 DEF Remembered
  <2> QED BY <2>1, <2>2
<1>18. Gone(s, 1) = 0
  BY <1>3 DEF Gone
<1>19. ASSUME NEW b \in DOMAIN heap
       PROVE  /\ \E n \in Nat : Text(heap[b], n)
              /\ \A i \in Places : i <= str_length(heap[b]) => s.blank_command[i] = SP
  <2>1. CASE b # end
    BY <1>12, <2>1 DEF Lines, Blanks, Reached
  <2>2. CASE b = end
    <3>1. s.history[s.history_pos] \in DOMAIN s.heap
      BY <1>4
    <3>2. str_length(s.heap[s.history[s.history_pos]]) = s.length
      BY <1>6, LengthIs DEF Line, Entry
    <3> QED BY <1>6, <1>8, <1>12, <2>2, <3>1, <3>2 DEF Blanks, Reached
  <2> QED BY <2>1, <2>2
<1>20. t.history_length \in 1..(HISTORY_SIZE - 1)
  BY <1>3, <1>13
<1>21. Passed(t, s, 1)
  <2>1. t.history_length = s.history_length + 1 - Gone(s, 1)
    BY <1>3, <1>13, <1>18
  <2>2. \A k \in Gone(s, 1)..s.history_length : k - Gone(s, 1) = k /\ k \in 0..last
    BY <1>3, <1>18
  <2> HIDE DEF last
  <2>3. \A k \in Gone(s, 1)..s.history_length :
          String(Entry(t, k - Gone(s, 1))) = Remembered(s, k)
    BY <1>17, <2>2
  <2> QED BY <2>1, <2>3 DEF Passed
<1> HIDE DEF last, end
<1>22. \A k, l \in 0..(t.history_length - 1) : t.history[k] = t.history[l] => k = l
  BY <1>4, <1>13, <1>15
<1>23. DOMAIN t.heap = {t.history[k] : k \in 0..(t.history_length - 1)}
  <2>1. DOMAIN t.heap = {t.history[k] : k \in 0..last}
    BY <1>4, <1>12, <1>13
  <2> QED BY Zenon, <1>15, <2>1
<1>24. /\ \A b \in DOMAIN t.heap : \E n \in Nat : Text(t.heap[b], n)
       /\ \A b \in DOMAIN t.heap : \A i \in Places :
            i <= str_length(t.heap[b]) => t.blank_command[i] = SP
  BY <1>13, <1>19
<1>25. t.history_pos = t.history_length
  BY <1>13
<1>26. Between(t, s)
  BY <1>14, <1>20, <1>21, <1>22, <1>23, <1>24, <1>25, Zenon DEF Between
<1> QED BY <1>26 DEF t

\* As many buffers are in use as there are entries.
LEMMA CountEntries ==
  ASSUME NEW n \in Nat, NEW f, \A k, l \in 0..n : f[k] = f[l] => k = l
  PROVE  LET T == {f[k] : k \in 0..n} IN IsFiniteSet(T) /\ Cardinality(T) = n + 1
<1> DEFINE T == {f[k] : k \in 0..n}
           g == [k \in 0..n |-> f[k]]
<1>1. g \in [0..n -> T]
  OBVIOUS
<1>2. \A k, l \in 0..n : g[k] = g[l] => k = l
  OBVIOUS
<1>3. \A x \in T : \E k \in 0..n : g[k] = x
  OBVIOUS
<1> HIDE DEF T, g
<1>4. ExistsBijection(0..n, T)
  BY <1>1, <1>2, <1>3, Fun_IsBij, Fun_ExistsBij
<1>5. IsFiniteSet(0..n) /\ Cardinality(0..n) = n + 1
  BY FS_Interval
<1> QED BY <1>4, <1>5, FS_Bijection DEF T

\* Between prompts there is a buffer that is free.
LEMMA BufferLeft ==
  ASSUME NEW t, NEW s, Between(t, s)
  PROVE  LET new == Min(Buffers \ DOMAIN t.heap)
         IN  new \in Buffers /\ new \notin DOMAIN t.heap
<1> DEFINE free == Buffers \ DOMAIN t.heap
           n == t.history_length - 1
<1>1. HISTORY_SIZE \in Nat /\ n \in Nat /\ n + 1 <= HISTORY_SIZE - 1
  BY EditorAssumption DEF Between
<1>2. \A k, l \in 0..n : t.history[k] = t.history[l] => k = l
  BY DEF Between
<1>3. DOMAIN t.heap = {t.history[k] : k \in 0..n}
  BY DEF Between
<1> HIDE DEF n
<1>4. Cardinality(DOMAIN t.heap) = n + 1
  BY <1>1, <1>2, <1>3, CountEntries
<1>5. Cardinality(Buffers) = HISTORY_SIZE + 1
  <2>1. Cardinality(1..(HISTORY_SIZE + 1)) = HISTORY_SIZE + 1
    BY <1>1, FS_Interval
  <2> QED BY <2>1 DEF Buffers
<1>6. DOMAIN t.heap # Buffers
  BY <1>1, <1>4, <1>5
<1>7. DOMAIN t.heap \subseteq Buffers
  BY EditorFields DEF Between
<1>8. free # {} /\ free \subseteq Nat
  <2>1. Buffers \subseteq Nat
    BY <1>1 DEF Buffers
  <2> QED BY <1>6, <1>7, <2>1
<1> HIDE DEF free
<1>9. Min(free) \in free
  BY <1>8, MinIsLeast
<1> QED BY <1>9 DEF free

\* g is t with a new empty line.
Fresh(g, t, new) ==
  /\ Editor(g)
  /\ g.blank_command = t.blank_command
  /\ g.pos = 0 /\ g.length = 0 /\ g.max_length = 0
  /\ g.history = [t.history EXCEPT ![t.history_pos] = new]
  /\ g.history_length = t.history_length /\ g.history_pos = t.history_pos
  /\ g.heap = [b \in DOMAIN t.heap \cup {new} |-> IF b = new THEN EMPTY ELSE t.heap[b]]

\* The fields that a new line changes.
LEMMA StartedFresh ==
  ASSUME NEW t, NEW s, Between(t, s)
  PROVE  Fresh(Started(NewLine(t)), t, Min(Buffers \ DOMAIN t.heap))
<1> DEFINE new == Min(Buffers \ DOMAIN t.heap)
           heap == [b \in DOMAIN t.heap \cup {new} |-> IF b = new THEN EMPTY ELSE t.heap[b]]
           history == [t.history EXCEPT ![t.history_pos] = new]
           r == NewLine(t)
           g == Started(r)
<1>1. PICK X : \E Y : t \in Editors(X, Y)
  BY DEF Between, Editor
<1>2. PICK Y : t \in Editors(X, Y)
  BY <1>1
<1>3. new \in Buffers
  BY BufferLeft
<1>4. r = [t EXCEPT !.heap = heap, !.history = history]
  BY <1>2 DEF NewLine, Editors
<1> HIDE DEF new
<1>5. heap \in Partial
  <2>1. t.heap \in [DOMAIN t.heap -> Buf] /\ DOMAIN t.heap \subseteq Buffers
    BY EditorFields DEF Between
  <2>2. EMPTY \in Buf
    BY EmptyText DEF Text
  <2>3. heap \in [DOMAIN t.heap \cup {new} -> Buf]
    BY <2>1, <2>2
  <2> QED BY <1>3, <2>1, <2>3 DEF Partial
<1>6. history \in [0..(HISTORY_SIZE - 1) -> 0..(HISTORY_SIZE + 1)]
  <2>1. t.history \in [0..(HISTORY_SIZE - 1) -> 0..(HISTORY_SIZE + 1)]
    BY EditorFields DEF Between
  <2>2. new \in 0..(HISTORY_SIZE + 1)
    BY <1>3, EditorAssumption DEF Buffers
  <2> QED BY <2>1, <2>2
<1> HIDE DEF heap, history, r
<1>7. /\ r \in Editors(X, Y) /\ r.heap = heap /\ r.history = history
      /\ r.blank_command = t.blank_command
      /\ r.history_length = t.history_length /\ r.history_pos = t.history_pos
  BY <1>2, <1>4, <1>5, <1>6 DEF Editors
<1> DEFINE y == r.screen.cursor
<1>8. g = [r EXCEPT !.pos = 0, !.length = 0, !.max_length = 0, !.start_of_command = y]
  BY DEF Started
<1> HIDE DEF y, g
<1>9. /\ g \in Editors(X, Y \cup {y}) /\ g.heap = heap /\ g.history = history
      /\ g.pos = 0 /\ g.length = 0 /\ g.max_length = 0
      /\ g.blank_command = t.blank_command
      /\ g.history_length = t.history_length /\ g.history_pos = t.history_pos
  BY <1>7, <1>8 DEF Editors
<1>10. Editor(g)
  BY <1>9, Zenon DEF Editor
<1>11. Fresh(g, t, new)
  BY <1>9, <1>10 DEF Fresh, heap, history
<1> QED BY <1>11 DEF g, r, new

\* The new line is empty, and the entries before it stay.
LEMMA NewLineSound ==
  ASSUME NEW t, NEW s, Between(t, s)
  PROVE  LET g == Started(NewLine(t))
         IN  /\ Lines(g) /\ Blanks(g)
             /\ g.history_length = t.history_length
             /\ g.history_pos = g.history_length
             /\ \A j \in 0..(t.history_length - 1) : Entry(g, j) = Entry(t, j)
<1> DEFINE new == Min(Buffers \ DOMAIN t.heap)
           g == Started(NewLine(t))
           last == t.history_length
<1>1. Fresh(g, t, new)
  BY StartedFresh
<1>2. new \notin DOMAIN t.heap
  BY BufferLeft
<1>3. /\ last \in Nat /\ last >= 1 /\ last <= HISTORY_SIZE - 1 /\ HISTORY_SIZE \in Nat
      /\ t.history_pos = last
  BY EditorAssumption DEF Between
<1>4. t.history \in [0..(HISTORY_SIZE - 1) -> 0..(HISTORY_SIZE + 1)]
  BY EditorFields DEF Between
<1>5. /\ \A k, l \in 0..(last - 1) : t.history[k] = t.history[l] => k = l
      /\ DOMAIN t.heap = {t.history[k] : k \in 0..(last - 1)}
      /\ \A b \in DOMAIN t.heap : \E n \in Nat : Text(t.heap[b], n)
  BY DEF Between
<1> HIDE DEF new, g, last
<1>6. g.history_length = last /\ g.history_pos = last
  BY <1>1, <1>3 DEF Fresh, last
<1>7. /\ g.history[last] = new
      /\ \A k \in 0..(last - 1) : g.history[k] = t.history[k] /\ t.history[k] \in DOMAIN t.heap
  <2>1. last \in 0..(HISTORY_SIZE - 1)
    BY <1>3
  <2>2. g.history = [t.history EXCEPT ![last] = new]
    BY <1>1, <1>3 DEF Fresh
  <2>3. g.history[last] = new
    BY <1>4, <2>1, <2>2
  <2>4. ASSUME NEW k \in 0..(last - 1)
        PROVE  g.history[k] = t.history[k] /\ t.history[k] \in DOMAIN t.heap
    <3>1. k # last /\ k \in 0..(HISTORY_SIZE - 1)
      BY <1>3
    <3> QED BY <1>4, <1>5, <2>2, <3>1
  <2> QED BY <2>3, <2>4
<1>8. /\ DOMAIN g.heap = DOMAIN t.heap \cup {new} /\ g.heap[new] = EMPTY
      /\ \A b \in DOMAIN t.heap : g.heap[b] = t.heap[b]
  BY <1>1, <1>2 DEF Fresh
<1>9. \A k \in 0..last : k = last \/ k \in 0..(last - 1)
  BY <1>3
<1>10. ASSUME NEW k \in 0..last, NEW l \in 0..last, g.history[k] = g.history[l] PROVE k = l
  BY <1>2, <1>5, <1>7, <1>9, <1>10
<1>11. DOMAIN g.heap = {g.history[k] : k \in 0..last}
  <2>1. ASSUME NEW b \in DOMAIN g.heap PROVE \E k \in 0..last : b = g.history[k]
    <3>1. CASE b = new
      BY <1>3, <1>7, <3>1
    <3>2. CASE b \in DOMAIN t.heap
      <4>1. PICK k \in 0..(last - 1) : b = t.history[k]
        BY <1>5, <3>2
      <4>2. k \in 0..last
        BY <1>3
      <4> QED BY <1>7, <4>1, <4>2
    <3> QED BY <1>8, <3>1, <3>2
  <2>2. ASSUME NEW k \in 0..last PROVE g.history[k] \in DOMAIN g.heap
    BY <1>7, <1>8, <1>9
  <2> QED BY <2>1, <2>2
<1>12. \A b \in DOMAIN g.heap : \E n \in Nat : Text(g.heap[b], n)
  <2>1. 0 \in Nat
    OBVIOUS
  <2> QED BY <1>5, <1>8, <2>1, EmptyText
<1>13. Text(Line(g), g.length)
  BY <1>1, <1>6, <1>7, <1>8, EmptyText DEF Line, Entry, Fresh
<1>14. Lines(g)
  <2>1. Editor(g) /\ g.pos <= g.length /\ g.length <= g.max_length /\ g.max_length \in Places
    BY <1>1, PlacesAre DEF Fresh
  <2>2. g.history_length \in 0..(HISTORY_SIZE - 1) /\ g.history_pos \in 0..g.history_length
    BY <1>3, <1>6
  <2>3. \A k, l \in 0..g.history_length : g.history[k] = g.history[l] => k = l
    BY <1>6, <1>10
  <2>4. DOMAIN g.heap = {g.history[k] : k \in 0..g.history_length}
    BY <1>6, <1>11
  <2> QED BY <1>12, <1>13, <2>1, <2>2, <2>3, <2>4, Zenon DEF Lines
<1>15. \A b \in DOMAIN t.heap : \A i \in Places :
         i <= str_length(t.heap[b]) => t.blank_command[i] = SP
  BY DEF Between
<1>16. t.blank_command[0] = SP
  <2>1. 0 \in 0..(last - 1) /\ 0 \in Places
    BY <1>3, PlacesAre
  <2>2. t.history[0] \in DOMAIN t.heap
    BY <1>7, <2>1
  <2>3. PICK n \in Nat : Text(t.heap[t.history[0]], n)
    BY <1>5, <2>2
  <2>4. 0 <= str_length(t.heap[t.history[0]])
    BY <2>3, LengthIs
  <2> QED BY <1>15, <2>1, <2>2, <2>4
<1>17. ASSUME NEW i \in Places, Reached(g, i) PROVE g.blank_command[i] = SP
  <2>0. i \in Nat /\ g.blank_command = t.blank_command /\ g.max_length = 0
    BY <1>1, PlacesAre DEF Fresh
  <2>1. CASE i <= 0
    BY <1>16, <2>0, <2>1
  <2>2. ASSUME NEW b \in DOMAIN g.heap, i <= str_length(g.heap[b]) PROVE g.blank_command[i] = SP
    <3>1. CASE b = new
      <4>1. str_length(g.heap[b]) = 0
        BY <1>8, <3>1, EmptyText, LengthIs
      <4> QED BY <2>1, <2>2, <4>1
    <3>2. CASE b \in DOMAIN t.heap
      BY <1>8, <1>15, <2>0, <2>2, <3>2
    <3> QED BY <1>8, <3>1, <3>2
  <2> QED BY <1>17, <2>0, <2>1, <2>2 DEF Reached
<1>18. Blanks(g)
  BY <1>17 DEF Blanks
<1>19. ASSUME NEW j \in 0..(last - 1) PROVE Entry(g, j) = Entry(t, j)
  BY <1>7, <1>8 DEF Entry
<1> QED BY <1>6, <1>14, <1>18, <1>19 DEF g, last

\* The whole of finalize_command, after a line that leaves no tail behind.
LEMMA FinalizeSound ==
  ASSUME NEW s, Lines(s), Blanks(s), ~Overwrites(s), NEW prompt
  PROVE  LET g == finalize_command(s, prompt)
         IN  /\ Lines(g) /\ Blanks(g) /\ Passed(g, s, 1)
             /\ g.history_pos = g.history_length
<1> DEFINE p == Prompted(s, prompt)
           t == IF s.history_length = HISTORY_SIZE - 1 THEN Shifted(p) ELSE Kept(p)
           g == Started(NewLine(t))
<1>1. Alike(p, s)
  <2>1. PICK X : \E Y : s \in Editors(X, Y)
    BY DEF Lines, Editor
  <2>2. PICK Y : s \in Editors(X, Y)
    BY <2>1
  <2> DEFINE x == write_string(s.screen, prompt)
  <2>3. p = [s EXCEPT !.screen = x]
    BY <2>2 DEF Prompted, Editors
  <2> HIDE DEF x
  <2>4. Editor(s)
    BY DEF Lines
  <2> QED BY Zenon, <2>3, <2>4, Redrawn
<1> HIDE DEF p
<1>2. Lines(p) /\ Blanks(p)
  BY <1>1, AlikeSound
<1>3. ~Overwrites(p) /\ (Full(p) <=> Full(s))
  BY <1>1 DEF Alike, Overwrites, Full, Line, Entry
<1>4. Between(t, p)
  <2>1. CASE Full(s)
    BY <1>2, <1>3, <2>1, ShiftedBetween DEF Full
  <2>2. CASE ~Full(s)
    BY <1>2, <1>3, <2>2, KeptBetween DEF Full
  <2> QED BY <2>1, <2>2
<1> HIDE DEF t
<1>5. /\ Lines(g) /\ Blanks(g)
      /\ g.history_length = t.history_length /\ g.history_pos = g.history_length
      /\ \A j \in 0..(t.history_length - 1) : Entry(g, j) = Entry(t, j)
  BY <1>4, NewLineSound
<1> HIDE DEF g
<1>6. Passed(g, p, 1)
  <2> DEFINE gone == Gone(p, 1)
             last == p.history_length
  <2>1. gone \in Nat /\ last \in Nat /\ t.history_length = last + 1 - gone
    <3>1. last \in 0..(HISTORY_SIZE - 1) /\ HISTORY_SIZE \in Nat
      BY <1>2, EditorAssumption DEF Lines
    <3> QED BY <1>4, <3>1 DEF Between, Passed, Gone
  <2>2. \A k \in gone..last : String(Entry(t, k - gone)) = Remembered(p, k)
    BY <1>4 DEF Between, Passed
  <2> HIDE DEF gone, last
  <2>3. \A k \in gone..last : k - gone \in 0..(t.history_length - 1)
    BY <2>1
  <2>4. \A k \in gone..last : String(Entry(g, k - gone)) = Remembered(p, k)
    BY <1>5, <2>2, <2>3
  <2> QED BY <1>5, <2>1, <2>4 DEF Passed, gone, last
<1>7. Passed(g, s, 1)
  BY <1>1, <1>6 DEF Passed, Gone, Remembered, Alike, Full, Entry
<1>8. finalize_command(s, prompt) = g
  BY DEF finalize_command, g, t, p
<1> QED BY <1>5, <1>7, <1>8

\* A string without backspaces.
Quiet(cs) == Len(cs) \in Nat /\ \A i \in 1..Len(cs) : cs[i] # BS

\* The new line begins behind its prompt.
LEMMA FinalizeView ==
  ASSUME NEW s, Lines(s), Blanks(s), ~Overwrites(s), NEW prompt, Quiet(prompt),
         OnScreen(s.screen)
  PROVE  LET g == finalize_command(s, prompt) IN View(g) /\ Shows(g)
<1> DEFINE x == write_string(s.screen, prompt)
           p == Prompted(s, prompt)
           t == IF s.history_length = HISTORY_SIZE - 1 THEN Shifted(p) ELSE Kept(p)
           r == NewLine(t)
           g == Started(r)
<1>1. PICK X : \E Y : s \in Editors(X, Y)
  BY DEF Lines, Editor
<1>2. PICK Y : s \in Editors(X, Y)
  BY <1>1
<1>3. OnScreen(x)
  BY KeepsOn DEF Quiet
<1>4. p = [s EXCEPT !.screen = x]
  BY <1>2 DEF Prompted, Editors
<1> HIDE DEF x, p
<1>5. p.screen = x /\ {"screen", "start_of_command", "pos", "length", "max_length"} \subseteq DOMAIN p
  BY <1>2, <1>4 DEF Editors
<1>6. t.screen = x /\ {"screen", "start_of_command", "pos", "length", "max_length"} \subseteq DOMAIN t
  BY <1>5 DEF Shifted, Kept
<1> HIDE DEF t
<1>7. r.screen = x /\ {"screen", "start_of_command", "pos", "length", "max_length"} \subseteq DOMAIN r
  BY <1>6 DEF NewLine
<1> HIDE DEF r
<1>8. /\ g.screen = x /\ g.start_of_command = x.cursor
      /\ g.pos = 0 /\ g.length = 0 /\ g.max_length = 0
  BY <1>7 DEF Started
<1> HIDE DEF g
<1>9. x.cursor \in Nat /\ x.cursor < CELLS /\ CELLS \in Nat
  BY <1>3, ScreenFields, CellsAre
<1>10. View(g)
  BY <1>3, <1>8, <1>9 DEF View
<1>11. Shows(g)
  <2>1. 0..(0 - 1) = {}
    OBVIOUS
  <2> QED BY <1>8, <1>9, <2>1 DEF Shows
<1>12. finalize_command(s, prompt) = g
  BY DEF finalize_command, g, r, t, p
<1> QED BY <1>10, <1>11, <1>12

-----------------------------------------------------------------------------
\* Several prompts in a row (kill_family).

\* The editors between n calls of finalize_command.
Repeating(F, n, s, prompt) ==
  F = [i \in 0..n |-> IF i = 0 THEN s ELSE finalize_command(F[i - 1], prompt)]

LEMMA RepeatingExists ==
  ASSUME NEW n \in Nat, NEW s, NEW prompt
  PROVE  \E F : Repeating(F, n, s, prompt)
<1> DEFINE T == {r \in Nat : \E F : Repeating(F, r, s, prompt)}
<1>1. 0 \in T
  <2> DEFINE F == [i \in 0..0 |-> s]
  <2>1. F = [i \in 0..0 |-> IF i = 0 THEN s ELSE finalize_command(F[i - 1], prompt)]
    <3>1. \A i \in 0..0 : i = 0
      OBVIOUS
    <3>2. \A i \in 0..0 : s = IF i = 0 THEN s ELSE finalize_command(F[i - 1], prompt)
      BY <3>1
    <3> QED BY <3>2
  <2> QED BY <2>1 DEF Repeating
<1>2. ASSUME NEW r \in 1..n, r - 1 \in T PROVE r \in T
  <2> DEFINE p == r - 1
  <2>1. p \in Nat /\ r \in Nat /\ p + 1 = r
    OBVIOUS
  <2>2. PICK F : Repeating(F, p, s, prompt)
    BY <1>2
  <2> HIDE DEF p
  <2> DEFINE w(i) == IF i = 0 THEN s ELSE finalize_command(F[i - 1], prompt)
             G == [i \in 0..r |-> w(i)]
             x(i) == IF i = 0 THEN s ELSE finalize_command(G[i - 1], prompt)
  <2>3. ASSUME NEW i \in 0..p PROVE G[i] = F[i]
    <3>1. i \in 0..r
      BY <2>1
    <3>2. F = [j \in 0..p |-> w(j)]
      BY <2>2 DEF Repeating
    <3> HIDE DEF w
    <3> QED BY <3>1, <3>2
  <2>4. \A i \in 0..r : i # 0 => i - 1 \in 0..p
    BY <2>1
  <2>5. \A i \in 0..r : w(i) = x(i)
    <3> SUFFICES ASSUME NEW i \in 0..r PROVE w(i) = x(i)
      OBVIOUS
    <3>1. CASE i = 0
      BY <3>1
    <3>2. CASE i # 0
      <4>1. G[i - 1] = F[i - 1]
        BY <2>3, <2>4, <3>2
      <4> HIDE DEF G
      <4> QED BY <3>2, <4>1
    <3> QED BY <3>1, <3>2
  <2>6. G = [i \in 0..r |-> w(i)]
    OBVIOUS
  <2>7. G = [i \in 0..r |-> x(i)]
    <3> HIDE DEF G, w, x
    <3> QED BY <2>5, <2>6
  <2>8. Repeating(G, r, s, prompt)
    <3> HIDE DEF G, w
    <3> QED BY <2>7 DEF Repeating
  <2> QED BY <2>1, <2>8
<1>3. n \in T
  <2> HIDE DEF T
  <2> QED BY <1>1, <1>2, Climb
<1> QED BY <1>3

\* Finalizes calls finalize_command n times.
LEMMA RepeatFacts ==
  ASSUME NEW s, NEW prompt, NEW n \in Nat
  PROVE  \E F : /\ F[0] = s /\ Finalizes(s, prompt, n) = F[n]
                /\ \A i \in 1..n : F[i] = finalize_command(F[i - 1], prompt)
<1> DEFINE F == CHOOSE f : Repeating(f, n, s, prompt)
           v(i) == IF i = 0 THEN s ELSE finalize_command(F[i - 1], prompt)
<1>1. Repeating(F, n, s, prompt)
  BY Zenon, RepeatingExists
<1>2. Finalizes(s, prompt, n) = F[n]
  BY DEF Finalizes, Repeating
<1> HIDE DEF F
<1>3. F = [i \in 0..n |-> v(i)]
  BY <1>1 DEF Repeating
<1>4. \A i \in 0..n : F[i] = v(i)
  <2> HIDE DEF v
  <2> QED BY <1>3
<1>5. 0 \in 0..n /\ \A i \in 1..n : i \in 0..n /\ i # 0
  OBVIOUS
<1> QED BY <1>2, <1>4, <1>5

\* One more prompt pushes out one more entry if the history is full.
LEMMA PassedOn ==
  ASSUME NEW s, NEW g, NEW r, NEW n \in Nat \ {0}, Lines(s), Lines(g),
         Passed(g, s, n), Passed(r, g, 1), g.history_pos = g.history_length
  PROVE  Passed(r, s, n + 1)
<1> DEFINE top == HISTORY_SIZE - 1
           last == s.history_length
           more == g.history_length
           gone == Gone(s, n)
           one == Gone(g, 1)
<1>1. top \in Nat /\ last \in 0..top /\ more \in 0..top
  BY EditorAssumption DEF Lines
<1>2. gone = IF n > top - last THEN n - (top - last) ELSE 0
  BY DEF Gone
<1>3. one = IF 1 > top - more THEN 1 - (top - more) ELSE 0
  BY DEF Gone
<1>4. more = last + n - gone
  BY DEF Passed
<1>5. Gone(s, n + 1) = IF n + 1 > top - last THEN (n + 1) - (top - last) ELSE 0
  BY DEF Gone
<1>6. r.history_length = more + 1 - one
  BY DEF Passed
<1>7. \A k \in one..more : String(Entry(r, k - one)) = Remembered(g, k)
  BY DEF Passed
<1>8. \A k \in gone..last : String(Entry(g, k - gone)) = Remembered(s, k)
  BY DEF Passed
<1>9. \A k : k # more => Remembered(g, k) = String(Entry(g, k))
  BY DEF Remembered
<1>10. n \in Nat /\ n >= 1
  OBVIOUS
<1>11. Gone(s, n + 1) = gone + one /\ gone \in Nat /\ one \in Nat
  <2> HIDE DEF top, last, more, gone, one
  <2> QED BY <1>1, <1>2, <1>3, <1>4, <1>5, <1>10
<1> HIDE DEF top, last, more, gone, one
<1>12. ASSUME NEW k \in (gone + one)..last
       PROVE  String(Entry(r, k - (gone + one))) = Remembered(s, k)
  <2>1. /\ k \in gone..last /\ k - gone \in one..more /\ k - gone # more
        /\ k - gone - one = k - (gone + one)
    BY <1>1, <1>4, <1>10, <1>11
  <2> DEFINE j == k - gone
  <2>2. String(Entry(r, j - one)) = Remembered(g, j)
    BY <1>7, <2>1
  <2>3. Remembered(g, j) = Remembered(s, k)
    BY <1>8, <1>9, <2>1
  <2> QED BY <2>1, <2>2, <2>3
<1>13. r.history_length = last + (n + 1) - (gone + one)
  BY <1>1, <1>4, <1>6, <1>10, <1>11
<1> QED BY <1>11, <1>12, <1>13 DEF Passed, last

\* All that holds behind one new prompt holds behind n of them.
LEMMA FinalizesSound ==
  ASSUME NEW s, Lines(s), Blanks(s), ~Overwrites(s), NEW prompt, NEW n \in Nat \ {0}
  PROVE  LET g == Finalizes(s, prompt, n)
         IN  /\ Lines(g) /\ Blanks(g) /\ Passed(g, s, n)
             /\ Quiet(prompt) /\ OnScreen(s.screen) => View(g) /\ Shows(g)
<1> DEFINE Seen(g) == Quiet(prompt) /\ OnScreen(s.screen) => View(g) /\ Shows(g)
           Behind(g, k) == /\ Lines(g) /\ Blanks(g) /\ Passed(g, s, k)
                           /\ g.history_pos = g.history_length /\ Seen(g)
<1>1. PICK F : /\ F[0] = s /\ Finalizes(s, prompt, n) = F[n]
               /\ \A i \in 1..n : F[i] = finalize_command(F[i - 1], prompt)
  BY RepeatFacts
<1> DEFINE T == {k \in Nat : k # 0 => Behind(F[k], k)}
<1>2. 0 \in T
  OBVIOUS
<1>3. ASSUME NEW k \in 1..n, k - 1 \in T PROVE k \in T
  <2> DEFINE g == F[k - 1]
  <2>1. k \in Nat /\ k - 1 \in Nat /\ k = k - 1 + 1
    OBVIOUS
  <2>2. F[k] = finalize_command(g, prompt)
    BY <1>1
  <2>3. CASE k = 1
    <3>1. g = s
      BY <1>1, <2>3
    <3>2. Lines(F[k]) /\ Blanks(F[k]) /\ Passed(F[k], s, 1)
          /\ F[k].history_pos = F[k].history_length
      BY <2>2, <3>1, FinalizeSound
    <3>3. Seen(F[k])
      BY <2>2, <3>1, FinalizeView
    <3> HIDE DEF Seen
    <3> QED BY <2>1, <2>3, <3>2, <3>3
  <2>4. CASE k # 1
    <3> DEFINE m == k - 1
    <3>1. m \in Nat \ {0} /\ m + 1 = k /\ k # 0
      BY <2>1, <2>4
    <3>2. Behind(g, m)
      BY <1>3, <3>1
    <3> HIDE DEF g, m, T
    <3>3. ~Overwrites(g)
      <4>1. g.length \in Nat /\ Text(Line(g), g.length)
        BY <3>2, EditorFields DEF Lines
      <4>2. str_length(Line(g)) = g.length
        BY <4>1, LengthIs
      <4> QED BY <3>2, <4>1, <4>2 DEF Overwrites, Line
    <3>4. Lines(F[k]) /\ Blanks(F[k]) /\ Passed(F[k], g, 1)
          /\ F[k].history_pos = F[k].history_length
      BY <2>2, <3>2, <3>3, FinalizeSound
    <3>5. Seen(F[k])
      <4> SUFFICES ASSUME Quiet(prompt), OnScreen(s.screen)
                   PROVE  View(F[k]) /\ Shows(F[k])
        OBVIOUS
      <4>1. OnScreen(g.screen)
        BY <3>2 DEF View
      <4> QED BY <2>2, <3>2, <3>3, <4>1, FinalizeView
    <3>6. Passed(F[k], s, k)
      BY <3>1, <3>2, <3>4, PassedOn
    <3> HIDE DEF Seen
    <3>7. Behind(F[k], k)
      BY <3>4, <3>5, <3>6
    <3> HIDE DEF Behind
    <3> QED BY <2>1, <3>7 DEF T
  <2> QED BY <2>3, <2>4
<1>4. n \in T
  <2> HIDE DEF T
  <2> QED BY <1>2, <1>3, Climb
<1> HIDE DEF Behind
<1>5. Behind(F[n], n)
  BY <1>4
<1> QED BY <1>1, <1>5 DEF Behind

-----------------------------------------------------------------------------
\* The specification.

\* What every step preserves.
IInv == Lines(sh) /\ Blanks(sh) /\ prompts \in Nat

\* shell_install: one buffer, an empty line and a single blank.
LEMMA InitInv == Init => IInv
<1> SUFFICES ASSUME Init PROVE IInv
  OBVIOUS
<1> DEFINE x == write_string(write_string(clear(Blank), SPLASH), path)
           blank == [i \in Places |-> IF i = 0 THEN SP ELSE NUL]
           history == [k \in 0..(HISTORY_SIZE - 1) |-> IF k = 0 THEN 1 ELSE 0]
           heap == [b \in {1} |-> EMPTY]
<1>1. sh = Installed(x)
  BY DEF Init
<1> HIDE DEF x
<1> DEFINE y == x.cursor
<1>2. sh = [screen |-> x, blank_command |-> blank, pos |-> 0, length |-> 0,
            max_length |-> 0, start_of_command |-> y, history |-> history,
            history_length |-> 0, history_pos |-> 0, heap |-> heap]
  BY <1>1 DEF Installed
<1> HIDE DEF y
<1>3. HISTORY_SIZE \in Nat /\ HISTORY_SIZE >= 2 /\ 0 \in 0..(HISTORY_SIZE - 1)
  BY EditorAssumption
<1>4. blank \in Buf /\ blank[0] = SP
  BY PlacesAre DEF Buf, Chr
<1>5. history \in [0..(HISTORY_SIZE - 1) -> 0..(HISTORY_SIZE + 1)] /\ history[0] = 1
  BY <1>3
<1>6. heap \in Partial /\ DOMAIN heap = {1} /\ heap[1] = EMPTY
  <2>1. EMPTY \in Buf
    BY EmptyText DEF Text
  <2>2. {1} \in SUBSET Buffers
    BY <1>3 DEF Buffers
  <2>3. heap \in [{1} -> Buf]
    BY <2>1
  <2> QED BY <2>2, <2>3 DEF Partial
<1> HIDE DEF blank, history, heap
<1>7. /\ sh \in Editors({x}, {y}) /\ sh.blank_command = blank /\ sh.history = history
      /\ sh.pos = 0 /\ sh.length = 0 /\ sh.max_length = 0
      /\ sh.history_length = 0 /\ sh.history_pos = 0 /\ sh.heap = heap
  BY <1>2, <1>4, <1>5, <1>6 DEF Editors
<1>8. Editor(sh)
  BY <1>7, Zenon DEF Editor
<1>9. 0..0 = {0}
  OBVIOUS
<1>10. Line(sh) = EMPTY
  BY <1>5, <1>6, <1>7 DEF Line, Entry
<1>11. Lines(sh)
  <2>1. DOMAIN sh.heap = {sh.history[k] : k \in 0..sh.history_length}
    BY <1>5, <1>6, <1>7, <1>9
  <2>2. \A b \in DOMAIN sh.heap : \E n \in Nat : Text(sh.heap[b], n)
    BY <1>6, <1>7, EmptyText
  <2>3. \A k, l \in 0..sh.history_length : sh.history[k] = sh.history[l] => k = l
    BY <1>7, <1>9
  <2>4. Text(Line(sh), sh.length)
    BY <1>7, <1>10, EmptyText
  <2>5. /\ sh.history_length \in 0..(HISTORY_SIZE - 1)
        /\ sh.history_pos \in 0..sh.history_length
        /\ sh.pos <= sh.length /\ sh.length <= sh.max_length /\ sh.max_length \in Places
    BY <1>3, <1>7, <1>9, PlacesAre
  <2> QED BY <1>8, <2>1, <2>2, <2>3, <2>4, <2>5, Zenon DEF Lines
<1>12. ASSUME NEW i \in Places, Reached(sh, i) PROVE sh.blank_command[i] = SP
  <2>1. str_length(EMPTY) = 0
    BY EmptyText, LengthIs
  <2>2. i <= 0
    BY <1>6, <1>7, <1>12, <2>1 DEF Reached
  <2>3. i = 0
    BY <2>2, PlacesAre
  <2> QED BY <1>4, <1>7, <2>3
<1>13. prompts \in Nat
  BY DEF Init
<1> QED BY <1>11, <1>12, <1>13 DEF IInv, Blanks

\* Whoever writes to the screen leaves the editor alone.
LEMMA ScreenStep ==
  ASSUME IInv, NEW s, Alike(s, sh), sh' = s, prompts' = prompts
  PROVE  IInv'
<1>1. Lines(s) /\ Blanks(s)
  BY AlikeSound DEF IInv
<1>2. Lines(sh') /\ Blanks(sh')
  BY <1>1
<1> QED BY <1>2 DEF IInv

\* New prompts, for a line that agrees with the present one.
LEMMA FinalizedStep ==
  ASSUME Careful, IInv, NEW s, Alike(s, sh), NEW prompt,
         NEW n \in Nat \ {0}, Reprompted(s, prompt, n)
  PROVE  /\ IInv' /\ EntriesKept
         /\ Quiet(prompt) /\ OnScreen(s.screen) => View(sh') /\ Shows(sh')
<1> DEFINE g == Finalizes(s, prompt, n)
<1>1. Lines(s) /\ Blanks(s)
  BY AlikeSound DEF IInv
<1>2. ~Overwrites(s) /\ sh' = g /\ prompts' = prompts + n
  BY DEF Reprompted
<1>3. /\ Lines(g) /\ Blanks(g) /\ Passed(g, s, n)
      /\ Quiet(prompt) /\ OnScreen(s.screen) => View(g) /\ Shows(g)
  BY <1>1, <1>2, FinalizesSound
<1> HIDE DEF g
<1>4. IInv'
  <2>1. Lines(sh') /\ Blanks(sh')
    BY <1>2, <1>3
  <2>2. prompts' \in Nat
    BY <1>2 DEF IInv
  <2> QED BY <2>1, <2>2 DEF IInv
<1>5. Passed(sh', s, n)
  BY <1>2, <1>3
<1>6. Passed(sh', sh, n)
  BY <1>5 DEF Passed, Gone, Remembered, Alike, Full, Entry
<1>7. EntriesKept
  <2>1. prompts' - prompts = n
    BY <1>2 DEF IInv
  <2>2. HISTORY_SIZE \in Nat /\ sh.history_length \in 0..(HISTORY_SIZE - 1)
    BY EditorAssumption DEF IInv, Lines
  <2>3. HISTORY_SIZE - 1 - sh.history_length = 0 <=> Full(sh)
    BY <2>2 DEF Full
  <2> QED BY <1>6, <2>1, <2>3 DEF EntriesKept, Passed, Gone, Remembered
<1>8. Quiet(prompt) /\ OnScreen(s.screen) => View(sh') /\ Shows(sh')
  BY <1>2, <1>3
<1> QED BY <1>4, <1>7, <1>8

\* Programs print no backspaces, and commands only behind a character that
\* makes room for them.
Orderly ==
  /\ BS \notin Prints
  /\ \A out \in Outputs : Len(out) \in Nat /\
       \A i \in 2..Len(out) : out[i] = BS => Advances(out[i - 1])

\* What every step preserves of the screen.
SInv ==
  /\ path \in Prompts /\ View(sh)
  /\ shown => Shows(sh) /\ run_pid = 0

\* What a step owes: the invariants, and the entries behind a new prompt.
Good ==
  /\ IInv'
  /\ prompts' # prompts => EntriesKept
  /\ Orderly /\ SInv => SInv'

\* The strings of the shell itself.
LEMMA ShellQuiet ==
  Quiet(SPLASH) /\ Quiet(INTERRUPTED) /\ \A p \in Prompts : Quiet(p)
BY TextAssumption DEF Quiet

\* A key that leaves the editor as s.
LEMMA KeyStep ==
  ASSUME IInv, NEW s, Lines(s), Blanks(s), Key(s),
         View(sh) /\ (shown => Shows(sh)) => View(s) /\ (shown => Shows(s))
  PROVE  Good
<1>1. prompts' = prompts /\ IInv'
  BY DEF Key, IInv
<1>2. ASSUME SInv PROVE SInv'
  <2>1. View(s) /\ (shown => Shows(s))
    BY <1>2 DEF SInv
  <2>2. sh' = s /\ path' = path /\ run_pid' = run_pid /\ shown' = shown
    BY DEF Key
  <2>3. View(sh') /\ (shown => Shows(sh'))
    BY <2>1, <2>2
  <2> QED BY <1>2, <2>2, <2>3 DEF SInv
<1> QED BY <1>1, <1>2 DEF Good

\* Characters: typed, or ignored by a full line.
LEMMA TypeStep ==
  ASSUME IInv, NEW c \in Chars, Type(c)
  PROVE  Good
<1> DEFINE g == echo_command(IF sh.length < BUFFER_SIZE - 1
                             THEN Fit(update_max_length(Inserted(sh, c))) ELSE sh)
<1>1. Key(g)
  BY DEF Type
<1>2. /\ Lines(g) /\ Blanks(g) /\ g.history = sh.history
      /\ View(sh) => View(g) /\ Shows(g)
  <2>1. CASE sh.length < BUFFER_SIZE - 1
    BY <2>1, Typed DEF IInv
  <2>2. CASE ~(sh.length < BUFFER_SIZE - 1)
    <3>1. Lines(sh) /\ BlanksBut(sh)
      BY DEF IInv, Blanks, BlanksBut
    <3>2. Lines(echo_command(sh)) /\ Blanks(echo_command(sh))
      BY <3>1, EchoSound
    <3>3. echo_command(sh).history = sh.history
      BY <3>1, EchoFacts DEF Lines, Blanked
    <3> QED BY <2>2, <3>1, <3>2, <3>3, EchoShows
  <2> QED BY <2>1, <2>2
<1> HIDE DEF g
<1> QED BY <1>1, <1>2, KeyStep

\* The numbers of the editor.
LEMMA Numbers ==
  ASSUME IInv
  PROVE  /\ sh.pos \in Nat /\ sh.length \in Nat /\ sh.pos <= sh.length
         /\ sh.history_pos \in Nat /\ sh.history_length \in Nat
         /\ sh.history_pos <= sh.history_length
         /\ Editor(sh) /\ Text(Line(sh), sh.length)
BY EditorFields DEF IInv, Lines

\* Deletion before and at the cursor.
LEMMA DeleteSteps ==
  ASSUME IInv, Backspace \/ Delete
  PROVE  Good
<1>1. CASE Backspace
  <2> DEFINE p == sh.pos - 1
             t == [sh EXCEPT !.pos = p]
             g == echo_command(Deleted(t))
  <2>1. p \in Nat /\ p <= sh.length
    BY <1>1, Numbers DEF Backspace
  <2>2. Key(g)
    <3>1. PICK X : \E Y : sh \in Editors(X, Y)
      BY Numbers DEF Editor
    <3>2. PICK Y : sh \in Editors(X, Y)
      BY <3>1
    <3>3. [sh EXCEPT !.pos = @ - 1] = t
      BY <3>2 DEF Editors
    <3> HIDE DEF t
    <3> QED BY <1>1, <3>3 DEF Backspace, Edit
  <2> HIDE DEF p
  <2>3. Lines(t) /\ Blanks(t) /\ t.history = sh.history /\ (View(sh) => View(t))
    BY <2>1, Moved DEF IInv
  <2> HIDE DEF t
  <2>4. /\ Lines(g) /\ Blanks(g) /\ g.history = t.history
        /\ View(t) => View(g) /\ Shows(g)
    BY <2>3, DeletedSound
  <2> HIDE DEF g
  <2> QED BY <2>2, <2>3, <2>4, KeyStep
<1>2. CASE Delete
  <2> DEFINE g == echo_command(Deleted(sh))
  <2>1. Key(g)
    BY <1>2 DEF Delete, Edit
  <2>2. /\ Lines(g) /\ Blanks(g) /\ g.history = sh.history
        /\ View(sh) => View(g) /\ Shows(g)
    BY DeletedSound DEF IInv
  <2> HIDE DEF g
  <2> QED BY <2>1, <2>2, KeyStep
<1> QED BY <1>1, <1>2

\* The keys that move the cursor keep it inside the line.
LEMMA MoveSteps ==
  ASSUME IInv, shell_home \/ shell_end \/ shell_left \/ shell_right
  PROVE  Good
<1>1. PICK X : \E Y : sh \in Editors(X, Y)
  BY Numbers DEF Editor
<1>2. PICK Y : sh \in Editors(X, Y)
  BY <1>1
<1>3. \E p \in Nat : p <= sh.length /\ Key(set_pos([sh EXCEPT !.pos = p]))
  <2>1. CASE shell_home
    <3>1. 0 \in Nat /\ 0 <= sh.length
      BY Numbers
    <3> QED BY <2>1, <3>1 DEF shell_home, Edit
  <2>2. CASE shell_end
    <3>1. sh.length \in Nat /\ sh.length <= sh.length
      BY Numbers
    <3> QED BY <2>2, <3>1 DEF shell_end, Edit
  <2>3. CASE shell_left
    <3> DEFINE p == IF sh.pos > 0 THEN sh.pos - 1 ELSE sh.pos
    <3>1. p \in Nat /\ p <= sh.length
      BY Numbers
    <3>2. [sh EXCEPT !.pos = IF @ > 0 THEN @ - 1 ELSE @] = [sh EXCEPT !.pos = p]
      BY <1>2 DEF Editors
    <3>3. Key(set_pos([sh EXCEPT !.pos = p]))
      BY Zenon, <2>3, <3>2 DEF shell_left, Edit
    <3> HIDE DEF p
    <3> QED BY <3>1, <3>3
  <2>4. CASE shell_right
    <3> DEFINE p == IF sh.pos < BUFFER_SIZE - 1 /\ Line(sh)[sh.pos] # NUL
                    THEN sh.pos + 1 ELSE sh.pos
    <3>1. p \in Nat /\ p <= sh.length
      <4>1. sh.pos < BUFFER_SIZE - 1 => sh.pos \in Places
        BY Numbers, PlacesAre
      <4>2. sh.pos < BUFFER_SIZE - 1 /\ Line(sh)[sh.pos] # NUL => ~(sh.pos >= sh.length)
        BY <4>1, Numbers DEF Text
      <4> QED BY <4>2, Numbers
    <3>2. [sh EXCEPT !.pos = IF @ < BUFFER_SIZE - 1 /\ Line(sh)[@] # NUL THEN @ + 1 ELSE @]
            = [sh EXCEPT !.pos = p]
      BY <1>2 DEF Editors
    <3>3. Key(set_pos([sh EXCEPT !.pos = p]))
      BY Zenon, <2>4, <3>2 DEF shell_right, Edit
    <3> HIDE DEF p
    <3> QED BY <3>1, <3>3
  <2> QED BY <2>1, <2>2, <2>3, <2>4
<1>4. PICK p \in Nat : p <= sh.length /\ Key(set_pos([sh EXCEPT !.pos = p]))
  BY <1>3
<1> DEFINE g == set_pos([sh EXCEPT !.pos = p])
<1>5. /\ Lines(g) /\ Blanks(g) /\ g.history = sh.history
      /\ View(sh) => View(g)
      /\ View(sh) /\ Shows(sh) => Shows(g)
  BY <1>4, Moved DEF IInv
<1>6. Key(g)
  BY <1>4
<1> HIDE DEF g
<1> QED BY <1>5, <1>6, KeyStep

\* The keys that recall lines stay inside the history.
LEMMA RecallSteps ==
  ASSUME Careful, IInv, shell_up \/ shell_down
  PROVE  Good
<1>1. \E k \in 0..sh.history_length : Recall(k)
  <2>1. CASE shell_up
    <3>1. sh.history_pos - 1 \in 0..sh.history_length
      BY <2>1, Numbers DEF shell_up
    <3> QED BY <2>1, <3>1 DEF shell_up
  <2>2. CASE shell_down
    <3>1. sh.history_pos + 1 \in 0..sh.history_length
      BY <2>2, Numbers DEF shell_down
    <3> QED BY <2>2, <3>1 DEF shell_down
  <2> QED BY <2>1, <2>2
<1>2. PICK k \in 0..sh.history_length : Recall(k)
  BY <1>1
<1> DEFINE g == echo_command(Recalled(sh, k))
<1>3. Key(g)
  BY <1>2 DEF Recall, Edit
<1>4. Fits(Recalled(sh, k))
  BY <1>2 DEF Recall
<1>5. /\ Lines(g) /\ Blanks(g) /\ g.history = sh.history
      /\ View(sh) => View(g) /\ Shows(g)
  BY <1>4, RecalledSound DEF IInv
<1> HIDE DEF g
<1> QED BY <1>3, <1>5, KeyStep

\* What is printed by commands and programs touches the screen only.
LEMMA Printed ==
  ASSUME IInv, NEW x
  PROVE  LET s == [sh EXCEPT !.screen = x]
         IN  /\ Alike(s, sh) /\ s.screen = x /\ Alike(sh, sh)
             /\ View(sh) /\ OnScreen(x) => View(s)
<1> DEFINE s == [sh EXCEPT !.screen = x]
<1>1. Editor(sh)
  BY Numbers
<1>2. Alike(s, sh)
  BY <1>1, Redrawn
<1>3. Alike(sh, sh)
  BY <1>1 DEF Alike
<1>4. PICK X : \E Y : sh \in Editors(X, Y)
  BY <1>1 DEF Editor
<1>5. PICK Y : sh \in Editors(X, Y)
  BY <1>4
<1>6. s.screen = x /\ s.start_of_command = sh.start_of_command
      /\ s.max_length = sh.max_length
  BY <1>5 DEF Editors
<1> HIDE DEF s
<1>7. View(sh) /\ OnScreen(x) => View(s)
  BY <1>6 DEF View
<1> QED BY <1>2, <1>3, <1>6, <1>7 DEF s

\* A step that prints while the line is not shown, or not any more.
LEMMA PrintStep ==
  ASSUME IInv, NEW x, sh' = [sh EXCEPT !.screen = x],
         path' = path, prompts' = prompts,
         Orderly /\ SInv => OnScreen(x) /\ ~shown'
  PROVE  Good
<1> DEFINE s == [sh EXCEPT !.screen = x]
<1>1. Alike(s, sh) /\ sh' = s /\ (View(sh) /\ OnScreen(x) => View(s))
  BY Printed
<1> HIDE DEF s
<1>2. IInv'
  BY <1>1, ScreenStep
<1>3. ASSUME Orderly, SInv PROVE SInv'
  <2>1. View(sh') /\ ~shown' /\ path' \in Prompts
    BY <1>1, <1>3 DEF SInv
  <2> QED BY <2>1 DEF SInv
<1> QED BY <1>2, <1>3 DEF Good

\* New prompts behind what is on the screen of s.
Prompting(s, prompt) ==
  /\ Alike(s, sh) /\ \E n \in Nat \ {0} : Reprompted(s, prompt, n)
  /\ path' = prompt /\ run_pid' = 0
  /\ Orderly /\ SInv => OnScreen(s.screen) /\ prompt \in Prompts

LEMMA PromptStep ==
  ASSUME Careful, IInv, NEW s, NEW prompt, Prompting(s, prompt)
  PROVE  Good
<1>1. /\ IInv' /\ EntriesKept
      /\ Quiet(prompt) /\ OnScreen(s.screen) => View(sh') /\ Shows(sh')
  BY FinalizedStep DEF Prompting
<1>2. ASSUME Orderly, SInv PROVE SInv'
  <2>0. shown' = TRUE
    BY DEF Prompting, Reprompted
  <2>1. OnScreen(s.screen) /\ prompt \in Prompts /\ Quiet(prompt)
    BY <1>2, ShellQuiet DEF Prompting
  <2>2. View(sh') /\ Shows(sh')
    BY <1>1, <2>1
  <2> QED BY <2>1, <2>2 DEF SInv, Prompting
<1> QED BY <1>1, <1>2 DEF Good

\* Enter leaves the line, and room for a backspace.
LEMMA EnteredOn ==
  ASSUME IInv, View(sh)
  PROVE  OnScreen(Entered) /\ Entered.cursor > 0
<1> DEFINE q == sh.start_of_command + sh.length
           u == set_cursor_pos(sh.screen, q)
<1>1. q \in 0..(CELLS - 1) /\ OnScreen(sh.screen)
  <2>1. sh.length <= sh.max_length /\ sh.length \in Nat /\ sh.max_length \in Nat
    BY Numbers, EditorFields DEF IInv, Lines
  <2> QED BY <2>1, CellsAre DEF View
<1>2. OnScreen(u)
  <2> HIDE DEF q
  <2> QED BY <1>1, CursorOn
<1>3. Entered = write_char(u, NL)
  BY DEF Entered
<1> HIDE DEF u
<1>4. NL # BS /\ Advances(NL)
  BY DEF Advances, NUL, NL, BS, DEL
<1> QED BY <1>2, <1>3, <1>4, WriteCharOn, Forward

\* clear_screen.
LEMMA ClearOn ==
  ASSUME NEW s, OnScreen(s)
  PROVE  OnScreen(clear(s))
<1>1. PICK V : s \in Screens(V)
  BY DEF OnScreen
<1> DEFINE U == V \cup {SP}
           cell == [k \in 0..(CELLS - 1) |-> IF k \in 0..(CELLS - 1) THEN SP ELSE s.cell[k]]
           x == pad(s, 0, CELLS)
<1>2. 0 \in 0..(CELLS - 1)
  BY CellsAre
<1>3. cell \in [0..(CELLS - 1) -> U]
  OBVIOUS
<1>4. x = [s EXCEPT !.cell = cell]
  BY <1>1 DEF pad, Screens
<1> HIDE DEF cell, U, x
<1>5. x \in Screens(U)
  BY <1>1, <1>3, <1>4 DEF Screens
<1>6. OnScreen(x)
  BY Zenon, <1>5 DEF OnScreen
<1>7. OnScreen(set_cursor_pos(x, 0))
  BY <1>2, <1>6, CursorOn
<1> QED BY <1>7 DEF clear, x

\* Enter, with all that a command may do.
LEMMA EnterSteps ==
  ASSUME Careful, IInv,
         \/ EnterNothing
         \/ \E out \in Outputs : EnterPrints(out)
         \/ EnterSplash
         \/ \E to \in Prompts : EnterCd(to)
         \/ \E n \in 1..MAX_RUN : EnterRun(n)
  PROVE  Good
<1>0. SInv => path \in Prompts /\ OnScreen(Entered) /\ Entered.cursor > 0
  BY EnteredOn DEF SInv
<1>1. ASSUME NEW x, NEW prompt, Finalized([sh EXCEPT !.screen = x], prompt),
             path' = prompt, run_pid' = 0,
             Orderly /\ SInv => OnScreen(x) /\ prompt \in Prompts
      PROVE  Good
  <2> DEFINE s == [sh EXCEPT !.screen = x]
  <2>1. Alike(s, sh) /\ s.screen = x /\ Finalized(s, prompt)
    BY <1>1, Printed
  <2> HIDE DEF s
  <2>2. Prompting(s, prompt)
    BY <1>1, <2>1 DEF Prompting, Finalized
  <2> QED BY <2>2, PromptStep
<1>2. ASSUME NEW n \in 1..MAX_RUN, EnterRun(n) PROVE Good
  BY <1>0, <1>2, PrintStep DEF EnterRun, Deferred
<1>3. CASE EnterNothing
  BY <1>0, <1>1, <1>3 DEF EnterNothing, Editing
<1>4. ASSUME NEW out \in Outputs, EnterPrints(out) PROVE Good
  <2> DEFINE x == write_string(Entered, out)
  <2>1. ASSUME Orderly, SInv PROVE OnScreen(x)
    <3>1. Len(out) \in Nat /\ \A i \in 2..Len(out) : out[i] = BS => Advances(out[i - 1])
      BY <2>1 DEF Orderly
    <3>2. \A i \in 1..Len(out) : i = 1 \/ (i \in 2..Len(out) /\ i > 1)
      BY <3>1
    <3> DEFINE e == Entered
    <3>3. OnScreen(e) /\ e.cursor > 0
      BY <1>0, <2>1
    <3> HIDE DEF e
    <3>4. \A i \in 1..Len(out) :
            out[i] = BS => (i = 1 /\ e.cursor > 0) \/ (i > 1 /\ Advances(out[i - 1]))
      BY <3>1, <3>2, <3>3
    <3> QED BY <3>1, <3>3, <3>4, KeepsOn DEF e
  <2>2. Finalized([sh EXCEPT !.screen = x], path) /\ path' = path /\ run_pid' = 0
    BY <1>4 DEF EnterPrints, Editing
  <2> HIDE DEF x
  <2> QED BY <1>0, <1>1, <2>1, <2>2
<1>5. CASE EnterSplash
  <2> DEFINE x == write_string(clear(Entered), SPLASH)
  <2>1. ASSUME SInv PROVE OnScreen(x)
    <3>1. OnScreen(clear(Entered))
      BY <1>0, <2>1, ClearOn
    <3> QED BY <3>1, ShellQuiet, KeepsOn DEF Quiet
  <2>2. Finalized([sh EXCEPT !.screen = x], path) /\ path' = path /\ run_pid' = 0
    BY <1>5 DEF EnterSplash, Editing
  <2> HIDE DEF x
  <2> QED BY <1>0, <1>1, <2>1, <2>2
<1>6. ASSUME NEW to \in Prompts, EnterCd(to) PROVE Good
  BY <1>0, <1>1, <1>6 DEF EnterCd, Editing
<1> QED BY <1>2, <1>3, <1>4, <1>5, <1>6

\* Programs: their ends and what they print.
LEMMA ProgramSteps ==
  ASSUME Careful, IInv,
         \/ \E n \in 1..MAX_FAMILY : CtrlC(n)
         \/ Reap \/ ReapOther \/ (\E c \in Prints : syscall_printf(c))
  PROVE  Good
<1>0. SInv => path \in Prompts /\ OnScreen(sh.screen)
  BY DEF SInv, View
<1>1. Alike(sh, sh)
  BY Printed
<1>2. CASE Finalized(sh, path) /\ path' = path /\ run_pid' = 0
  <2>1. Prompting(sh, path)
    BY <1>0, <1>1, <1>2 DEF Prompting, Finalized
  <2> QED BY <2>1, PromptStep
<1>3. CASE Deferred(sh) /\ path' = path
  <2>1. IInv' /\ prompts' = prompts
    BY <1>1, <1>3, ScreenStep DEF Deferred
  <2>2. SInv => SInv'
    BY <1>3 DEF SInv, Deferred
  <2> QED BY <2>1, <2>2 DEF Good
<1>4. PICK X : \E Y : sh \in Editors(X, Y)
  BY Numbers DEF Editor
<1>5. PICK Y : sh \in Editors(X, Y)
  BY <1>4
<1>6. ASSUME NEW n \in 1..MAX_FAMILY, CtrlC(n) PROVE Good
  <2> DEFINE x == write_string(sh.screen, INTERRUPTED)
             s == [sh EXCEPT !.screen = x]
  <2>1. s = [sh EXCEPT !.screen = write_string(@, INTERRUPTED)]
    BY <1>5 DEF Editors
  <2>2. /\ run_pid > 0 /\ run_pid' = run_pid - 1 /\ path' = path
        /\ IF run_pid = 1 THEN Reprompted(s, path, n) ELSE Deferred(s)
    BY <1>6, <2>1 DEF CtrlC
  <2>3. SInv => OnScreen(x)
    BY <1>0, ShellQuiet, KeepsOn DEF Quiet
  <2> HIDE DEF x
  <2>4. Alike(s, sh) /\ s.screen = x
    BY Printed
  <2>5. CASE run_pid = 1
    <3>1. n \in Nat \ {0}
      BY EditorAssumption
    <3>2. Prompting(s, path)
      BY <1>0, <2>2, <2>3, <2>4, <2>5, <3>1 DEF Prompting
    <3> QED BY <3>2, PromptStep
  <2>6. CASE run_pid # 1
    <3>1. sh' = s /\ prompts' = prompts /\ ~shown'
      BY <2>2, <2>6 DEF Deferred
    <3> QED BY <2>2, <2>3, <3>1, PrintStep
  <2> QED BY <2>5, <2>6
<1>7. CASE Reap
  BY <1>2, <1>3, <1>7 DEF Reap
<1>8. CASE ReapOther
  BY <1>2, <1>3, <1>8 DEF ReapOther
<1>9. ASSUME NEW c \in Prints, syscall_printf(c) PROVE Good
  <2> DEFINE x == write_char(sh.screen, c)
  <2>1. sh' = [sh EXCEPT !.screen = x]
    BY <1>5, <1>9 DEF syscall_printf, Editors
  <2>2. Orderly /\ SInv => OnScreen(x) /\ ~shown'
    BY <1>0, <1>9, WriteCharOn DEF syscall_printf, Orderly
  <2> HIDE DEF x
  <2> QED BY <1>9, <2>1, <2>2, PrintStep DEF syscall_printf
<1> QED BY <1>6, <1>7, <1>8, <1>9

\* Every step of the specification.
LEMMA NextGood ==
  ASSUME Careful, IInv, [Next]_vars
  PROVE  Good
<1>1. CASE UNCHANGED vars
  <2>1. /\ sh' = sh /\ path' = path /\ run_pid' = run_pid /\ shown' = shown
        /\ prompts' = prompts
    BY <1>1 DEF vars
  <2>2. Alike(sh, sh)
    BY Printed
  <2>3. IInv'
    BY <2>1, <2>2, ScreenStep
  <2>4. SInv => SInv'
    BY <2>1 DEF SInv
  <2> QED BY <2>1, <2>3, <2>4 DEF Good
<1>2. CASE Next
  BY Zenon, <1>2, TypeStep, DeleteSteps, MoveSteps, RecallSteps, EnterSteps, ProgramSteps DEF Next
<1> QED BY <1>1, <1>2

\* The invariant says what HistorySound does, and more.
LEMMA InvHistory ==
  ASSUME IInv
  PROVE  HistorySound
<1> DEFINE n == sh.history_length
<1>1. Lines(sh) /\ n \in Nat
  BY Numbers DEF IInv
<1>2. /\ \A k, l \in 0..n : sh.history[k] = sh.history[l] => k = l
      /\ DOMAIN sh.heap = {sh.history[k] : k \in 0..n}
      /\ \A b \in DOMAIN sh.heap : \E m \in Nat : Text(sh.heap[b], m)
  BY <1>1 DEF Lines
<1> HIDE DEF n
<1>3. \A k \in 0..n : sh.history[k] \in DOMAIN sh.heap
  BY <1>2
<1>4. Cardinality(DOMAIN sh.heap) = n + 1
  BY <1>1, <1>2, CountEntries
<1>5. ASSUME NEW k \in 0..n PROVE \E i \in Places : Entry(sh, k)[i] = NUL
  <2>1. PICK m \in Nat : Text(Entry(sh, k), m)
    BY <1>2, <1>3 DEF Entry
  <2>2. m \in Places /\ m >= m
    BY <2>1 DEF Text
  <2> QED BY <2>1, <2>2 DEF Text
<1>6. str_length(Line(sh)) = sh.length
  BY <1>1, LengthIs DEF Lines
<1>7. sh.pos \in 0..sh.length /\ sh.length <= sh.max_length
  BY <1>1, Numbers DEF Lines
<1>8. ASSUME NEW i \in 0..(sh.max_length - 1) PROVE sh.blank_command[i] = SP
  <2>1. sh.max_length \in Places /\ sh.max_length \in Nat
    BY <1>1, PlacesAre DEF Lines
  <2>2. i \in Places /\ i <= sh.max_length
    BY <2>1, PlacesAre
  <2> QED BY <2>2 DEF IInv, Blanks, Reached
<1> QED BY <1>2, <1>3, <1>4, <1>5, <1>6, <1>7, <1>8 DEF HistorySound, n

\* The kernel clears the screen, and splash_screen and the first prompt
\* leave the cursor on it.
LEMMA InitScreen == Init => SInv
<1> SUFFICES ASSUME Init PROVE SInv
  OBVIOUS
<1>1. path \in Prompts
  <2> DEFINE L == {Len(p) : p \in Prompts}
  <2>1. L \subseteq Nat /\ L # {}
    <3>1. \A p \in Prompts : Len(p) \in Nat
      BY ShellQuiet DEF Quiet
    <3>2. Prompts # {}
      BY TextAssumption
    <3> QED BY <3>1, <3>2
  <2>2. PICK n \in L : \A m \in L : n <= m
    <3> HIDE DEF L
    <3> QED BY <2>1, LeastExists
  <2>3. PICK p \in Prompts : Len(p) = n
    OBVIOUS
  <2>4. \A q \in Prompts : Len(p) <= Len(q)
    BY <2>2, <2>3
  <2>5. Root \in Prompts
    BY Zenon, <2>4 DEF Root
  <2> QED BY <2>5 DEF Init
<1> DEFINE u == write_string(clear(Blank), SPLASH)
           x == write_string(u, path)
<1>2. OnScreen(Blank)
  <2>1. Blank \in Screens({SP})
    BY CellsAre DEF Blank, Screens
  <2> QED BY Zenon, <2>1 DEF OnScreen
<1>3. OnScreen(u)
  BY <1>2, ClearOn, ShellQuiet, KeepsOn DEF Quiet
<1>4. OnScreen(x)
  <2> HIDE DEF u
  <2> QED BY <1>1, <1>3, ShellQuiet, KeepsOn DEF Quiet
<1>5. sh = Installed(x) /\ shown = TRUE /\ run_pid = 0
  BY DEF Init
<1> HIDE DEF x
<1>6. /\ sh.screen = x /\ sh.start_of_command = x.cursor
      /\ sh.pos = 0 /\ sh.length = 0 /\ sh.max_length = 0
  BY <1>5 DEF Installed
<1>7. x.cursor \in Nat /\ x.cursor < CELLS /\ CELLS \in Nat
  BY <1>4, ScreenFields, CellsAre
<1>8. View(sh)
  BY <1>4, <1>6, <1>7 DEF View
<1>9. Shows(sh)
  <2>1. 0..(0 - 1) = {}
    OBVIOUS
  <2> QED BY <1>6, <1>7, <2>1 DEF Shows
<1> QED BY <1>1, <1>5, <1>8, <1>9 DEF SInv

-----------------------------------------------------------------------------
\* Theorems.

\* The buffers of the history, the line and the blanks agree in every state
\* that careful users reach, whatever keys they press and whatever programs
\* print or end in between (all of shell.c's editor).
THEOREM Invariance == ASSUME Careful PROVE Spec => []IInv
<1>1. IInv /\ [Next]_vars => IInv'
  BY NextGood DEF Good
<1> QED BY <1>1, InitInv, PTL DEF Spec

\* No entry of the history is lost, shared or freed while in use, the line
\* ends where length says with the cursor inside it, and the blanks of
\* echo_command reach as far as any line did (shell.c, history and
\* blank_command).
THEOREM HistoryAlwaysSound == ASSUME Careful PROVE Spec => []HistorySound
<1>1. IInv => HistorySound
  BY InvHistory
<1> QED BY <1>1, Invariance, PTL

\* finalize_command keeps the line that was entered and every entry, in their
\* order, but for the oldest of a full history, one for each new prompt: also
\* when it runs for the end of a program the user did not wait for, and when
\* Ctrl-C makes kill_family run it once for every process of a family.
THEOREM EntriesAlwaysKept == ASSUME Careful PROVE Spec => FinalizeKeeps
<1>1. IInv /\ [Next]_vars => [prompts' # prompts => EntriesKept]_vars
  BY NextGood DEF Good
<1> QED BY <1>1, Invariance, PTL DEF Spec, FinalizeKeeps

\* The cells behind the prompt show the line that Enter will execute, then
\* blanks, with the cursor where the next character goes, for every size of
\* the screen and of the buffers, as long as nobody prints there
\* (echo_command, "Take care of the scrolling", finalize_command).
THEOREM LineAlwaysShown == ASSUME Careful, Orderly PROVE Spec => []LineShown
<1>1. IInv /\ SInv /\ [Next]_vars => (IInv /\ SInv)'
  BY NextGood DEF Good
<1>2. SInv => LineShown
  BY DEF SInv, View, Shows, LineShown
<1>3. Init => IInv /\ SInv
  BY InitInv, InitScreen
<1> QED BY <1>1, <1>2, <1>3, PTL DEF Spec

============================================================================
