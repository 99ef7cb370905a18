---------------------------- MODULE UnitsProofs -----------------------------
(***************************************************************************)
(* The small parts for every value of their constants: the console, the    *)
(* namespace server, the pool of locks and the system call gate.           *)
(***************************************************************************)
EXTENDS Namespace, Console, Locks, Syscall, FiniteSetTheorems, TLAPS

-----------------------------------------------------------------------------
(* The screen *)

Rows == 0..(Height - 1)
Cols == 0..(Width - 1)

\* Where a character can stand.
Positions == {r * Width + c : r \in Rows, c \in Cols}

\* The screen in the middle of a step.  The row may be anywhere: it is on the
\* screen only if the start-up read of the cursor was not cut (OnRow).
Shape(v) ==
  v \in [cells : [Cells -> Writers], row : Nat, col : Nat,
         mode : {"text", "mode13"}, font : {"font", "wiped"}]

\* The screen between steps.
VgaOK(v) == Shape(v) /\ v.col \in Cols

\* The text that can be read: the font is there and no cell shows a frame.
Readable(v) ==
  v.mode = "text" => /\ v.font = "font"
                     /\ windows.text => \A p \in Cells : v.cells[p] # "frame"

\* The sizes of the screen.
LEMMA SizesOfScreen ==
  /\ Width \in Nat /\ Width > 0 /\ Height \in Nat /\ Height > 1
  /\ DrainMax \in Nat /\ DrainMax > 0 /\ CrtByte \in Nat /\ CrtByte > 0
  /\ Width * Height <= CrtByte * CrtByte
  /\ 0 \in Rows /\ 1 \in Rows /\ 0 \in Cols /\ Height - 1 \in Rows
BY ConsoleAssumption DEF Rows, Cols

\* A position comes apart into its row and its column (term_sync_cursor_from_hw).
LEMMA PositionParts ==
  ASSUME NEW x \in Positions
  PROVE  /\ x \div Width \in Rows /\ x % Width \in Cols
         /\ ((x \div Width) * Width) + (x % Width) = x
<1>1. PICK r \in Rows, c \in Cols : x = r * Width + c
  BY DEF Positions
<1>2. Width \in Nat /\ Width > 0 /\ Height \in Nat /\ r \in Nat /\ c \in Nat /\ c < Width /\ r < Height
  BY SizesOfScreen DEF Rows, Cols
<1>3. x \div Width = r /\ x % Width = c
  BY <1>1, <1>2
<1> QED
  BY <1>1, <1>3

\* A place on the screen is a position.
LEMMA PositionOf ==
  ASSUME NEW r \in Rows, NEW c \in Cols
  PROVE  r * Width + c \in Positions
BY DEF Positions

\* A position is a number that the two registers hold.
LEMMA PositionFits ==
  ASSUME NEW x \in Positions
  PROVE  x \in Nat /\ x < CrtByte * CrtByte
<1>1. PICK r \in Rows, c \in Cols : x = r * Width + c
  BY DEF Positions
<1>2. Width \in Nat /\ Width > 0 /\ Height \in Nat /\ r \in Nat /\ c \in Nat /\ c < Width
      /\ r + 1 <= Height /\ CrtByte \in Nat /\ Width * Height <= CrtByte * CrtByte
  BY SizesOfScreen DEF Rows, Cols
<1>3. x < (r + 1) * Width /\ x \in Nat
  BY <1>1, <1>2
<1>4. (r + 1) * Width <= Height * Width
  BY <1>2
<1> QED BY <1>2, <1>3, <1>4

\* The registers' bytes make up the position again.
LEMMA BytesOfPosition ==
  ASSUME NEW x \in Positions
  PROVE  PosHi(x) * CrtByte + PosLo(x) = x
<1>1. x \in Nat /\ x < CrtByte * CrtByte /\ CrtByte \in Nat /\ CrtByte > 0
  BY PositionFits, SizesOfScreen
<1>2. x % (CrtByte * CrtByte) = x
  <2>1. PICK y \in Nat : y = CrtByte * CrtByte
    BY <1>1
  <2>2. x % y = x
    BY <1>1, <2>1
  <2> QED BY <2>1, <2>2
<1>3. ((x \div CrtByte) * CrtByte) + (x % CrtByte) = x
  BY <1>1
<1> QED BY <1>2, <1>3 DEF PosHi, PosLo

\* The bytes of any number are numbers.
LEMMA BytesAreNat ==
  ASSUME NEW x \in Nat
  PROVE  PosHi(x) \in Nat /\ PosLo(x) \in Nat
<1>1. CrtByte \in Nat /\ CrtByte > 0 /\ CrtByte * CrtByte \in Nat /\ CrtByte * CrtByte > 0
  BY SizesOfScreen
<1>2. x % (CrtByte * CrtByte) \in Nat
  BY <1>1
<1>3. (x % (CrtByte * CrtByte)) \div CrtByte \in Nat
  BY <1>1, <1>2
<1>4. x % CrtByte \in Nat
  BY <1>1
<1> QED BY <1>3, <1>4 DEF PosHi, PosLo

\* What a step that only writes text leaves as it was: the mode, the font,
\* what can be read, and a cursor on the screen.
Writes(v, w) ==
  /\ w.mode = v.mode /\ w.font = v.font /\ (Readable(v) => Readable(w))
  /\ v.row \in Rows => w.row \in Rows

\* A line feed, with the scrolling it may cause.
LEMMA NewLineOK ==
  ASSUME NEW v, Shape(v)
  PROVE  LET w == NewLine(v)
         IN  VgaOK(w) /\ Writes(v, w)
<1> DEFINE d == [v EXCEPT !.row = @ + 1, !.col = 0]
           shown == [p \in Cells |-> IF p + Width \in Cells THEN d.cells[p + Width] ELSE "blank"]
<1>1. /\ v.row \in Nat /\ v.cells \in [Cells -> Writers]
      /\ v.mode \in {"text", "mode13"} /\ v.font \in {"font", "wiped"}
  BY DEF Shape
<1>2. /\ d.row = v.row + 1 /\ d.cells = v.cells /\ d.mode = v.mode /\ d.font = v.font
      /\ d.col = 0
      /\ d \in [cells : [Cells -> Writers], row : Nat, col : Nat,
                mode : {"text", "mode13"}, font : {"font", "wiped"}]
  <2>1. PICK r \in Nat : r = v.row + 1
    BY <1>1
  <2>2. d = [v EXCEPT !.row = r, !.col = 0]
    BY <2>1
  <2> HIDE DEF d
  <2> QED BY <2>1, <2>2 DEF Shape
<1>3. CASE d.row >= Height
  <2>1. NewLine(v) = term_scroll_up(d)
    BY <1>3 DEF NewLine
  <2> DEFINE w == term_scroll_up(d)
  <2>3. shown \in [Cells -> Writers]
    BY <1>1, <1>2 DEF Writers
  <2>4. Store(d, shown) \in [Cells -> Writers]
    BY <1>1, <1>2, <2>3 DEF Store
  <2>s. PICK cells \in [Cells -> Writers] : cells = Store(d, shown)
    BY <2>4
  <2>2. w = [d EXCEPT !.cells = cells, !.row = Height - 1, !.col = 0]
    BY <2>s DEF term_scroll_up
  <2> HIDE DEF d, shown
  <2>h. Height - 1 \in Nat
    BY SizesOfScreen
  <2>5. w \in [cells : [Cells -> Writers], row : Nat, col : Nat,
               mode : {"text", "mode13"}, font : {"font", "wiped"}] /\ w.col = 0 /\ w.row = Height - 1
    BY <1>2, <2>2, <2>h
  <2>6. w.mode = v.mode /\ w.font = v.font /\ w.cells = Store(d, shown)
    BY <1>2, <2>2, <2>s
  <2>7. Readable(v) => Readable(w)
    <3> SUFFICES ASSUME Readable(v), w.mode = "text", windows.text, NEW p \in Cells
                 PROVE  w.cells[p] # "frame"
      BY <2>6 DEF Readable
    <3>1. w.cells = shown
      BY <1>2, <2>6 DEF Store
    <3>3. shown = [q \in Cells |-> IF q + Width \in Cells THEN d.cells[q + Width] ELSE "blank"]
      BY DEF shown
    <3>2. \A q \in Cells : v.cells[q] # "frame"
      BY <2>6 DEF Readable
    <3> QED BY <1>2, <3>1, <3>2, <3>3
  <2> HIDE DEF w
  <2>8. VgaOK(w) /\ Writes(v, w)
    BY <2>5, <2>6, <2>7, SizesOfScreen DEF VgaOK, Shape, Writes
  <2> QED BY <2>1, <2>8 DEF w
<1>4. CASE ~(d.row >= Height)
  <2>1. NewLine(v) = d
    BY <1>4 DEF NewLine
  <2>2. d.row \in Rows
    BY <1>1, <1>2, <1>4, SizesOfScreen DEF Rows
  <2> HIDE DEF d
  <2>4. VgaOK(d) /\ Writes(v, d)
    BY <1>2, <2>2, SizesOfScreen DEF VgaOK, Shape, Writes, Readable
  <2> QED BY <2>1, <2>4
<1> QED BY <1>3, <1>4

\* A character stored anywhere, also outside the screen.
LEMMA WrittenOK ==
  ASSUME NEW v, Shape(v), NEW at, NEW who \in Writers \ {"frame"}
  PROVE  /\ Written(v, at, who) \in [Cells -> Writers]
         /\ v.mode = "text" /\ (\A p \in Cells : v.cells[p] # "frame")
              => \A p \in Cells : Written(v, at, who)[p] # "frame"
<1>1. v.cells \in [Cells -> Writers]
  BY DEF Shape
<1>2. [p \in Cells |-> IF p = at THEN who ELSE v.cells[p]] \in [Cells -> Writers]
  BY <1>1
<1> QED BY <1>1, <1>2 DEF Written, Store

\* A character, with the wrapping it may cause.
LEMMA PutCharOK ==
  ASSUME NEW v, VgaOK(v), NEW who \in {"main", "key"}
  PROVE  LET w == PutChar(v, who)
         IN  VgaOK(w) /\ Writes(v, w)
<1> DEFINE at == v.row * Width + v.col
           put == [v EXCEPT !.cells = Written(v, at, who), !.col = @ + 1]
<1>1. /\ v.row \in Nat /\ v.col \in Cols /\ v.cells \in [Cells -> Writers]
      /\ v.mode \in {"text", "mode13"} /\ v.font \in {"font", "wiped"} /\ Shape(v)
  BY DEF VgaOK, Shape
<1>2. who \in Writers \ {"frame"}
  BY DEF Writers
<1>3. PICK cells \in [Cells -> Writers] :
        /\ cells = Written(v, at, who)
        /\ v.mode = "text" /\ (\A p \in Cells : v.cells[p] # "frame")
              => \A p \in Cells : cells[p] # "frame"
  BY <1>1, <1>2, WrittenOK
<1>c. PICK c \in Nat : c = v.col + 1
  BY <1>1 DEF Cols
<1>4. /\ put \in [cells : [Cells -> Writers], row : Nat, col : Nat,
                 mode : {"text", "mode13"}, font : {"font", "wiped"}]
      /\ put.col = v.col + 1 /\ put.mode = v.mode /\ put.font = v.font /\ put.row = v.row
      /\ put.cells = cells
  <2>1. put = [v EXCEPT !.cells = cells, !.col = c]
    BY <1>3, <1>c
  <2> HIDE DEF put
  <2> QED BY <2>1, <1>c DEF VgaOK, Shape
<1>5. Writes(v, put)
  BY <1>3, <1>4 DEF Writes, Readable
<1>6. Shape(put)
  BY <1>4 DEF Shape
<1>7. PutChar(v, who) = IF put.col >= Width THEN NewLine(put) ELSE put
  BY DEF PutChar
<1> HIDE DEF put
<1>8. CASE put.col >= Width
  <2>1. VgaOK(NewLine(put)) /\ Writes(put, NewLine(put))
    BY <1>6, NewLineOK
  <2> QED BY <1>5, <1>7, <1>8, <2>1 DEF Writes
<1>9. CASE ~(put.col >= Width)
  <2>1. put.col \in Cols
    BY <1>1, <1>4, <1>9, SizesOfScreen DEF Cols
  <2> QED BY <1>5, <1>6, <1>7, <1>9, <2>1 DEF VgaOK
<1> QED BY <1>8, <1>9

\* term_putc: without a text window nothing happens.
LEMMA PutcOK ==
  ASSUME NEW v, VgaOK(v), NEW c, NEW who \in {"main", "key"}
  PROVE  LET w == term_putc(v, c, who)
         IN  VgaOK(w) /\ Writes(v, w) /\ (windows.text \/ w = v)
<1>1. VgaOK(NewLine(v)) /\ Writes(v, NewLine(v))
  BY NewLineOK DEF VgaOK
<1>2. VgaOK(PutChar(v, who)) /\ Writes(v, PutChar(v, who))
  BY PutCharOK
<1>3. Writes(v, v)
  BY DEF Writes
<1> QED BY <1>1, <1>2, <1>3 DEF term_putc

\* The cursor at the top left.
LEMMA HomeOK ==
  ASSUME NEW v, Shape(v)
  PROVE  LET w == [v EXCEPT !.row = 0, !.col = 0]
         IN  VgaOK(w) /\ Writes(v, w)
<1> DEFINE w == [v EXCEPT !.row = 0, !.col = 0]
<1>1. /\ w \in [cells : [Cells -> Writers], row : Nat, col : Nat,
               mode : {"text", "mode13"}, font : {"font", "wiped"}]
      /\ w.col = 0 /\ w.row = 0 /\ w.mode = v.mode /\ w.font = v.font /\ w.cells = v.cells
  BY DEF Shape
<1> HIDE DEF w
<1>2. VgaOK(w) /\ Writes(v, w)
  BY <1>1, SizesOfScreen DEF VgaOK, Shape, Writes, Readable
<1> QED BY <1>2 DEF w

\* term_clear_screen leaves no frame on a screen in text mode.
LEMMA ClearOK ==
  ASSUME NEW v, VgaOK(v), windows.text \in BOOLEAN
  PROVE  LET w == term_clear_screen(v)
         IN  /\ VgaOK(w) /\ Writes(v, w)
             /\ windows.text /\ v.mode = "text" => \A p \in Cells : w.cells[p] # "frame"
<1> DEFINE w == term_clear_screen(v)
           blank == [p \in Cells |-> "blank"]
<1>1. CASE windows.text
  <2>1. blank \in [Cells -> Writers]
    BY DEF Writers
  <2>2. PICK cells \in [Cells -> Writers] : cells = Store(v, blank)
    BY <2>1 DEF Store, VgaOK, Shape
  <2>3. w = [v EXCEPT !.cells = cells, !.row = 0, !.col = 0]
    BY <1>1, <2>2 DEF term_clear_screen
  <2> HIDE DEF w
  <2>4. /\ w \in [cells : [Cells -> Writers], row : Nat, col : Nat,
                 mode : {"text", "mode13"}, font : {"font", "wiped"}]
        /\ w.col = 0 /\ w.row = 0 /\ w.mode = v.mode /\ w.font = v.font /\ w.cells = cells
    BY <2>3 DEF VgaOK, Shape
  <2>5. v.mode = "text" => \A p \in Cells : w.cells[p] # "frame"
    BY <2>2, <2>4 DEF Store
  <2>6. VgaOK(w) /\ Writes(v, w)
    BY <2>4, <2>5, SizesOfScreen DEF VgaOK, Shape, Writes, Readable
  <2> QED BY <2>5, <2>6 DEF w
<1>2. CASE ~windows.text
  <2>1. w = v
    BY <1>2 DEF term_clear_screen
  <2> QED BY <1>2, <2>1 DEF Writes
<1> QED BY <1>1, <1>2

\* One character or sequence of term_print: what moves the cursor goes on to
\* term_cursor_update.
LEMMA PrintedOK ==
  ASSUME NEW v, VgaOK(v), NEW c, windows.text \in BOOLEAN
  PROVE  LET w == Printed(v, c)
         IN  VgaOK(w) /\ Writes(v, w) /\ (MovesCursor(c) \/ w = v)
<1>1. CASE c = "J"
  <2>1. Printed(v, c) = term_clear_screen(v)
    BY <1>1 DEF Printed
  <2> QED BY <1>1, <2>1, ClearOK DEF MovesCursor
<1>2. CASE c = "H"
  <2>1. Printed(v, c) = [v EXCEPT !.row = 0, !.col = 0]
    BY <1>2 DEF Printed
  <2>2. Shape(v)
    BY DEF VgaOK
  <2> QED BY <1>2, <2>1, <2>2, HomeOK DEF MovesCursor
<1>3. CASE c # "J" /\ c # "H"
  <2>1. Printed(v, c) = term_putc(v, c, "main")
    BY <1>3 DEF Printed
  <2> QED BY <2>1, PutcOK DEF MovesCursor
<1> QED BY <1>1, <1>2, <1>3

\* What is drawn in mode 0x13.
LEMMA DrawFrameOK ==
  ASSUME NEW v, VgaOK(v), windows.frame \in BOOLEAN
  PROVE  LET w == DrawFrame(v)
         IN  /\ VgaOK(w) /\ w.mode = v.mode /\ w.row = v.row /\ w.col = v.col
             /\ windows.frame \/ w.font = v.font
<1> DEFINE w == DrawFrame(v)
<1>1. CASE windows.frame
  <2>1. PICK cells \in [Cells -> Writers] : cells = [p \in Cells |-> "frame"]
    BY DEF Writers
  <2>2. w = [[v EXCEPT !.cells = cells] EXCEPT !.font = "wiped"]
    BY <1>1, <2>1 DEF DrawFrame, Fill
  <2> HIDE DEF w
  <2>3. /\ w \in [cells : [Cells -> Writers], row : Nat, col : Nat,
                 mode : {"text", "mode13"}, font : {"font", "wiped"}]
        /\ w.col = v.col /\ w.mode = v.mode /\ w.row = v.row
    BY <2>2 DEF VgaOK, Shape
  <2>4. VgaOK(w)
    BY <2>3 DEF VgaOK, Shape
  <2> QED BY <1>1, <2>3, <2>4 DEF w
<1>2. CASE ~windows.frame
  BY <1>2 DEF DrawFrame
<1> QED BY <1>1, <1>2

\* gfx_enter_mode13
LEMMA EnterMode13OK ==
  ASSUME NEW v, VgaOK(v), windows.frame \in BOOLEAN
  PROVE  LET w == gfx_enter_mode13(v)
         IN  /\ VgaOK(w) /\ w.mode = "mode13" /\ w.row = v.row
             /\ windows.frame \/ w.font = v.font
<1>1. PICK m : m = [v EXCEPT !.mode = "mode13"]
  OBVIOUS
<1>3. /\ m \in [cells : [Cells -> Writers], row : Nat, col : Nat,
               mode : {"text", "mode13"}, font : {"font", "wiped"}]
      /\ m.col = v.col /\ m.row = v.row /\ m.mode = "mode13" /\ m.font = v.font
  BY <1>1 DEF VgaOK, Shape
<1>4. VgaOK(m)
  BY <1>3 DEF VgaOK, Shape
<1>5. /\ VgaOK(DrawFrame(m)) /\ DrawFrame(m).mode = m.mode /\ DrawFrame(m).row = m.row
      /\ windows.frame \/ DrawFrame(m).font = m.font
  BY <1>4, DrawFrameOK
<1>6. gfx_enter_mode13(v) = DrawFrame(m)
  BY <1>1 DEF gfx_enter_mode13
<1> QED BY <1>3, <1>5, <1>6

\* gfx_enter_text: the font is loaded back if it was saved.
LEMMA EnterTextOK ==
  ASSUME NEW v, VgaOK(v), windows.frame \in BOOLEAN, windows.text \in BOOLEAN,
         saved_font \in {"none", "font"},
         v.font = "font" \/ (windows.frame /\ saved_font = "font")
  PROVE  LET w == gfx_enter_text(v)
         IN  /\ VgaOK(w) /\ w.mode = "text" /\ Readable(w)
             /\ v.row \in Rows => w.row \in Rows
<1>1. PICK m : m = [v EXCEPT !.mode = "text"]
  OBVIOUS
<1>3. /\ m \in [cells : [Cells -> Writers], row : Nat, col : Nat,
               mode : {"text", "mode13"}, font : {"font", "wiped"}]
      /\ m.col = v.col /\ m.row = v.row /\ m.mode = "text" /\ m.font = v.font
  BY <1>1 DEF VgaOK, Shape
<1>4. PICK f : f = font_load(m)
  OBVIOUS
<1>5. /\ f \in [cells : [Cells -> Writers], row : Nat, col : Nat,
               mode : {"text", "mode13"}, font : {"font", "wiped"}]
      /\ f.col = v.col /\ f.row = v.row /\ f.mode = "text" /\ f.font = "font"
  <2>1. CASE saved_font # "none" /\ windows.frame
    <3>1. f = [m EXCEPT !.font = "font"]
      BY <1>4, <2>1 DEF font_load
    <3> QED BY <1>3, <3>1
  <2>2. CASE ~(saved_font # "none" /\ windows.frame)
    <3>1. f = m
      BY <1>4, <2>2 DEF font_load
    <3> QED BY <1>3, <2>2, <3>1
  <2> QED BY <2>1, <2>2
<1>6. VgaOK(f)
  BY <1>5 DEF VgaOK, Shape
<1>7. PICK w : w = term_clear_screen(f)
  OBVIOUS
<1>8. /\ VgaOK(w) /\ Writes(f, w)
      /\ windows.text /\ f.mode = "text" => \A p \in Cells : w.cells[p] # "frame"
  BY <1>6, <1>7, ClearOK
<1>9. w = gfx_enter_text(v)
  BY <1>1, <1>4, <1>7 DEF gfx_enter_text
<1>10. VgaOK(w) /\ w.mode = "text" /\ Readable(w) /\ (v.row \in Rows => w.row \in Rows)
  BY <1>5, <1>8 DEF Writes, Readable
<1> QED BY <1>9, <1>10

-----------------------------------------------------------------------------
(* The cursor *)

\* The position of the server's next character, and registers that hold one.
ServerPos == vga.row * Width + vga.col
LauncherPos == launcher.row * Width + launcher.col
HwAt(pos) == crt.hi = PosHi(pos) /\ crt.lo = PosLo(pos)

CrtType ==
  /\ crt \in [index : {"hi", "lo", "other"}, hi : Nat, lo : Nat]
  /\ cut \in [sync : BOOLEAN, hw : BOOLEAN]
  /\ g_vga_lock = Unlocked \/ g_vga_lock \in [by : {"main", "key"}, doing : {"sync", "update"},
                                              step : 1..4, hi : Nat]

\* How far an update that was not cut has come.
UpdateTrue ==
  g_vga_lock.doing = "update" /\ ~cut.hw =>
    /\ g_vga_lock.step = 2 => crt.index = "hi"
    /\ g_vga_lock.step \in {3, 4} => crt.hi = PosHi(ServerPos)
    /\ g_vga_lock.step = 4 => crt.index = "lo"

\* How far a start-up read that was not cut has come.
SyncTrue ==
  /\ g_vga_lock.doing = "sync" => main.pc = "start"
  /\ g_vga_lock.doing = "sync" /\ ~cut.sync =>
       /\ g_vga_lock.step = 2 => crt.index = "hi"
       /\ g_vga_lock.step \in {3, 4} => g_vga_lock.hi = crt.hi
       /\ g_vga_lock.step = 4 => crt.index = "lo"

\* Where the hardware cursor is while nobody moves it.
HwTrue ==
  g_vga_lock.doing # "update" /\ vga.mode = "text" /\ ~cut.sync /\ ~cut.hw =>
    HwAt(ServerPos) \/ HwAt(LauncherPos)

\* Where the main thread is, and what it handles.
MainOK ==
  /\ main.pc \in {"start", "serve", "print", "handle"}
  /\ main.pc = "handle" => main.req.kind \in PayloadKinds \ {"text"}
  /\ main.pc = "start" => g_mode = "text"

\* In mode 0x13 the font is saved before it is overwritten, or nobody can
\* overwrite it.
FontKept ==
  /\ g_mode = vga.mode /\ saved_font \in {"none", "font"}
  /\ vga.mode = "mode13" => IF windows.frame THEN saved_font = "font" ELSE vga.font = "font"

LauncherOK ==
  launcher \in [row : Rows, col : {0}, lines : Nat]

\* What is shown, and a cursor on the screen unless the start-up read was cut.
ShowsOK ==
  /\ windows \in [text : BOOLEAN, frame : BOOLEAN]
  /\ VgaOK(vga) /\ Readable(vga)
  /\ ~cut.sync => vga.row \in Rows
  /\ MainOK /\ FontKept /\ LauncherOK

\* The inductive invariant of what is on the screen.
ScreenInv == ShowsOK /\ CrtType /\ UpdateTrue /\ SyncTrue /\ HwTrue

\* The invariant says what it should.
LEMMA InvIsCursorTrue == ScreenInv => CursorTrue
<1> SUFFICES ASSUME ScreenInv, ~cut.sync
             PROVE  /\ vga.row < Height /\ vga.col < Width
                    /\ g_vga_lock = Unlocked /\ vga.mode = "text" /\ ~cut.hw =>
                         \E pos \in {vga.row * Width + vga.col, launcher.row * Width + launcher.col} :
                           crt.hi = PosHi(pos) /\ crt.lo = PosLo(pos)
  BY DEF CursorTrue
<1>1. vga.row < Height /\ vga.col < Width
  BY SizesOfScreen DEF ScreenInv, ShowsOK, VgaOK, Rows, Cols
<1>2. g_vga_lock = Unlocked => g_vga_lock.doing # "update"
  BY DEF Unlocked
<1> QED BY <1>1, <1>2 DEF ScreenInv, HwTrue, HwAt, ServerPos, LauncherPos

\* The numbers of the positions.
LEMMA PositionsNat ==
  ASSUME ShowsOK
  PROVE  /\ ServerPos \in Nat /\ LauncherPos \in Positions /\ LauncherPos \in Nat
         /\ ~cut.sync => ServerPos \in Positions
<1>1. vga.row \in Nat /\ vga.col \in Cols /\ vga.col \in Nat /\ launcher.row \in Rows /\ launcher.col = 0
  BY SizesOfScreen DEF ShowsOK, VgaOK, Shape, LauncherOK, Cols
<1>2. vga.row * Width + vga.col \in Nat
  BY <1>1, SizesOfScreen
<1>3. launcher.row * Width + launcher.col \in Positions
  BY <1>1, PositionOf, SizesOfScreen
<1>4. ~cut.sync => vga.row * Width + vga.col \in Positions
  BY <1>1, PositionOf DEF ShowsOK
<1>5. launcher.row * Width + launcher.col \in Nat
  BY <1>3, PositionFits
<1> QED BY <1>2, <1>3, <1>4, <1>5 DEF ServerPos, LauncherPos

\* Init
LEMMA ScreenInitInv == ScreenInit => ScreenInv
<1> SUFFICES ASSUME ScreenInit PROVE ScreenInv
  OBVIOUS
<1>1. PICK cells \in [Cells -> Writers] :
        cells = [p \in Cells |-> IF p < Width THEN "boot" ELSE "blank"]
  BY DEF Writers
<1>2. vga = [cells |-> cells, row |-> 0, col |-> 0, mode |-> "text", font |-> "font"]
  BY <1>1 DEF ScreenInit
<1>4. VgaOK(vga) /\ vga.row \in Rows
  BY <1>2, SizesOfScreen DEF VgaOK, Shape
<1>5. Readable(vga)
  BY <1>1, <1>2 DEF Readable
<1>6. MainOK /\ LauncherOK /\ FontKept
  BY <1>2, SizesOfScreen, ConsoleAssumption DEF ScreenInit, MainOK, LauncherOK, FontKept
<1>7. ShowsOK
  BY <1>4, <1>5, <1>6 DEF ShowsOK, ScreenInit
<1>8. g_vga_lock.doing = "nothing" /\ g_vga_lock = Unlocked
  BY DEF ScreenInit, Unlocked
<1>9. crt.hi = PosHi(Width) /\ crt.lo = PosLo(Width)
      /\ crt = [index |-> "lo", hi |-> PosHi(Width), lo |-> PosLo(Width)]
  BY DEF ScreenInit, CrtAt
<1>10. PosHi(Width) \in Nat /\ PosLo(Width) \in Nat
  BY BytesAreNat, SizesOfScreen
<1>11. CrtType
  BY <1>8, <1>9, <1>10 DEF CrtType, ScreenInit
<1>12. LauncherPos = Width
  BY SizesOfScreen DEF ScreenInit, LauncherPos
<1> QED
  BY <1>7, <1>8, <1>9, <1>11, <1>12 DEF ScreenInv, UpdateTrue, SyncTrue, HwTrue, HwAt

\* kterm_write: the launcher moves the hardware cursor to its own row, and what
\* it cuts is remembered.
LEMMA LauncherWrites ==
  ASSUME ScreenInv, kterm_write
  PROVE  ScreenInv'
<1> DEFINE at == launcher.row * Width
           inside(d) == g_vga_lock.doing = d /\ g_vga_lock.step > 1
<1>1. PICK down : down = IF launcher.row + 1 >= Height THEN 0 ELSE launcher.row + 1
  OBVIOUS
<1>2. down \in Rows
  BY <1>1, SizesOfScreen DEF ScreenInv, ShowsOK, LauncherOK, Rows
<1>3. /\ launcher' = [launcher EXCEPT !.row = down, !.lines = @ - 1]
      /\ vga' = [vga EXCEPT !.cells = Written(vga, at, "boot")]
      /\ crt' = CrtAt(down * Width)
      /\ cut' = [sync |-> cut.sync \/ inside("sync"), hw |-> inside("update")]
      /\ UNCHANGED <<windows, g_vga_lock, g_mode, saved_font, main>> /\ launcher.lines > 0
  BY <1>1 DEF kterm_write
<1>4. LauncherOK' /\ launcher'.row = down /\ launcher'.col = 0
  <2>1. PICK n \in Nat : n = launcher.lines - 1
    BY <1>3 DEF ScreenInv, ShowsOK, LauncherOK
  <2>2. launcher' = [launcher EXCEPT !.row = down, !.lines = n]
    BY <1>3, <2>1
  <2> QED BY <1>2, <2>2 DEF ScreenInv, ShowsOK, LauncherOK
<1>5. PICK cells \in [Cells -> Writers] :
        /\ cells = Written(vga, at, "boot")
        /\ vga.mode = "text" /\ (\A p \in Cells : vga.cells[p] # "frame")
              => \A p \in Cells : cells[p] # "frame"
  <2>1. Shape(vga) /\ "boot" \in Writers \ {"frame"}
    BY DEF ScreenInv, ShowsOK, VgaOK, Writers
  <2> QED BY <2>1, WrittenOK
<1>6. PICK w : w = [vga EXCEPT !.cells = cells]
  OBVIOUS
<1>7. /\ w \in [cells : [Cells -> Writers], row : Nat, col : Nat,
               mode : {"text", "mode13"}, font : {"font", "wiped"}]
      /\ w.col = vga.col /\ w.row = vga.row /\ w.mode = vga.mode /\ w.font = vga.font
      /\ w.cells = cells
  BY <1>6 DEF ScreenInv, ShowsOK, VgaOK, Shape
<1>8. vga' = w
  BY <1>3, <1>5, <1>6
<1>9. VgaOK(w) /\ Readable(w)
  BY <1>5, <1>7 DEF ScreenInv, ShowsOK, VgaOK, Shape, Readable
<1>10. VgaOK(vga)' /\ Readable(vga)'
  BY <1>3, <1>8, <1>9 DEF VgaOK, Shape, Readable
<1>11. FontKept' /\ MainOK'
  BY <1>3, <1>7, <1>8 DEF ScreenInv, ShowsOK, FontKept, MainOK
<1>12. cut'.sync = (cut.sync \/ inside("sync")) /\ cut'.hw = inside("update")
       /\ cut' \in [sync : BOOLEAN, hw : BOOLEAN]
  BY <1>3 DEF ScreenInv, CrtType
<1>13. ShowsOK'
  BY <1>3, <1>4, <1>7, <1>8, <1>10, <1>11, <1>12 DEF ScreenInv, ShowsOK
<1>14. PICK pos \in Nat : pos = down * Width
  BY <1>2, SizesOfScreen DEF Rows
<1>15. crt' = [index |-> "lo", hi |-> PosHi(pos), lo |-> PosLo(pos)]
  BY <1>3, <1>14 DEF CrtAt
<1>16. crt' \in [index : {"hi", "lo", "other"}, hi : Nat, lo : Nat]
       /\ crt'.hi = PosHi(pos) /\ crt'.lo = PosLo(pos)
  BY <1>15, BytesAreNat
<1>17. LauncherPos' = pos
  BY <1>2, <1>4, <1>14, SizesOfScreen DEF LauncherPos, Rows
<1>18. CrtType'
  BY <1>3, <1>12, <1>16 DEF ScreenInv, CrtType, Unlocked
<1>19. HwTrue'
  BY <1>16, <1>17 DEF HwTrue, HwAt
<1>20. g_vga_lock.doing \in {"sync", "update"} => g_vga_lock.step \in 1..4
  BY DEF ScreenInv, CrtType, Unlocked
<1>21. UpdateTrue'
  <2> SUFFICES ASSUME g_vga_lock'.doing = "update", ~cut'.hw PROVE g_vga_lock'.step = 1
    BY DEF UpdateTrue
  <2>1. g_vga_lock.doing = "update" /\ g_vga_lock.step \in 1..4
    BY <1>3, <1>20
  <2>2. ~(g_vga_lock.step > 1)
    BY <1>12, <2>1
  <2> QED BY <1>3, <2>1, <2>2
<1>22. SyncTrue'
  <2>1. g_vga_lock'.doing = "sync" => main'.pc = "start"
    BY <1>3 DEF ScreenInv, SyncTrue
  <2>2. ASSUME g_vga_lock'.doing = "sync", ~cut'.sync PROVE g_vga_lock'.step = 1
    <3>1. g_vga_lock.doing = "sync" /\ g_vga_lock.step \in 1..4
      BY <1>3, <1>20, <2>2
    <3>2. ~(g_vga_lock.step > 1)
      BY <1>12, <2>2, <3>1
    <3> QED BY <1>3, <3>1, <3>2
  <2> QED BY <2>1, <2>2 DEF SyncTrue
<1> QED BY <1>13, <1>18, <1>19, <1>21, <1>22 DEF ScreenInv

\* What the main thread and the key thread print under the lock.
LEMMA SectionKeeps ==
  ASSUME ScreenInv, NEW t \in {"main", "key"}, NEW w, NEW moves \in BOOLEAN, Section(t, w, moves),
         VgaOK(w), Writes(vga, w), moves \/ w = vga,
         UNCHANGED <<g_mode, saved_font, launcher>>, MainOK'
  PROVE  ScreenInv'
<1>1. g_vga_lock = Unlocked /\ vga' = w /\ UNCHANGED <<windows, crt>>
  BY DEF Section
<1>2. vga'.mode = vga.mode /\ vga'.font = vga.font /\ Readable(vga) /\ Readable(w)
  BY <1>1 DEF Writes, ScreenInv, ShowsOK
<1>3. Readable(vga)' /\ VgaOK(vga)'
  BY <1>1, <1>2 DEF Readable, VgaOK, Shape
<1>4. FontKept' /\ LauncherOK'
  BY <1>1, <1>2 DEF ScreenInv, ShowsOK, FontKept, LauncherOK
<1>5. cut'.sync = cut.sync /\ cut' \in [sync : BOOLEAN, hw : BOOLEAN]
  <2>1. cut' = cut \/ cut' = [cut EXCEPT !.hw = FALSE]
    BY DEF Section
  <2> QED BY <2>1 DEF ScreenInv, CrtType
<1>6. ShowsOK'
  BY <1>1, <1>3, <1>4, <1>5 DEF ScreenInv, ShowsOK, Writes
<1>7. CASE moves
  <2>1. g_vga_lock' = [by |-> t, doing |-> "update", step |-> 1, hi |-> 0]
    BY <1>7 DEF Section, LockedBy
  <2>2. g_vga_lock'.doing = "update" /\ g_vga_lock'.step = 1
        /\ g_vga_lock' \in [by : {"main", "key"}, doing : {"sync", "update"}, step : 1..4, hi : Nat]
    BY <2>1
  <2>3. CrtType'
    BY <1>1, <1>5, <2>2 DEF ScreenInv, CrtType
  <2> QED BY <1>6, <2>2, <2>3 DEF ScreenInv, UpdateTrue, SyncTrue, HwTrue
<1>8. CASE ~moves
  <2>1. vga' = vga /\ UNCHANGED <<g_vga_lock, cut, crt, launcher>>
    BY <1>1, <1>8 DEF Section
  <2>2. g_vga_lock.doing = "nothing"
    BY <1>1 DEF Unlocked
  <2>3. CrtType'
    BY <2>1 DEF ScreenInv, CrtType, Unlocked
  <2> QED BY <1>6, <2>1, <2>2, <2>3
          DEF ScreenInv, UpdateTrue, SyncTrue, HwTrue, HwAt, ServerPos, LauncherPos
<1> QED BY <1>7, <1>8

\* The registers under CrtSelect and CrtWrite.
LEMMA CrtOps ==
  ASSUME crt \in [index : {"hi", "lo", "other"}, hi : Nat, lo : Nat], NEW b \in Nat, NEW r \in {"hi", "lo"}
  PROVE  /\ CrtSelect(r) \in [index : {"hi", "lo", "other"}, hi : Nat, lo : Nat]
         /\ CrtSelect(r).index = r /\ CrtSelect(r).hi = crt.hi /\ CrtSelect(r).lo = crt.lo
         /\ CrtWrite(b) \in [index : {"hi", "lo", "other"}, hi : Nat, lo : Nat]
         /\ CrtWrite(b).index = crt.index
         /\ crt.index = "hi" => CrtWrite(b).hi = b /\ CrtWrite(b).lo = crt.lo
         /\ crt.index = "lo" => CrtWrite(b).lo = b /\ CrtWrite(b).hi = crt.hi
<1>1. /\ CrtSelect(r) \in [index : {"hi", "lo", "other"}, hi : Nat, lo : Nat]
      /\ CrtSelect(r).index = r /\ CrtSelect(r).hi = crt.hi /\ CrtSelect(r).lo = crt.lo
  BY DEF CrtSelect
<1>2. CASE crt.index = "hi"
  <2>1. CrtWrite(b) = [crt EXCEPT !.hi = b]
    BY <1>2 DEF CrtWrite
  <2> QED BY <1>1, <1>2, <2>1
<1>3. CASE crt.index = "lo"
  <2>1. CrtWrite(b) = [crt EXCEPT !.lo = b]
    BY <1>3 DEF CrtWrite
  <2> QED BY <1>1, <1>3, <2>1
<1>4. CASE crt.index = "other"
  <2>1. CrtWrite(b) = crt
    BY <1>4 DEF CrtWrite
  <2> QED BY <1>1, <1>4, <2>1
<1> QED BY <1>2, <1>3, <1>4

\* A port access of an update.
LEMMA UpdateKeeps ==
  ASSUME ScreenInv, term_cursor_update
  PROVE  ScreenInv'
<1> DEFINE step == g_vga_lock.step
<1>1. /\ g_vga_lock.doing = "update"
      /\ crt' = CASE step = 1 -> CrtSelect("hi") [] step = 2 -> CrtWrite(PosHi(ServerPos))
                  [] step = 3 -> CrtSelect("lo") [] step = 4 -> CrtWrite(PosLo(ServerPos))
      /\ g_vga_lock' = IF step = 4 THEN Unlocked ELSE [g_vga_lock EXCEPT !.step = @ + 1]
      /\ UNCHANGED <<windows, vga, cut, g_mode, saved_font, main, launcher>>
  BY DEF term_cursor_update, ServerPos
<1>2. g_vga_lock \in [by : {"main", "key"}, doing : {"sync", "update"}, step : 1..4, hi : Nat]
  BY <1>1 DEF ScreenInv, CrtType, Unlocked
<1>3. ShowsOK'
  BY <1>1 DEF ScreenInv, ShowsOK, VgaOK, Shape, Readable, MainOK, FontKept, LauncherOK
<1>4. ServerPos \in Nat /\ ServerPos' = ServerPos /\ LauncherPos' = LauncherPos
  BY <1>1, PositionsNat DEF ScreenInv, ServerPos, LauncherPos
<1>5. PosHi(ServerPos) \in Nat /\ PosLo(ServerPos) \in Nat
  BY <1>4, BytesAreNat
<1>6. crt \in [index : {"hi", "lo", "other"}, hi : Nat, lo : Nat]
      /\ cut' \in [sync : BOOLEAN, hw : BOOLEAN]
  BY <1>1 DEF ScreenInv, CrtType
<1>p. PICK pos \in Nat : pos = ServerPos
  BY <1>4
<1>7. CASE step \in 1..3
  <2>1. PICK n \in 2..4 : n = step + 1
    BY <1>7
  <2>2. g_vga_lock' = [g_vga_lock EXCEPT !.step = n]
    BY <1>1, <1>7, <2>1
  <2>3. /\ g_vga_lock' \in [by : {"main", "key"}, doing : {"sync", "update"}, step : 1..4, hi : Nat]
        /\ g_vga_lock'.step = n /\ g_vga_lock'.doing = "update"
    BY <1>1, <1>2, <2>2
  <2>4. /\ crt' \in [index : {"hi", "lo", "other"}, hi : Nat, lo : Nat]
        /\ ~cut.hw => /\ n = 2 => crt'.index = "hi"
                      /\ n \in {3, 4} => crt'.hi = PosHi(ServerPos)
                      /\ n = 4 => crt'.index = "lo"
    <3>1. CASE step = 1
      BY <1>1, <1>5, <1>6, <2>1, <3>1, CrtOps
    <3>2. CASE step = 2
      <4>1. crt' = CrtWrite(PosHi(ServerPos))
        BY <1>1, <3>2
      <4>2. ~cut.hw => crt.index = "hi"
        BY <1>1, <3>2 DEF ScreenInv, UpdateTrue
      <4> QED BY <1>5, <1>6, <2>1, <3>2, <4>1, <4>2, CrtOps
    <3>3. CASE step = 3
      <4>1. crt' = CrtSelect("lo")
        BY <1>1, <3>3
      <4>2. ~cut.hw => crt.hi = PosHi(ServerPos)
        BY <1>1, <3>3 DEF ScreenInv, UpdateTrue
      <4> QED BY <1>5, <1>6, <2>1, <3>3, <4>1, <4>2, CrtOps
    <3> QED BY <1>7, <3>1, <3>2, <3>3
  <2>5. CrtType' /\ UpdateTrue' /\ SyncTrue' /\ HwTrue'
    BY <1>1, <1>4, <1>6, <2>3, <2>4 DEF CrtType, UpdateTrue, SyncTrue, HwTrue
  <2> QED BY <1>3, <2>5 DEF ScreenInv
<1>8. CASE step = 4
  <2>1. g_vga_lock' = Unlocked /\ crt' = CrtWrite(PosLo(ServerPos))
    BY <1>1, <1>8
  <2>2. ~cut.hw => crt.index = "lo" /\ crt.hi = PosHi(ServerPos)
    BY <1>1, <1>8 DEF ScreenInv, UpdateTrue
  <2>3. /\ crt' \in [index : {"hi", "lo", "other"}, hi : Nat, lo : Nat]
        /\ ~cut.hw => crt'.hi = PosHi(ServerPos) /\ crt'.lo = PosLo(ServerPos)
    BY <1>5, <1>6, <2>1, <2>2, CrtOps
  <2>4. g_vga_lock'.doing = "nothing"
    BY <2>1 DEF Unlocked
  <2>5. CrtType'
    BY <1>6, <2>1, <2>3 DEF CrtType, Unlocked
  <2>6. UpdateTrue' /\ SyncTrue' /\ HwTrue'
    BY <1>1, <1>4, <2>3, <2>4 DEF UpdateTrue, SyncTrue, HwTrue, HwAt
  <2> QED BY <1>3, <2>5, <2>6 DEF ScreenInv
<1> QED BY <1>2, <1>7, <1>8

\* The start-up read.
LEMMA SyncKeeps ==
  ASSUME ScreenInv, term_sync_cursor_from_hw
  PROVE  ScreenInv'
<1>1. CASE SyncLocks
  <2>1. /\ main.pc = "start" /\ g_vga_lock = Unlocked
        /\ g_vga_lock' = [by |-> "main", doing |-> "sync", step |-> 1, hi |-> 0]
        /\ UNCHANGED <<windows, vga, crt, cut, g_mode, saved_font, main, launcher>>
    BY <1>1 DEF SyncLocks, LockedBy
  <2>2. /\ g_vga_lock' \in [by : {"main", "key"}, doing : {"sync", "update"}, step : 1..4, hi : Nat]
        /\ g_vga_lock'.doing = "sync" /\ g_vga_lock'.step = 1 /\ g_vga_lock.doing = "nothing"
    BY <2>1 DEF Unlocked
  <2>3. ShowsOK'
    BY <2>1 DEF ScreenInv, ShowsOK, VgaOK, Shape, Readable, MainOK, FontKept, LauncherOK
  <2>4. CrtType' /\ UpdateTrue' /\ SyncTrue'
    BY <2>1, <2>2 DEF ScreenInv, CrtType, UpdateTrue, SyncTrue
  <2>5. HwTrue'
    BY <2>1, <2>2 DEF ScreenInv, HwTrue, HwAt, ServerPos, LauncherPos
  <2> QED BY <2>3, <2>4, <2>5 DEF ScreenInv
<1>2. CASE SyncAccesses
  <2> DEFINE step == g_vga_lock.step
  <2>1. /\ g_vga_lock.doing = "sync" /\ step < 4
        /\ crt' = CASE step = 1 -> CrtSelect("hi") [] step = 2 -> crt [] step = 3 -> CrtSelect("lo")
        /\ g_vga_lock' = [g_vga_lock EXCEPT !.step = @ + 1, !.hi = IF step = 2 THEN CrtRead ELSE @]
        /\ UNCHANGED <<windows, vga, cut, g_mode, saved_font, main, launcher>>
    BY <1>2 DEF SyncAccesses
  <2>2. g_vga_lock \in [by : {"main", "key"}, doing : {"sync", "update"}, step : 1..4, hi : Nat]
    BY <2>1 DEF ScreenInv, CrtType, Unlocked
  <2>3. crt \in [index : {"hi", "lo", "other"}, hi : Nat, lo : Nat]
        /\ cut' \in [sync : BOOLEAN, hw : BOOLEAN]
    BY <2>1 DEF ScreenInv, CrtType
  <2>4. PICK n \in 2..4 : n = step + 1
    BY <2>1, <2>2
  <2>5. PICK h \in Nat : h = IF step = 2 THEN CrtRead ELSE g_vga_lock.hi
    BY <2>2, <2>3 DEF CrtRead
  <2>6. g_vga_lock' = [g_vga_lock EXCEPT !.step = n, !.hi = h]
    BY <2>1, <2>4, <2>5
  <2>7. /\ g_vga_lock' \in [by : {"main", "key"}, doing : {"sync", "update"}, step : 1..4, hi : Nat]
        /\ g_vga_lock'.step = n /\ g_vga_lock'.hi = h /\ g_vga_lock'.doing = "sync"
    <3>1. n \in 1..4 /\ g_vga_lock.doing = "sync"
      BY <2>1
    <3> QED BY ONLY <2>2, <2>6, <3>1, h \in Nat
  <2>8. /\ crt' \in [index : {"hi", "lo", "other"}, hi : Nat, lo : Nat]
        /\ crt'.hi = crt.hi /\ crt'.lo = crt.lo
        /\ ~cut.sync => /\ n = 2 => crt'.index = "hi"
                        /\ n \in {3, 4} => h = crt'.hi
                        /\ n = 4 => crt'.index = "lo"
    <3>1. CASE step = 1
      BY <2>1, <2>3, <2>4, <3>1, CrtOps
    <3>2. CASE step = 2
      <4>1. ~cut.sync => crt.index = "hi"
        BY <2>1, <3>2 DEF ScreenInv, SyncTrue
      <4> QED BY <2>1, <2>3, <2>4, <2>5, <3>2, <4>1 DEF CrtRead
    <3>3. CASE step = 3
      <4>1. ~cut.sync => g_vga_lock.hi = crt.hi
        BY <2>1, <3>3 DEF ScreenInv, SyncTrue
      <4>2. crt' = CrtSelect("lo")
        BY <2>1, <3>3
      <4> QED BY <2>3, <2>4, <2>5, <3>3, <4>1, <4>2, CrtOps
    <3> QED BY <2>1, <2>2, <3>1, <3>2, <3>3
  <2>9. ShowsOK'
    BY <2>1 DEF ScreenInv, ShowsOK, VgaOK, Shape, Readable, MainOK, FontKept, LauncherOK
  <2>10. CrtType' /\ UpdateTrue'
    BY <2>3, <2>7, <2>8 DEF CrtType, UpdateTrue
  <2>11. SyncTrue'
    BY <2>1, <2>7, <2>8 DEF ScreenInv, SyncTrue
  <2>12. HwTrue'
    BY <2>1, <2>7, <2>8 DEF ScreenInv, HwTrue, HwAt, ServerPos, LauncherPos
  <2> QED BY <2>9, <2>10, <2>11, <2>12 DEF ScreenInv
<1>3. CASE SyncAdopts
  <2>1. /\ g_vga_lock.doing = "sync" /\ g_vga_lock.step = 4
        /\ cut' = [cut EXCEPT !.sync = @ \/ cut.hw]
        /\ g_vga_lock' = Unlocked /\ main' = [main EXCEPT !.pc = "serve"]
        /\ UNCHANGED <<windows, crt, g_mode, saved_font, launcher>>
    BY <1>3 DEF SyncAdopts
  <2>2. PICK pos : pos = g_vga_lock.hi * CrtByte + CrtRead
    OBVIOUS
  <2>3. vga' = [vga EXCEPT !.row = pos \div Width, !.col = pos % Width]
    BY <1>3, <2>2 DEF SyncAdopts
  <2>4. g_vga_lock.hi \in Nat /\ CrtRead \in Nat
    BY <2>1 DEF ScreenInv, CrtType, Unlocked, CrtRead
  <2>5. pos \in Nat
    BY <2>2, <2>4, SizesOfScreen
  <2>6. PICK r \in Nat, c \in Cols : r = pos \div Width /\ c = pos % Width
    BY <2>5, SizesOfScreen DEF Cols
  <2>c. c \in Nat
    BY SizesOfScreen DEF Cols
  <2>7. PICK w : w = [vga EXCEPT !.row = r, !.col = c]
    OBVIOUS
  <2>8. /\ w \in [cells : [Cells -> Writers], row : Nat, col : Nat,
                 mode : {"text", "mode13"}, font : {"font", "wiped"}]
        /\ w.col = c /\ w.row = r /\ w.mode = vga.mode /\ w.font = vga.font
        /\ w.cells = vga.cells /\ vga' = w
    BY <2>3, <2>6, <2>7, <2>c DEF ScreenInv, ShowsOK, VgaOK, Shape
  <2>9. VgaOK(w) /\ Readable(w)
    BY <2>8 DEF ScreenInv, ShowsOK, VgaOK, Shape, Readable
  <2>10. VgaOK(vga)' /\ Readable(vga)' /\ FontKept' /\ LauncherOK'
    BY <2>1, <2>8, <2>9 DEF ScreenInv, ShowsOK, VgaOK, Shape, Readable, FontKept, LauncherOK
  <2>11. MainOK'
    <3>1. main'.pc \in {"serve"} \/ main'.pc = main.pc
      BY <2>1
    <3>2. main.pc = "start"
      BY <2>1 DEF ScreenInv, SyncTrue
    <3> QED BY <2>1, <3>1, <3>2 DEF ScreenInv, ShowsOK, MainOK
  <2>12. cut' \in [sync : BOOLEAN, hw : BOOLEAN] /\ cut'.sync = (cut.sync \/ cut.hw) /\ cut'.hw = cut.hw
    <3>1. cut \in [sync : BOOLEAN, hw : BOOLEAN]
      BY DEF ScreenInv, CrtType
    <3>2. PICK b \in BOOLEAN : b = (cut.sync \/ cut.hw)
      BY <3>1
    <3>3. cut' = [cut EXCEPT !.sync = b]
      BY <2>1, <3>2
    <3> QED BY <3>1, <3>2, <3>3
  <2>13. ~cut'.sync => r \in Rows /\ (HwAt(r * Width + c))
    <3> SUFFICES ASSUME ~cut'.sync PROVE r \in Rows /\ HwAt(r * Width + c)
      OBVIOUS
    <3>1. ~cut.sync /\ ~cut.hw
      BY <2>12
    <3>2. main.pc = "start" /\ vga.mode = "text" /\ g_vga_lock.hi = crt.hi /\ crt.index = "lo"
      BY <2>1, <3>1 DEF ScreenInv, ShowsOK, MainOK, FontKept, SyncTrue
    <3>3. HwAt(ServerPos) \/ HwAt(LauncherPos)
      BY <2>1, <3>1, <3>2 DEF ScreenInv, HwTrue
    <3>4. ServerPos \in Positions /\ LauncherPos \in Positions
      BY <3>1, PositionsNat DEF ScreenInv
    <3>5. PICK x \in Positions : crt.hi = PosHi(x) /\ crt.lo = PosLo(x)
      BY <3>3, <3>4 DEF HwAt
    <3>6. pos = x
      <4>1. PosHi(x) * CrtByte + PosLo(x) = x
        BY BytesOfPosition
      <4> QED BY <2>2, <3>2, <3>5, <4>1 DEF CrtRead
    <3>7. /\ x \div Width \in Rows /\ x % Width \in Cols
          /\ ((x \div Width) * Width) + (x % Width) = x
      BY PositionParts
    <3> QED BY <2>6, <3>5, <3>6, <3>7 DEF HwAt
  <2>14. ShowsOK'
    BY <2>1, <2>8, <2>10, <2>11, <2>13 DEF ScreenInv, ShowsOK
  <2>15. g_vga_lock'.doing = "nothing"
    BY <2>1 DEF Unlocked
  <2>16. CrtType'
    BY <2>1, <2>12 DEF ScreenInv, CrtType, Unlocked
  <2>17. ServerPos' = r * Width + c
    BY <2>8 DEF ServerPos
  <2>18. HwTrue'
    BY <2>1, <2>13, <2>17 DEF HwTrue, HwAt
  <2> QED BY <2>14, <2>15, <2>16, <2>18 DEF ScreenInv, UpdateTrue, SyncTrue
<1> QED BY <1>1, <1>2, <1>3 DEF term_sync_cursor_from_hw

\* A step that leaves the screen and the CRT controller alone.
LEMMA ScreenRests ==
  ASSUME ScreenInv, UNCHANGED <<windows, vga, crtVars, g_mode, saved_font, launcher>>, MainOK',
         main.pc # "start" \/ main'.pc = "start"
  PROVE  ScreenInv'
<1>1. UNCHANGED <<crt, g_vga_lock, cut>>
  BY DEF crtVars
<1>2. ShowsOK'
  BY <1>1 DEF ScreenInv, ShowsOK, VgaOK, Shape, Readable, FontKept, LauncherOK
<1>3. CrtType' /\ UpdateTrue' /\ HwTrue'
  BY <1>1 DEF ScreenInv, CrtType, Unlocked, UpdateTrue, HwTrue, HwAt, ServerPos, LauncherPos
<1>4. SyncTrue'
  BY <1>1 DEF ScreenInv, SyncTrue
<1> QED BY <1>2, <1>3, <1>4 DEF ScreenInv

\* Requests that switch the mode or draw.
LEMMA HandleKeeps ==
  ASSUME ScreenInv, Handle
  PROVE  ScreenInv'
<1>1. /\ main.pc = "handle" /\ main' = [main EXCEPT !.pc = "print"] /\ main.req.kind # "clear"
      /\ g_vga_lock = Unlocked /\ UNCHANGED <<windows, g_vga_lock, launcher>>
  BY DEF Handle
<1>2. VgaOK(vga) /\ windows \in [text : BOOLEAN, frame : BOOLEAN]
      /\ windows.text \in BOOLEAN /\ windows.frame \in BOOLEAN
      /\ main.req.kind \in {"mode13", "mode3", "badmode", "blit"}
  BY <1>1 DEF ScreenInv, ShowsOK, MainOK, PayloadKinds
<1>m. main'.pc \in {"print"} \/ main'.pc = main.pc
  BY <1>1
<1>d. g_vga_lock'.doing = "nothing" /\ g_vga_lock.doing = "nothing"
  BY <1>1 DEF Unlocked
<1>mm. MainOK'
  BY <1>1, <1>m DEF MainOK, ScreenInv, ShowsOK
<1>t. vga.mode \in {"text", "mode13"} /\ (vga.mode = "text" => vga.font = "font")
  BY <1>2 DEF VgaOK, Shape, ScreenInv, ShowsOK, Readable
<1>4. CASE main.req.kind = "mode13"
  <2>1. /\ saved_font' = font_save(vga) /\ vga' = gfx_enter_mode13(vga) /\ g_mode' = "mode13"
        /\ crt' = [index |-> "other", hi |-> 0, lo |-> 0] /\ cut' = cut
    BY <1>4 DEF Handle
  <2>2. /\ VgaOK(vga') /\ vga'.mode = "mode13" /\ (windows.frame \/ vga'.font = vga.font)
        /\ vga'.row = vga.row
    BY <1>2, <2>1, EnterMode13OK
  <2>3. /\ saved_font' \in {"none", "font"}
        /\ IF windows.frame THEN saved_font' = "font" ELSE vga'.font = "font"
    BY <1>2, <2>1, <2>2, <1>t DEF ScreenInv, ShowsOK, FontKept, font_save
  <2>4. FontKept' /\ LauncherOK'
    BY <1>1, <2>1, <2>2, <2>3 DEF FontKept, ScreenInv, ShowsOK, LauncherOK
  <2>6. VgaOK(vga)' /\ Readable(vga)'
    BY <1>1, <2>2 DEF VgaOK, Shape, Readable
  <2>7. ShowsOK'
    BY <1>1, <1>2, <1>mm, <2>1, <2>2, <2>4, <2>6 DEF ScreenInv, ShowsOK
  <2>8. CrtType'
    BY <1>1, <2>1 DEF ScreenInv, CrtType, Unlocked
  <2> QED BY <1>d, <2>2, <2>7, <2>8 DEF ScreenInv, UpdateTrue, SyncTrue, HwTrue
<1>5. CASE main.req.kind = "mode3"
  <2>1. /\ saved_font' = saved_font /\ vga' = gfx_enter_text(vga) /\ g_mode' = "text"
        /\ crt' = CrtAt(vga'.row * Width + vga'.col) /\ cut' = [cut EXCEPT !.hw = FALSE]
    BY <1>5 DEF Handle
  <2>2. vga.font = "font" \/ (windows.frame /\ saved_font = "font")
    BY <1>2, <1>t DEF ScreenInv, ShowsOK, FontKept
  <2>f. saved_font \in {"none", "font"}
    BY DEF ScreenInv, ShowsOK, FontKept
  <2>3. /\ VgaOK(vga') /\ vga'.mode = "text" /\ Readable(vga')
        /\ vga.row \in Rows => vga'.row \in Rows
    BY <1>2, <2>1, <2>2, <2>f, EnterTextOK
  <2>4. FontKept' /\ LauncherOK'
    BY <1>1, <2>1, <2>3, <2>f DEF FontKept, ScreenInv, ShowsOK, LauncherOK
  <2>6. VgaOK(vga)' /\ Readable(vga)'
    BY <1>1, <2>3 DEF VgaOK, Shape, Readable
  <2>c. cut' \in [sync : BOOLEAN, hw : BOOLEAN] /\ cut'.sync = cut.sync
    BY <2>1 DEF ScreenInv, CrtType
  <2>7. ShowsOK'
    BY <1>1, <1>2, <1>mm, <2>3, <2>4, <2>6, <2>c DEF ScreenInv, ShowsOK
  <2>8. PICK pos \in Nat : pos = vga'.row * Width + vga'.col
    <3>1. vga'.row \in Nat /\ vga'.col \in Nat
      BY <2>3 DEF VgaOK, Shape
    <3> QED BY <3>1, SizesOfScreen
  <2>9. crt' = [index |-> "lo", hi |-> PosHi(pos), lo |-> PosLo(pos)] /\ ServerPos' = pos
    BY <2>1, <2>8 DEF CrtAt, ServerPos
  <2>10. crt' \in [index : {"hi", "lo", "other"}, hi : Nat, lo : Nat]
         /\ crt'.hi = PosHi(pos) /\ crt'.lo = PosLo(pos)
    BY <2>9, BytesAreNat
  <2>11. CrtType'
    BY <1>1, <2>c, <2>10 DEF ScreenInv, CrtType, Unlocked
  <2> QED BY <1>d, <2>7, <2>9, <2>10, <2>11 DEF ScreenInv, UpdateTrue, SyncTrue, HwTrue, HwAt
<1>6. CASE main.req.kind = "blit" /\ g_mode = "mode13"
  <2>1. vga' = DrawFrame(vga) /\ UNCHANGED <<crt, cut, g_mode, saved_font>>
    BY <1>6 DEF Handle
  <2>2. /\ VgaOK(vga') /\ vga'.mode = vga.mode /\ (windows.frame \/ vga'.font = vga.font)
        /\ vga'.row = vga.row
    BY <1>2, <2>1, DrawFrameOK
  <2>3. vga.mode = "mode13"
    BY <1>6 DEF ScreenInv, ShowsOK, FontKept
  <2>4. FontKept' /\ LauncherOK'
    BY <1>1, <2>1, <2>2, <2>3 DEF FontKept, ScreenInv, ShowsOK, LauncherOK
  <2>6. VgaOK(vga)' /\ Readable(vga)'
    BY <1>1, <2>2, <2>3 DEF VgaOK, Shape, Readable
  <2>7. ShowsOK'
    BY <1>1, <1>2, <1>mm, <2>1, <2>2, <2>4, <2>6 DEF ScreenInv, ShowsOK
  <2>8. CrtType'
    BY <1>1, <2>1 DEF ScreenInv, CrtType, Unlocked
  <2> QED BY <1>d, <2>2, <2>3, <2>7, <2>8 DEF ScreenInv, UpdateTrue, SyncTrue, HwTrue
<1>7. CASE main.req.kind = "badmode" \/ (main.req.kind = "blit" /\ g_mode # "mode13")
  <2>1. UNCHANGED <<windows, vga, crtVars, g_mode, saved_font, launcher>>
    BY <1>1, <1>7 DEF Handle, crtVars
  <2> QED BY <1>1, <1>mm, <2>1, ScreenRests
<1> QED
  BY <1>2, <1>4, <1>5, <1>6, <1>7

\* Every step of the console keeps the invariant.
LEMMA ScreenNextInv == ScreenInv /\ [ScreenNext]_screenVars => ScreenInv'
<1> SUFFICES ASSUME ScreenInv, [ScreenNext]_screenVars PROVE ScreenInv'
  OBVIOUS
<1>0. VgaOK(vga) /\ windows.text \in BOOLEAN /\ MainOK
  BY DEF ScreenInv, ShowsOK
<1>2. ASSUME UNCHANGED <<windows, vga, crtVars, g_mode, saved_font, main, launcher>>
      PROVE  ScreenInv'
  <2>1. MainOK'
    BY <1>0, <1>2 DEF MainOK
  <2> QED BY <1>2, <2>1, ScreenRests
<1>3. CASE kterm_write
  BY <1>3, LauncherWrites
<1>4. CASE term_sync_cursor_from_hw
  BY <1>4, SyncKeeps
<1>u. CASE term_cursor_update
  BY <1>u, UpdateKeeps
<1>5. ASSUME NEW r \in Payloads, GetReq(r) PROVE ScreenInv'
  <2>1. /\ main' = [pc |-> IF r.kind = "text" THEN "print" ELSE "handle", req |-> r,
                    rest |-> IF r.kind = "text" /\ g_mode = "text" THEN r.text ELSE << >>]
        /\ UNCHANGED <<windows, vga, crtVars, g_mode, saved_font, launcher>> /\ main.pc = "serve"
    BY <1>5 DEF GetReq
  <2>2. MainOK' /\ main'.pc # "start"
    BY <2>1, ConsoleAssumption DEF MainOK
  <2> QED BY <2>1, <2>2, ScreenRests
<1>6. CASE term_print
  <2>1. /\ main' = [main EXCEPT !.rest = Tail(@)] /\ main.pc = "print"
        /\ Section("main", Printed(vga, Head(main.rest)), MovesCursor(Head(main.rest)))
        /\ UNCHANGED <<g_mode, saved_font, launcher>>
    BY <1>6 DEF term_print
  <2>2. MainOK'
    <3>1. main'.pc = main.pc
      BY <2>1
    <3> QED BY <2>1, <3>1 DEF MainOK
  <2>3. PICK w : w = Printed(vga, Head(main.rest))
    OBVIOUS
  <2>4. PICK moves \in BOOLEAN : moves = MovesCursor(Head(main.rest))
    BY <1>0 DEF MovesCursor
  <2>5. VgaOK(w) /\ Writes(vga, w) /\ (moves \/ w = vga)
    BY <1>0, <2>3, <2>4, PrintedOK
  <2> QED BY <2>1, <2>2, <2>3, <2>4, <2>5, SectionKeeps
<1>c. CASE HandleClear
  <2>1. /\ main' = [main EXCEPT !.pc = "print"] /\ main.pc = "handle"
        /\ Section("main", term_clear_screen(vga), TRUE)
        /\ UNCHANGED <<g_mode, saved_font, launcher>>
    BY <1>c DEF HandleClear
  <2>2. MainOK'
    <3>1. main'.pc \in {"print"} \/ main'.pc = main.pc
      BY <2>1
    <3> QED BY <1>0, <2>1, <3>1 DEF MainOK
  <2>3. PICK w : w = term_clear_screen(vga)
    OBVIOUS
  <2>4. VgaOK(w) /\ Writes(vga, w)
    BY <1>0, <2>3, ClearOK
  <2> QED BY <2>1, <2>2, <2>3, <2>4, SectionKeeps
<1>7. CASE Handle
  BY <1>7, HandleKeeps
<1>8. CASE Reply
  <2>1. MainOK' /\ main'.pc = "serve" /\ main.pc = "print"
    BY <1>8 DEF Reply, MainOK
  <2> QED BY <1>8, <2>1, ScreenRests DEF Reply
<1>9. CASE KeyEcho
  <2>1. /\ Section("key", term_putc(vga, "c", "key"), MovesCursor("c"))
        /\ UNCHANGED <<g_mode, saved_font, main, launcher>>
    BY <1>9 DEF KeyEcho
  <2>2. MainOK'
    BY <1>0, <2>1 DEF MainOK
  <2>3. PICK w : w = term_putc(vga, "c", "key")
    OBVIOUS
  <2>4. PICK moves \in BOOLEAN : moves = MovesCursor("c")
    BY <1>0 DEF MovesCursor
  <2>5. VgaOK(w) /\ Writes(vga, w) /\ (moves \/ w = vga)
    BY <1>0, <2>3, <2>4, PutcOK DEF MovesCursor
  <2> QED BY <2>1, <2>2, <2>3, <2>4, <2>5, SectionKeeps
<1>10. CASE KeySubscribe \/ KeyListen \/ KbWait \/ KbDrain \/ KbDrained
  BY <1>2, <1>10 DEF KeySubscribe, KeyListen, KbWait, KbDrain, KbDrained
<1>11. ASSUME NEW c \in Scancodes, Type(c) PROVE ScreenInv'
  BY <1>2, <1>11 DEF Type
<1>12. CASE UNCHANGED screenVars
  BY <1>2, <1>12 DEF screenVars
<1> QED
  BY <1>3, <1>4, <1>u, <1>5, <1>6, <1>c, <1>7, <1>8, <1>9, <1>10, <1>11, <1>12 DEF ScreenNext

\* What is on the screen stays in order on a screen of any size, whatever clients
\* send, whenever keys are echoed and wherever kterm prints.
THEOREM ScreenInvariant == ScreenSpec => []ScreenInv
BY ScreenInitInv, ScreenNextInv, PTL DEF ScreenSpec

\* On a screen of any size: unless kterm printed between the port accesses of
\* the start-up read, the cursor stays on the screen, and unless it printed
\* between those of the last update, the hardware cursor stands where the next
\* character goes (term_putc, term_scroll_up, term_cursor_update,
\* term_sync_cursor_from_hw, kterm_write, one port access at a time).
THEOREM ScreenCursorTrue == ScreenSpec => []CursorTrue
BY InvIsCursorTrue, ScreenInvariant, PTL

\* Text mode always finds its font, and no frame shines through (font_save,
\* font_load, gfx_enter_text).
THEOREM ScreenTextReadable == ScreenSpec => []TextReadable
<1>1. ScreenInv => TextReadable
  BY DEF ScreenInv, ShowsOK, Readable, TextReadable
<1> QED BY <1>1, ScreenInvariant, PTL

-----------------------------------------------------------------------------
(* The keys *)

\* What is on its way or was seen, oldest first.
Path == seen \o mails \o slot

KeysType ==
  /\ typed \in Seq(Scancodes) /\ seen \in Seq(Nat) /\ mails \in Seq(Nat)
  /\ slot = << >> \/ (slot = <<Len(typed)>> /\ Len(typed) > 0)
  /\ kb \in [pc : {"wait", "drain"}, drained : 0..DrainMax]
  /\ irqs \in Nat /\ since \in Nat /\ short \in BOOLEAN
  /\ key = "start" => mails = << >> /\ seen = << >>

\* The numbers on the path rise and are those of scancodes that were typed.
Rising == \A i, j \in 1..Len(Path) : i < j => Path[i] < Path[j]
Typed == \A i \in 1..Len(Path) : Path[i] <= Len(typed)

\* While memory suffices nothing is missing on the path.
Whole ==
  ~short /\ key # "start" =>
    /\ since <= Len(typed) /\ Len(Path) = Len(typed) - since
    /\ \A i \in 1..Len(Path) : Path[i] = since + i

Noticed == ~short /\ slot # << >> => irqs > 0 \/ (kb.pc = "drain" /\ kb.drained < DrainMax)

\* The inductive invariant of the keys.
KeysInv == KeysType /\ Rising /\ Typed /\ Whole /\ Noticed

\* Taking the first of a queue to the end of what was seen moves no key.
LEMMA QueueMoves ==
  ASSUME NEW a \in Seq(Nat), NEW b \in Seq(Nat), NEW c \in Seq(Nat), b # << >>
  PROVE  Append(a, Head(b)) \o Tail(b) \o c = a \o b \o c
OBVIOUS

\* A key goes from the controller to the end of the mailbox, or is gone.
LEMMA QueueTakes ==
  ASSUME NEW a \in Seq(Nat), NEW b \in Seq(Nat), NEW c \in Nat
  PROVE  /\ a \o Append(b, c) \o << >> = a \o b \o <<c>>
         /\ Len(a \o b \o <<c>>) = Len(a \o b \o << >>) + 1
         /\ \A i \in 1..Len(a \o b \o << >>) : (a \o b \o << >>)[i] = (a \o b \o <<c>>)[i]
OBVIOUS

\* A key is typed.
LEMMA QueueGrows ==
  ASSUME NEW a \in Seq(Nat), NEW b \in Seq(Nat), NEW c \in Nat
  PROVE  /\ a \o b \o << >> \in Seq(Nat)
         /\ a \o b \o <<c>> = Append(a \o b \o << >>, c)
OBVIOUS

\* The path is a sequence.
LEMMA PathType == KeysType => Path \in Seq(Nat) /\ slot \in Seq(Nat)
<1> SUFFICES ASSUME KeysType PROVE Path \in Seq(Nat) /\ slot \in Seq(Nat)
  OBVIOUS
<1>1. Len(typed) \in Nat
  BY DEF KeysType
<1>2. << >> \in Seq(Nat) /\ <<Len(typed)>> \in Seq(Nat)
  BY <1>1
<1>3. slot \in Seq(Nat) /\ seen \in Seq(Nat) /\ mails \in Seq(Nat)
  BY <1>2 DEF KeysType
<1> QED BY <1>3 DEF Path

\* The invariant says what it should.
LEMMA InvIsKeysKept == KeysInv => KeysKept
<1> SUFFICES ASSUME KeysInv PROVE KeysKept
  OBVIOUS
<1>1. Path \in Seq(Nat)
  BY PathType DEF KeysInv
<1>2. DOMAIN Path = 1..Len(Path) /\ Path = [i \in 1..Len(Path) |-> Path[i]]
  BY <1>1
<1>3. \A i, j \in DOMAIN Path : i < j => Path[i] < Path[j]
  BY <1>2 DEF KeysInv, Rising
<1>4. ~short /\ key # "start" => Path = [i \in 1..(Len(typed) - since) |-> since + i]
  <2> SUFFICES ASSUME ~short, key # "start"
               PROVE  Path = [i \in 1..(Len(typed) - since) |-> since + i]
    OBVIOUS
  <2>1. Len(Path) = Len(typed) - since /\ \A i \in 1..Len(Path) : Path[i] = since + i
    BY DEF KeysInv, Whole
  <2>2. [i \in 1..Len(Path) |-> Path[i]] = [i \in 1..Len(Path) |-> since + i]
    BY <2>1
  <2>3. [i \in 1..Len(Path) |-> since + i] = [i \in 1..(Len(typed) - since) |-> since + i]
    BY <2>1
  <2> QED BY <1>2, <2>2, <2>3
<1>5. ~short => (slot # << >> => irqs > 0 \/ (kb.pc = "drain" /\ kb.drained < DrainMax))
  BY DEF KeysInv, Noticed
<1> QED BY <1>3, <1>4, <1>5 DEF KeysKept, Path

\* Every step keeps the keys in order.
LEMMA KeysNextInv == KeysInv /\ [ScreenNext]_screenVars => KeysInv'
<1> SUFFICES ASSUME KeysInv, [ScreenNext]_screenVars PROVE KeysInv'
  OBVIOUS
<1> USE DEF KeysInv
<1>0. /\ Path \in Seq(Nat) /\ slot \in Seq(Nat) /\ Len(typed) \in Nat /\ Len(Path) \in Nat
      /\ seen \in Seq(Nat) /\ mails \in Seq(Nat) /\ since \in Nat
  <2>1. KeysType
    OBVIOUS
  <2>2. Path \in Seq(Nat) /\ slot \in Seq(Nat)
    BY <2>1, PathType
  <2>3. Len(Path) \in Nat
    BY <2>2
  <2>4. typed \in Seq(Scancodes) /\ seen \in Seq(Nat) /\ mails \in Seq(Nat) /\ since \in Nat
    BY <2>1 DEF KeysType
  <2>5. Len(typed) \in Nat
    BY <2>4
  <2> QED BY <2>2, <2>3, <2>4, <2>5
<1>1. ASSUME UNCHANGED <<keyVars, key>> PROVE KeysInv'
  BY <1>1 DEF KeysType, Rising, Typed, Whole, Noticed, Path, keyVars
<1>e. CASE KeyEcho
  <2>1. UNCHANGED keyVars /\ key = "echo" /\ key' = "listen"
    BY <1>e DEF KeyEcho
  <2>2. UNCHANGED <<mails, kb, irqs, slot, typed, seen, since, short>>
    BY <2>1 DEF keyVars
  <2> QED BY <2>1, <2>2 DEF KeysType, Rising, Typed, Whole, Noticed, Path
<1>s. CASE KeySubscribe
  <2>1. /\ key = "start" /\ key' = "listen" /\ since' = Len(typed) - Len(slot)
        /\ UNCHANGED <<mails, kb, irqs, slot, typed, seen, short>>
    BY <1>s DEF KeySubscribe
  <2>2. mails = << >> /\ seen = << >>
    BY <2>1 DEF KeysType
  <2>3. Path = slot
    BY <1>0, <2>2 DEF Path
  <2>4. Path' = Path
    BY <2>1 DEF Path
  <2>5. CASE slot = << >>
    <3>1. since' = Len(typed) /\ Len(Path) = 0
      BY <1>0, <2>1, <2>3, <2>5
    <3> QED BY <1>0, <2>1, <2>4, <3>1 DEF KeysType, Rising, Typed, Whole, Noticed
  <2>6. CASE slot = <<Len(typed)>> /\ Len(typed) > 0
    <3>1. since' = Len(typed) - 1 /\ Len(Path) = 1 /\ Path[1] = Len(typed) /\ since' \in Nat
      BY <1>0, <2>1, <2>3, <2>6
    <3>2. KeysType' /\ Rising' /\ Typed' /\ Noticed'
      BY <2>1, <2>4, <3>1 DEF KeysType, Rising, Typed, Noticed
    <3>3. Whole'
      BY <1>0, <2>1, <2>4, <3>1 DEF Whole
    <3> QED BY <3>2, <3>3
  <2> QED BY <2>5, <2>6 DEF KeysType
<1>2. CASE KeyListen
  <2>1. /\ mails # << >> /\ mails' = Tail(mails) /\ seen' = Append(seen, Head(mails))
        /\ key = "listen" /\ key' \in {"echo", "listen"}
        /\ UNCHANGED <<kb, irqs, slot, typed, since, short>>
    BY <1>2 DEF KeyListen
  <2>2. Path' = Path
    <3>1. Append(seen, Head(mails)) \o Tail(mails) \o slot = seen \o mails \o slot
      BY <1>0, <2>1, QueueMoves
    <3> QED BY <2>1, <3>1 DEF Path
  <2>3. mails' \in Seq(Nat) /\ seen' \in Seq(Nat)
    BY <1>0, <2>1
  <2> QED BY <2>1, <2>2, <2>3 DEF KeysType, Rising, Typed, Whole, Noticed
<1>3. ASSUME NEW c \in Scancodes, Type(c) PROVE KeysInv'
  <2> DEFINE n == Len(typed) + 1
  <2>1. /\ slot = << >> /\ slot' = <<n>> /\ typed' = Append(typed, c)
        /\ (irqs' = irqs + 1 /\ short' = short) \/ (irqs' = irqs /\ short' = TRUE)
        /\ UNCHANGED <<mails, kb, seen, since, key>>
    BY <1>3 DEF Type
  <2>2. typed' \in Seq(Scancodes) /\ Len(typed') = n /\ n \in Nat /\ n > 0
    BY <1>0, <2>1 DEF KeysType
  <2>3. Path' = Append(Path, n)
    <3>1. seen \o mails \o <<n>> = Append(seen \o mails \o << >>, n)
      BY <1>0, <2>2, QueueGrows
    <3> QED BY <2>1, <3>1 DEF Path
  <2>4. /\ Len(Path') = Len(Path) + 1 /\ Path'[Len(Path) + 1] = n
        /\ \A i \in 1..Len(Path) : Path'[i] = Path[i]
    BY <1>0, <2>2, <2>3
  <2> HIDE DEF n
  <2>n. n = Len(typed) + 1
    BY DEF n
  <2>5. KeysType'
    <3>1. irqs' \in Nat
      BY <2>1 DEF KeysType
    <3>2. short' \in BOOLEAN
      BY <2>1, Zenon DEF KeysType
    <3> QED BY <2>1, <2>2, <3>1, <3>2 DEF KeysType
  <2>i. \A i \in 1..Len(Path') : i \in 1..Len(Path) \/ i = Len(Path) + 1
    BY <1>0, <2>4
  <2>p. \A i \in 1..Len(Path) : Path[i] \in Nat
    BY <1>0
  <2>6. Rising'
    <3> SUFFICES ASSUME NEW i \in 1..Len(Path'), NEW j \in 1..Len(Path'), i < j
                 PROVE  Path'[i] < Path'[j]
      BY DEF Rising
    <3>1. i \in 1..Len(Path)
      BY <1>0, <2>4
    <3>2. CASE j \in 1..Len(Path)
      BY <2>4, <3>1, <3>2 DEF Rising
    <3>3. CASE j = Len(Path) + 1
      <4>1. Path'[i] = Path[i] /\ Path[i] \in Nat /\ Path[i] <= Len(typed)
        BY <2>4, <2>p, <3>1 DEF Typed
      <4>2. Path'[j] = n
        BY <2>4, <3>3
      <4> QED BY <1>0, <2>n, <4>1, <4>2
    <3> QED BY <2>i, <3>2, <3>3
  <2>7. Typed'
    <3> SUFFICES ASSUME NEW i \in 1..Len(Path') PROVE Path'[i] <= n
      BY <2>2 DEF Typed
    <3>1. CASE i \in 1..Len(Path)
      <4>1. Path'[i] = Path[i] /\ Path[i] \in Nat /\ Path[i] <= Len(typed)
        BY <2>4, <2>p, <3>1 DEF Typed
      <4> QED BY <1>0, <2>n, <4>1
    <3>2. CASE i = Len(Path) + 1
      BY <2>2, <2>4, <3>2
    <3> QED BY <2>i, <3>1, <3>2
  <2>8. Whole'
    <3> SUFFICES ASSUME ~short', key' # "start"
                 PROVE  /\ since <= n /\ Len(Path') = n - since
                        /\ \A i \in 1..Len(Path') : Path'[i] = since + i
      BY <2>1, <2>2 DEF Whole
    <3>1. ~short /\ key # "start"
      BY <2>1 DEF KeysType
    <3>2. /\ since <= Len(typed) /\ Len(Path) = Len(typed) - since
          /\ \A i \in 1..Len(Path) : Path[i] = since + i
      BY <3>1 DEF Whole
    <3>3. since <= n /\ Len(Path') = n - since
      BY <1>0, <2>4, <2>n, <3>2
    <3>4. ASSUME NEW i \in 1..Len(Path') PROVE Path'[i] = since + i
      <4>1. CASE i \in 1..Len(Path)
        BY <2>4, <3>2, <4>1
      <4>2. CASE i = Len(Path) + 1
        BY <1>0, <2>4, <2>n, <3>2, <4>2
      <4> QED BY <2>i, <4>1, <4>2
    <3> QED BY <3>3, <3>4
  <2>9. Noticed'
    <3>1. ~short' => irqs' > 0
      BY <2>1 DEF KeysType
    <3> QED BY <3>1 DEF Noticed
  <2> QED BY <2>5, <2>6, <2>7, <2>8, <2>9
<1>4. CASE KbWait
  <2>1. /\ irqs > 0 /\ irqs' = irqs - 1 /\ kb' = [pc |-> "drain", drained |-> 0]
        /\ UNCHANGED <<mails, slot, typed, seen, key, since, short>>
    BY <1>4 DEF KbWait
  <2>2. irqs' \in Nat /\ kb'.pc = "drain" /\ kb'.drained = 0 /\ 0 < DrainMax /\ DrainMax \in Nat
        /\ kb' \in [pc : {"wait", "drain"}, drained : 0..DrainMax]
    BY <2>1, SizesOfScreen DEF KeysType
  <2>3. Path' = Path
    BY <2>1 DEF Path
  <2> QED BY <2>1, <2>2, <2>3 DEF KeysType, Rising, Typed, Whole, Noticed
<1>5. CASE KbDrain
  <2>1. /\ kb.pc = "drain" /\ kb.drained < DrainMax /\ slot # << >> /\ slot' = << >>
        /\ kb' = [kb EXCEPT !.drained = @ + 1] /\ Broadcast(slot[1])
        /\ UNCHANGED <<irqs, seen, typed, key, since>>
    BY <1>5 DEF KbDrain
  <2>2. PICK c \in Nat : slot = <<c>> /\ c = Len(typed) /\ slot[1] = c
    BY <1>0, <2>1 DEF KeysType
  <2>3. kb' \in [pc : {"wait", "drain"}, drained : 0..DrainMax]
    <3>d. PICK d \in 0..DrainMax : d = kb.drained
      BY DEF KeysType
    <3>1. PICK n \in 0..DrainMax : n = kb.drained + 1
      <4>1. d < DrainMax /\ DrainMax \in Nat
        BY <2>1, <3>d, SizesOfScreen
      <4>2. d + 1 \in 0..DrainMax
        BY <4>1
      <4> QED BY <3>d, <4>2
    <3>2. kb' = [kb EXCEPT !.drained = n]
      BY <2>1, <3>1
    <3> QED BY <3>2 DEF KeysType
  <2>4. /\ seen \o Append(mails, c) \o << >> = Path
        /\ Len(Path) = Len(seen \o mails \o << >>) + 1
        /\ \A i \in 1..Len(seen \o mails \o << >>) : (seen \o mails \o << >>)[i] = Path[i]
    <3>1. /\ seen \o Append(mails, c) \o << >> = seen \o mails \o <<c>>
          /\ Len(seen \o mails \o <<c>>) = Len(seen \o mails \o << >>) + 1
          /\ \A i \in 1..Len(seen \o mails \o << >>) :
               (seen \o mails \o << >>)[i] = (seen \o mails \o <<c>>)[i]
      BY <1>0, QueueTakes
    <3>2. Path = seen \o mails \o <<c>>
      BY <2>2 DEF Path
    <3> QED BY <3>1, <3>2
  <2>5. CASE key # "start" /\ mails' = Append(mails, c) /\ short' = short
    <3>1. mails' \in Seq(Nat)
      BY <1>0, <2>2, <2>5
    <3>2. Path' = seen \o Append(mails, c) \o << >>
      BY <2>1, <2>5 DEF Path
    <3>3. Path' = Path
      BY <2>4, <3>2
    <3> QED BY <2>1, <2>3, <2>5, <3>1, <3>3 DEF KeysType, Rising, Typed, Whole, Noticed
  <2>6. CASE mails' = mails /\ ((key = "start" /\ short' = short) \/ (key # "start" /\ short' = TRUE))
    <3>1. Path' = seen \o mails \o << >>
      BY <2>1, <2>6 DEF Path
    <3>2. Path' \in Seq(Nat)
      BY <1>0, <3>1
    <3>3. /\ Len(Path') \in Nat /\ Len(Path) = Len(Path') + 1
          /\ \A i \in 1..Len(Path') : Path'[i] = Path[i] /\ i \in 1..Len(Path)
      BY <2>4, <3>1, <3>2
    <3>4. KeysType'
      BY <2>1, <2>3, <2>6 DEF KeysType
    <3>5. Rising' /\ Typed'
      BY <2>1, <3>3 DEF Rising, Typed
    <3>6. Whole' /\ Noticed'
      BY <2>1, <2>6 DEF Whole, Noticed
    <3> QED BY <3>4, <3>5, <3>6
  <2>7. Broadcast(c)
    BY <2>1, <2>2
  <2>8. \/ key # "start" /\ mails' = Append(mails, c) /\ short' = short
        \/ mails' = mails /\ ((key = "start" /\ short' = short) \/ (key # "start" /\ short' = TRUE))
    <3>1. \/ key # "start" /\ mails' = Append(mails, c) /\ short' = short
          \/ key # "start" /\ short' = TRUE /\ mails' = mails
          \/ key = "start" /\ mails' = mails /\ short' = short
      BY <2>7, Zenon DEF Broadcast
    <3> QED BY <3>1, Zenon
  <2> QED BY <2>5, <2>6, <2>8
<1>6. CASE KbDrained
  <2>1. /\ kb.pc = "drain" /\ (kb.drained = DrainMax \/ slot = << >>)
        /\ kb' = [pc |-> "wait", drained |-> 0]
        /\ UNCHANGED <<mails, irqs, slot, typed, seen, key, since, short>>
    BY <1>6 DEF KbDrained
  <2>2. kb' \in [pc : {"wait", "drain"}, drained : 0..DrainMax]
    BY <2>1, SizesOfScreen
  <2>3. ~short /\ slot # << >> => irqs > 0
    BY <2>1, SizesOfScreen DEF Noticed, KeysType
  <2>4. Path' = Path
    BY <2>1 DEF Path
  <2> QED BY <2>1, <2>2, <2>3, <2>4 DEF KeysType, Rising, Typed, Whole, Noticed
<1>7. CASE kterm_write \/ term_sync_cursor_from_hw \/ term_cursor_update \/ term_print
           \/ HandleClear \/ Handle \/ Reply
  BY <1>1, <1>7 DEF kterm_write, term_sync_cursor_from_hw, SyncLocks, SyncAccesses, SyncAdopts,
                    term_cursor_update, term_print, HandleClear, Handle, Reply
<1>8. ASSUME NEW r \in Payloads, GetReq(r) PROVE KeysInv'
  BY <1>1, <1>8 DEF GetReq
<1>9. CASE UNCHANGED screenVars
  BY <1>1, <1>9 DEF screenVars
<1> QED
  BY <1>e, <1>s, <1>2, <1>3, <1>4, <1>5, <1>6, <1>7, <1>8, <1>9 DEF ScreenNext

\* No scancode is doubled or overtaken between the controller and the key
\* thread, whichever allocations fail (alloc_mail in dispatch_user_mode_irq and
\* in kb_broadcast_key).  While none fails, none is lost behind the subscription,
\* however many the drain loop takes at a time, and one that waits in the
\* controller will be noticed.
THEOREM ScreenKeysKept == ScreenSpec => []KeysKept
<1>1. ScreenInit => KeysInv
  <2> SUFFICES ASSUME ScreenInit PROVE KeysInv
    OBVIOUS
  <2>1. /\ typed = << >> /\ seen = << >> /\ mails = << >> /\ slot = << >> /\ since = 0
        /\ irqs = 0 /\ short = FALSE /\ key = "start" /\ kb = [pc |-> "wait", drained |-> 0]
    BY DEF ScreenInit
  <2>2. Path = << >> /\ Len(Path) = 0
    BY <2>1 DEF Path
  <2>3. KeysType
    <3>1. << >> \in Seq(Scancodes) /\ << >> \in Seq(Nat)
      OBVIOUS
    <3>2. kb \in [pc : {"wait", "drain"}, drained : 0..DrainMax]
      BY <2>1, SizesOfScreen
    <3>3. irqs \in Nat /\ since \in Nat
      BY <2>1
    <3>4. short \in BOOLEAN
      BY <2>1, Zenon
    <3>5. typed \in Seq(Scancodes) /\ seen \in Seq(Nat) /\ mails \in Seq(Nat)
      BY <2>1, <3>1
    <3>6. slot = << >> /\ mails = << >> /\ seen = << >>
      BY <2>1
    <3> QED BY <3>2, <3>3, <3>4, <3>5, <3>6, Zenon DEF KeysType
  <2>4. Rising /\ Typed
    BY <2>2 DEF Rising, Typed
  <2>5. Whole /\ Noticed
    BY <2>1 DEF Whole, Noticed
  <2> QED BY <2>3, <2>4, <2>5 DEF KeysInv
<1> QED
  BY <1>1, InvIsKeysKept, KeysNextInv, PTL DEF ScreenSpec

-----------------------------------------------------------------------------
(* The namespace *)

Entry == [name : Servers, portal : Nat]

NamesType ==
  /\ up \in BOOLEAN
  /\ ns_table \in Seq(Entry) /\ owner \in Seq(Servers)
  /\ server \in [Servers -> [pc : {"init", "register", "serve"}, portal : Nat, tries : Nat]]
  /\ client \in [Clients -> [pc : {"resolve", "call", "idle"}, name : Servers, cached : Nat,
                             tries : Nat]]
  /\ registered \in [Servers -> Nat]

\* Portal id is one that s published.
PortalOf(id, s) == id \in 1..Len(owner) /\ owner[id] = s

\* A table is a map from names to portals of their servers: the one that reg
\* records for each name.
MapTable(t, reg) ==
  /\ \A i, j \in 1..Len(t) : t[i].name = t[j].name => i = j
  /\ \A i \in 1..Len(t) : PortalOf(t[i].portal, t[i].name) /\ reg[t[i].name] = t[i].portal
  /\ \A s \in Servers : (\A i \in 1..Len(t) : t[i].name # s) => reg[s] = 0

\* A server that has left "init" has a portal of its own.
OwnPortals == \A s \in Servers : server[s].pc # "init" => PortalOf(server[s].portal, s)

\* RightServer
OwnCaches == \A c \in Clients : client[c].cached # 0 => PortalOf(client[c].cached, client[c].name)

\* The inductive invariant of the namespace.
NamesInv ==
  /\ NamesType
  /\ ~up => ns_table = << >>
  /\ MapTable(ns_table, registered) /\ OwnPortals /\ OwnCaches

\* An entry has a name and a portal.
LEMMA EntryFields ==
  ASSUME NEW t \in Seq(Entry), NEW i \in 1..Len(t)
  PROVE  t[i].name \in Servers /\ t[i].portal \in Nat
<1>1. t[i] \in Entry
  OBVIOUS
<1> QED BY <1>1 DEF Entry

\* ns_find: the entry of the name, or 0 when there is none.
LEMMA FindEntry ==
  ASSUME NamesInv, NEW s \in Servers
  PROVE  \/ ns_find(s) = 0 /\ \A i \in 1..Len(ns_table) : ns_table[i].name # s
         \/ ns_find(s) \in 1..Len(ns_table) /\ ns_table[ns_find(s)].name = s
<1> DEFINE I == {i \in 1..Len(ns_table) : ns_table[i].name = s}
<1>1. ns_find(s) = IF I # {} THEN Min(I) ELSE 0
  BY DEF ns_find, SelectInSeq
<1>2. CASE I = {}
  BY <1>1, <1>2
<1>3. CASE I # {}
  <2>1. PICK i \in 1..Len(ns_table) : ns_table[i].name = s
    BY <1>3
  <2>2. I = {i}
    BY <2>1 DEF NamesInv, MapTable
  <2>3. i <= i
    BY <2>1 DEF NamesInv, NamesType
  <2>4. Min(I) = i
    BY <2>2, <2>3 DEF Min
  <2> QED BY <1>1, <1>3, <2>1, <2>4
<1> QED BY <1>2, <1>3

\* A lookup gives what was registered last.
LEMMA LookupRegistered ==
  ASSUME NamesInv, NEW s \in Servers
  PROVE  /\ up => Lookup(s) = registered[s]
         /\ Lookup(s) # 0 => PortalOf(Lookup(s), s)
         /\ Lookup(s) \in Nat
<1>1. CASE ns_find(s) = 0 /\ \A i \in 1..Len(ns_table) : ns_table[i].name # s
  BY <1>1 DEF Lookup, NamesInv, MapTable
<1>2. CASE ns_find(s) \in 1..Len(ns_table) /\ ns_table[ns_find(s)].name = s
  <2>1. PICK i \in 1..Len(ns_table) : i = ns_find(s) /\ ns_table[i].name = s
    BY <1>2
  <2>2. i # 0 /\ ns_table[i].portal \in Nat
    BY <2>1, EntryFields DEF NamesInv, NamesType
  <2>3. registered[s] = ns_table[i].portal /\ PortalOf(ns_table[i].portal, s)
    BY <2>1 DEF NamesInv, MapTable
  <2>4. Lookup(s) = IF up THEN ns_table[i].portal ELSE 0
    BY <2>1, <2>2 DEF Lookup, NamesInv, NamesType
  <2> QED BY <2>2, <2>3, <2>4 DEF NamesInv, NamesType
<1> QED BY <1>1, <1>2, FindEntry

\* NS_REGISTER with an entry of the name.
LEMMA OverwriteEntry ==
  ASSUME NamesInv, NEW s \in Servers, NEW id \in Nat, PortalOf(id, s),
         NEW f \in 1..Len(ns_table), ns_table[f].name = s
  PROVE  LET t == [ns_table EXCEPT ![f] = [name |-> s, portal |-> id]]
             reg == [registered EXCEPT ![s] = id]
         IN  t \in Seq(Entry) /\ reg \in [Servers -> Nat] /\ MapTable(t, reg)
<1> DEFINE e == [name |-> s, portal |-> id]
           t == [ns_table EXCEPT ![f] = e]
           reg == [registered EXCEPT ![s] = id]
<1>1. ns_table \in Seq(Entry) /\ registered \in [Servers -> Nat]
      /\ MapTable(ns_table, registered)
  BY DEF NamesInv, NamesType
<1>2. e \in Entry /\ e.name = s /\ e.portal = id
  BY DEF Entry
<1> HIDE DEF e
<1>3. /\ t \in Seq(Entry) /\ Len(t) = Len(ns_table) /\ t[f] = e
      /\ \A i \in 1..Len(ns_table) : i # f => t[i] = ns_table[i]
  BY <1>1, <1>2
<1>4. /\ reg \in [Servers -> Nat] /\ reg[s] = id
      /\ \A u \in Servers : u # s => reg[u] = registered[u]
  BY <1>1
<1>5. \A i \in 1..Len(ns_table) : ns_table[i].name \in Servers
  BY <1>1, EntryFields
<1> HIDE DEF t, reg
<1>6. \A i \in 1..Len(t) : t[i].name = ns_table[i].name
  BY <1>2, <1>3
<1>7. \A i, j \in 1..Len(t) : t[i].name = t[j].name => i = j
  BY <1>1, <1>3, <1>6 DEF MapTable
<1>8. ASSUME NEW i \in 1..Len(t)
      PROVE  PortalOf(t[i].portal, t[i].name) /\ reg[t[i].name] = t[i].portal
  <2>1. CASE i = f
    BY <1>2, <1>3, <1>4, <2>1
  <2>2. CASE i # f
    <3>1. ns_table[i].name # s
      BY <1>1, <1>3, <1>8, <2>2 DEF MapTable
    <3> QED BY <1>1, <1>3, <1>4, <1>5, <1>8, <2>2, <3>1 DEF MapTable
  <2> QED BY <2>1, <2>2
<1>9. \A u \in Servers : (\A i \in 1..Len(t) : t[i].name # u) => reg[u] = 0
  BY <1>1, <1>2, <1>3, <1>4, <1>6 DEF MapTable
<1>10. MapTable(t, reg)
  BY <1>7, <1>8, <1>9 DEF MapTable
<1> QED BY <1>3, <1>4, <1>10 DEF t, reg, e

\* NS_REGISTER of a new name.
LEMMA AppendEntry ==
  ASSUME NamesInv, NEW s \in Servers, NEW id \in Nat, PortalOf(id, s),
         \A i \in 1..Len(ns_table) : ns_table[i].name # s
  PROVE  LET t == Append(ns_table, [name |-> s, portal |-> id])
             reg == [registered EXCEPT ![s] = id]
         IN  t \in Seq(Entry) /\ reg \in [Servers -> Nat] /\ MapTable(t, reg)
<1> DEFINE e == [name |-> s, portal |-> id]
           t == Append(ns_table, e)
           reg == [registered EXCEPT ![s] = id]
<1>1. ns_table \in Seq(Entry) /\ registered \in [Servers -> Nat]
      /\ MapTable(ns_table, registered)
  BY DEF NamesInv, NamesType
<1>2. e \in Entry /\ e.name = s /\ e.portal = id
  BY DEF Entry
<1> HIDE DEF e
<1>n. PICK n \in Nat : n = Len(ns_table)
  BY <1>1
<1>3. /\ t \in Seq(Entry) /\ Len(t) = n + 1 /\ t[n + 1] = e
      /\ \A i \in 1..n : t[i] = ns_table[i]
  BY <1>1, <1>2, <1>n
<1>4. /\ reg \in [Servers -> Nat] /\ reg[s] = id
      /\ \A u \in Servers : u # s => reg[u] = registered[u]
  BY <1>1
<1>5. \A i \in 1..n : ns_table[i].name \in Servers /\ ns_table[i].name # s
  BY <1>1, <1>n, EntryFields
<1>6. /\ \A i, j \in 1..n : ns_table[i].name = ns_table[j].name => i = j
      /\ \A i \in 1..n : /\ PortalOf(ns_table[i].portal, ns_table[i].name)
                         /\ registered[ns_table[i].name] = ns_table[i].portal
      /\ \A u \in Servers : (\A i \in 1..n : ns_table[i].name # u) => registered[u] = 0
  BY <1>1, <1>n DEF MapTable
<1>c. \A i \in 1..(n + 1) : i \in 1..n \/ i = n + 1
  OBVIOUS
<1>d. 1..n \subseteq 1..(n + 1) /\ n + 1 \in 1..(n + 1) /\ n + 1 \notin 1..n
  OBVIOUS
<1> HIDE DEF t, reg
<1>7. \A i, j \in 1..(n + 1) : t[i].name = t[j].name => i = j
  BY <1>2, <1>3, <1>5, <1>6, <1>c
<1>8. ASSUME NEW i \in 1..(n + 1)
      PROVE  PortalOf(t[i].portal, t[i].name) /\ reg[t[i].name] = t[i].portal
  <2>1. CASE i = n + 1
    BY <1>2, <1>3, <1>4, <2>1
  <2>2. CASE i \in 1..n
    BY <1>3, <1>4, <1>5, <1>6, <2>2, SMTT(30)
  <2> QED BY <1>c, <2>1, <2>2
<1>9. \A u \in Servers : (\A i \in 1..(n + 1) : t[i].name # u) => reg[u] = 0
  BY <1>2, <1>3, <1>4, <1>6, <1>d
<1>10. MapTable(t, reg)
  BY <1>3, <1>7, <1>8, <1>9 DEF MapTable
<1> QED BY <1>3, <1>4, <1>10 DEF t, reg, e

\* What \o returns.
LEMMA Concatenated ==
  ASSUME NEW S, NEW x \in Seq(S), NEW y \in Seq(S)
  PROVE  x \o y \in Seq(S) /\ Len(x \o y) = Len(x) + Len(y)
OBVIOUS

\* RemoveAt closes the gap.
LEMMA RemovedAt ==
  ASSUME NEW S, NEW q \in Seq(S), NEW f \in 1..Len(q)
  PROVE  LET t == RemoveAt(q, f)
         IN  /\ t \in Seq(S) /\ Len(t) = Len(q) - 1
             /\ \A i \in 1..(Len(q) - 1) : t[i] = IF i < f THEN q[i] ELSE q[i + 1]
<1> PICK n \in Nat : n = Len(q)
  OBVIOUS
<1> DEFINE a == SubSeq(q, 1, f - 1)
           b == SubSeq(q, f + 1, n)
           t == a \o b
<1>1. f \in Nat /\ 1 <= f /\ f <= n
  OBVIOUS
<1>2. a \in Seq(S) /\ Len(a) = f - 1 /\ \A i \in 1..(f - 1) : a[i] = q[i]
  BY <1>1
<1>3. b \in Seq(S) /\ Len(b) = n - f /\ \A i \in 1..(n - f) : b[i] = q[i + f]
  BY <1>1
<1> HIDE DEF a, b
<1>4. t \in Seq(S) /\ Len(t) = n - 1
  <2>1. t \in Seq(S) /\ Len(t) = Len(a) + Len(b)
    BY <1>2, <1>3, Concatenated
  <2>2. Len(a) = f - 1 /\ Len(b) = n - f
    BY <1>2, <1>3
  <2> HIDE DEF t
  <2>3. Len(t) = n - 1
    BY <1>1, <2>1, <2>2
  <2> QED BY <2>1, <2>3
<1>5. ASSUME NEW i \in 1..(n - 1) PROVE t[i] = IF i < f THEN q[i] ELSE q[i + 1]
  <2>1. CASE i < f
    <3>1. i \in 1..(f - 1) /\ i \in 1..Len(a)
      BY <1>1, <1>2, <2>1
    <3> QED BY <1>2, <1>3, <2>1, <3>1
  <2>2. CASE ~(i < f)
    <3>1. PICK j \in 1..(n - f) : j = i - (f - 1)
      BY <1>1, <2>2
    <3>2. t[i] = b[j]
      BY <1>1, <1>2, <1>3, <2>2, <3>1
    <3>3. b[j] = q[j + f] /\ j + f = i + 1
      BY <1>1, <1>3, <3>1
    <3> QED BY <2>2, <3>2, <3>3
  <2> QED BY <2>1, <2>2
<1>6. RemoveAt(q, f) = t
  BY DEF RemoveAt, a, b
<1> HIDE DEF t
<1> QED BY <1>4, <1>5, <1>6

\* NS_UNREGISTER
LEMMA RemoveEntry ==
  ASSUME NamesInv, NEW s \in Servers, NEW f \in 1..Len(ns_table), ns_table[f].name = s
  PROVE  LET t == RemoveAt(ns_table, f)
             reg == [registered EXCEPT ![s] = 0]
         IN  t \in Seq(Entry) /\ reg \in [Servers -> Nat] /\ MapTable(t, reg)
<1> DEFINE t == RemoveAt(ns_table, f)
           reg == [registered EXCEPT ![s] = 0]
           From(i) == IF i < f THEN i ELSE i + 1
<1>1. ns_table \in Seq(Entry) /\ registered \in [Servers -> Nat]
      /\ MapTable(ns_table, registered)
  BY DEF NamesInv, NamesType
<1>n. PICK n \in Nat : n = Len(ns_table) /\ f \in 1..n
  BY <1>1
<1>2. /\ t \in Seq(Entry) /\ Len(t) = n - 1
      /\ \A i \in 1..(n - 1) : t[i] = ns_table[From(i)]
  <2>1. /\ t \in Seq(Entry) /\ Len(t) = Len(ns_table) - 1
        /\ \A i \in 1..(Len(ns_table) - 1) :
             t[i] = IF i < f THEN ns_table[i] ELSE ns_table[i + 1]
    BY <1>1, RemovedAt
  <2> HIDE DEF t
  <2> QED BY <1>n, <2>1
<1>3. /\ reg \in [Servers -> Nat] /\ reg[s] = 0
      /\ \A u \in Servers : u # s => reg[u] = registered[u]
  BY <1>1
<1>4. \A i \in 1..n : ns_table[i].name \in Servers
  BY <1>1, <1>n, EntryFields
<1>5. /\ \A i, j \in 1..n : ns_table[i].name = ns_table[j].name => i = j
      /\ \A i \in 1..n : /\ PortalOf(ns_table[i].portal, ns_table[i].name)
                         /\ registered[ns_table[i].name] = ns_table[i].portal
      /\ \A u \in Servers : (\A i \in 1..n : ns_table[i].name # u) => registered[u] = 0
  BY <1>1, <1>n DEF MapTable
<1>6. /\ \A i \in 1..(n - 1) : From(i) \in 1..n /\ From(i) # f
      /\ \A i, j \in 1..(n - 1) : From(i) = From(j) => i = j
  BY <1>n
<1>7. \A j \in 1..n : j # f => \E i \in 1..(n - 1) : From(i) = j
  <2> SUFFICES ASSUME NEW j \in 1..n, j # f PROVE \E i \in 1..(n - 1) : From(i) = j
    OBVIOUS
  <2>1. CASE j < f
    <3>1. j \in 1..(n - 1) /\ From(j) = j
      BY <1>n, <2>1
    <3> QED BY <3>1
  <2>2. CASE j > f
    <3>1. j - 1 \in 1..(n - 1) /\ From(j - 1) = j
      BY <1>n, <2>2
    <3> QED BY <3>1
  <2> QED BY <1>n, <2>1, <2>2
<1> HIDE DEF t, reg, From
<1>8. \A i \in 1..(n - 1) : t[i].name # s /\ t[i].name \in Servers
  BY <1>n, <1>2, <1>4, <1>5, <1>6
<1>9. \A i, j \in 1..(n - 1) : t[i].name = t[j].name => i = j
  BY <1>2, <1>5, <1>6
<1>10. \A i \in 1..(n - 1) : PortalOf(t[i].portal, t[i].name) /\ reg[t[i].name] = t[i].portal
  <2> SUFFICES ASSUME NEW i \in 1..(n - 1)
               PROVE  PortalOf(t[i].portal, t[i].name) /\ reg[t[i].name] = t[i].portal
    OBVIOUS
  <2>1. PICK j \in 1..n : t[i] = ns_table[j]
    BY <1>2, <1>6
  <2>2. PortalOf(t[i].portal, t[i].name) /\ registered[t[i].name] = t[i].portal
    BY <1>5, <2>1
  <2> QED BY <1>3, <1>8, <2>2
<1>11. \A u \in Servers : (\A i \in 1..(n - 1) : t[i].name # u) => reg[u] = 0
  <2> SUFFICES ASSUME NEW u \in Servers, \A i \in 1..(n - 1) : t[i].name # u, u # s
               PROVE  reg[u] = 0
    BY <1>3
  <2>1. \A j \in 1..n : ns_table[j].name # u
    BY <1>2, <1>7
  <2> QED BY <1>3, <1>5, <2>1
<1>12. MapTable(t, reg)
  BY <1>2, <1>9, <1>10, <1>11 DEF MapTable
<1> QED BY <1>2, <1>3, <1>12 DEF t, reg

\* Nothing is published before the first step.
LEMMA NamesInitInv == NamesInit => NamesInv
<1> SUFFICES ASSUME NamesInit PROVE NamesInv
  OBVIOUS
<1>1. NamesType
  <2>1. up \in BOOLEAN /\ ns_table \in Seq(Entry) /\ owner \in Seq(Servers)
        /\ registered \in [Servers -> Nat]
    <3>1. up = FALSE /\ ns_table = << >> /\ owner = << >> /\ registered = [s \in Servers |-> 0]
      BY DEF NamesInit
    <3>2. << >> \in Seq(Entry) /\ << >> \in Seq(Servers)
      OBVIOUS
    <3>3. [s \in Servers |-> 0] \in [Servers -> Nat]
      OBVIOUS
    <3> QED BY <3>1, <3>2, <3>3, Zenon
  <2>2. server \in [Servers -> [pc : {"init", "register", "serve"}, portal : Nat, tries : Nat]]
    BY DEF NamesInit
  <2>3. client \in [Clients -> [pc : {"resolve", "call", "idle"}, name : Servers, cached : Nat,
                                tries : Nat]]
    <3>1. {[pc |-> "resolve", name |-> s, cached |-> 0, tries |-> 0] : s \in Servers}
          \subseteq [pc : {"resolve", "call", "idle"}, name : Servers, cached : Nat, tries : Nat]
      OBVIOUS
    <3>2. client \in [Clients -> {[pc |-> "resolve", name |-> s, cached |-> 0, tries |-> 0] :
                                  s \in Servers}]
      BY DEF NamesInit
    <3> QED BY <3>1, <3>2
  <2> QED BY <2>1, <2>2, <2>3 DEF NamesType
<1>2. ns_table = << >> /\ Len(ns_table) = 0 /\ registered = [s \in Servers |-> 0]
  BY DEF NamesInit
<1>3. MapTable(ns_table, registered)
  BY <1>2 DEF MapTable
<1>4. OwnPortals /\ OwnCaches
  BY DEF NamesInit, OwnPortals, OwnCaches
<1> QED BY <1>1, <1>2, <1>3, <1>4 DEF NamesInv

\* Every step of servers, clients and the namespace keeps the invariant.
LEMMA NamesNextInv == NamesInv /\ [NamesNext]_nameVars => NamesInv'
<1> SUFFICES ASSUME NamesInv, [NamesNext]_nameVars PROVE NamesInv'
  OBVIOUS
<1>t. NamesType
  BY DEF NamesInv
<1>1. CASE UNCHANGED nameVars
  BY <1>1 DEF nameVars, NamesInv, NamesType, MapTable, PortalOf, OwnPortals, OwnCaches
<1>2. CASE NamespaceUp
  BY <1>2 DEF NamespaceUp, NamesInv, NamesType, MapTable, PortalOf, OwnPortals, OwnCaches
<1>3. ASSUME NEW s \in Servers, Publish(s) PROVE NamesInv'
  <2>1. /\ owner' = Append(owner, s)
        /\ server' = [server EXCEPT ![s] = [pc |-> "register", portal |-> Len(owner'),
                                            tries |-> 0]]
        /\ UNCHANGED <<up, ns_table, client, registered>>
    BY <1>3 DEF Publish
  <2>2. PICK n \in Nat : n = Len(owner)
    BY <1>t DEF NamesType
  <2>3. /\ owner' \in Seq(Servers) /\ Len(owner') = n + 1 /\ owner'[n + 1] = s
        /\ \A i \in 1..n : owner'[i] = owner[i]
    BY <1>t, <2>1, <2>2 DEF NamesType
  <2>4. \A id, u : PortalOf(id, u) => PortalOf(id, u)'
    BY <2>2, <2>3 DEF PortalOf
  <2>5. PortalOf(n + 1, s)'
    BY <2>3 DEF PortalOf
  <2>6. NamesType'
    BY <1>t, <2>1, <2>3 DEF NamesType
  <2>7. MapTable(ns_table, registered)'
    BY <2>1, <2>4 DEF NamesInv, MapTable
  <2>8. OwnPortals'
    <3> SUFFICES ASSUME NEW u \in Servers, server'[u].pc # "init"
                 PROVE  PortalOf(server[u].portal, u)'
      BY DEF OwnPortals
    <3>1. CASE u = s
      <4>1. server'[u].portal = n + 1
        BY <1>t, <2>1, <2>3, <3>1 DEF NamesType
      <4> QED BY <2>5, <3>1, <4>1 DEF PortalOf
    <3>2. CASE u # s
      <4>1. server'[u] = server[u]
        BY <1>t, <2>1, <3>2 DEF NamesType
      <4>2. PortalOf(server[u].portal, u)
        BY <4>1 DEF NamesInv, OwnPortals
      <4> QED BY <2>4, <4>1, <4>2 DEF PortalOf
    <3> QED BY <3>1, <3>2
  <2>9. OwnCaches'
    BY <2>1, <2>4 DEF NamesInv, OwnCaches
  <2> QED BY <2>1, <2>6, <2>7, <2>8, <2>9 DEF NamesInv
<1>4. ASSUME NEW s \in Servers, Register(s) PROVE NamesInv'
  <2>1. /\ server[s].pc = "register"
        /\ server' = [server EXCEPT ![s].tries = @ + 1,
                        ![s].pc = IF Accepted(s) \/ server[s].tries + 1 = MaxTries
                                  THEN "serve" ELSE @]
        /\ ns_table' = IF up THEN TableWith(s, server[s].portal) ELSE ns_table
        /\ registered' = IF Accepted(s) THEN [registered EXCEPT ![s] = server[s].portal]
                                        ELSE registered
        /\ UNCHANGED <<up, owner, client>>
    BY <1>4 DEF Register
  <2>2. PICK id \in Nat : id = server[s].portal /\ PortalOf(id, s)
    BY <1>t, <2>1 DEF NamesType, NamesInv, OwnPortals
  <2>3. /\ server' \in [Servers -> [pc : {"init", "register", "serve"}, portal : Nat, tries : Nat]]
        /\ \A u \in Servers : server'[u].portal = server[u].portal
        /\ \A u \in Servers : server'[u].pc # "init" => server[u].pc # "init"
    <3>1. PICK pc : pc = IF Accepted(s) \/ server[s].tries + 1 = MaxTries
                         THEN "serve" ELSE server[s].pc
      OBVIOUS
    <3>2. pc \in {"register", "serve"}
      BY <2>1, <3>1
    <3>3. PICK k \in Nat : k = server[s].tries + 1
      BY <1>t DEF NamesType
    <3>4. server' = [server EXCEPT ![s].tries = k, ![s].pc = pc]
      BY <1>t, <2>1, <3>1, <3>3 DEF NamesType
    <3>5. server' \in [Servers -> [pc : {"init", "register", "serve"}, portal : Nat, tries : Nat]]
      BY <1>t, <3>2, <3>4, ZenonT(60) DEF NamesType
    <3>6. /\ server'[s].portal = server[s].portal
          /\ \A u \in Servers : u # s => server'[u] = server[u]
      BY <1>t, <3>4 DEF NamesType
    <3> QED BY <2>1, <3>5, <3>6
  <2>4. /\ ns_table' \in Seq(Entry) /\ registered' \in [Servers -> Nat]
        /\ MapTable(ns_table', registered')
        /\ ~up => ns_table' = << >>
    <3> DEFINE e == [name |-> s, portal |-> id]
               reg == [registered EXCEPT ![s] = id]
    <3>f. \/ ns_find(s) = 0 /\ \A i \in 1..Len(ns_table) : ns_table[i].name # s
          \/ ns_find(s) \in 1..Len(ns_table) /\ ns_table[ns_find(s)].name = s
      BY FindEntry
    <3>0. ns_table \in Seq(Entry) /\ registered \in [Servers -> Nat]
          /\ MapTable(ns_table, registered) /\ (~up => ns_table = << >>)
      BY DEF NamesInv, NamesType
    <3>1. CASE up /\ ns_find(s) # 0
      <4>1. PICK f \in 1..Len(ns_table) : f = ns_find(s) /\ ns_table[f].name = s
        BY <3>f, <3>1
      <4>2. ns_table' = [ns_table EXCEPT ![f] = e]
        BY <2>1, <2>2, <3>1, <4>1 DEF TableWith
      <4>3. registered' = reg
        BY <2>1, <2>2, <3>1 DEF Accepted
      <4>4. LET t == [ns_table EXCEPT ![f] = e]
            IN  t \in Seq(Entry) /\ reg \in [Servers -> Nat] /\ MapTable(t, reg)
        BY <2>2, <4>1, OverwriteEntry
      <4> QED BY <3>1, <4>2, <4>3, <4>4
    <3>2. CASE up /\ ns_find(s) = 0 /\ Len(ns_table) < NS_MAX_ENTRIES
      <4>1. \A i \in 1..Len(ns_table) : ns_table[i].name # s
        BY <3>f, <3>2
      <4>2. ns_table' = Append(ns_table, e)
        BY <2>1, <2>2, <3>2 DEF TableWith
      <4>3. registered' = reg
        BY <2>1, <2>2, <3>2 DEF Accepted
      <4>4. LET t == Append(ns_table, e)
            IN  t \in Seq(Entry) /\ reg \in [Servers -> Nat] /\ MapTable(t, reg)
        BY <2>2, <4>1, AppendEntry
      <4> QED BY <3>2, <4>2, <4>3, <4>4
    <3>3. CASE up /\ ns_find(s) = 0 /\ ~(Len(ns_table) < NS_MAX_ENTRIES)
      <4>1. ns_table' = ns_table /\ registered' = registered
        BY <2>1, <3>3 DEF TableWith, Accepted
      <4> QED BY <3>0, <3>3, <4>1
    <3>4. CASE ~up
      <4>1. ns_table' = ns_table /\ registered' = registered
        BY <2>1, <3>4 DEF Accepted
      <4> QED BY <3>0, <4>1
    <3> QED BY <1>t, <3>1, <3>2, <3>3, <3>4 DEF NamesType
  <2>5. MapTable(ns_table, registered)'
    BY <2>1, <2>4 DEF MapTable, PortalOf
  <2>6. OwnPortals' /\ OwnCaches'
    BY <2>1, <2>3 DEF NamesInv, OwnPortals, OwnCaches, PortalOf
  <2>7. NamesType'
    BY <1>t, <2>1, <2>3, <2>4 DEF NamesType
  <2> QED BY <2>1, <2>4, <2>5, <2>6, <2>7 DEF NamesInv
<1>5. ASSUME NEW s \in Servers, Unregister(s) PROVE NamesInv'
  <2>1. /\ up /\ ns_find(s) # 0 /\ ns_table' = RemoveAt(ns_table, ns_find(s))
        /\ registered' = [registered EXCEPT ![s] = 0]
        /\ server' = [server EXCEPT ![s].pc = "init"]
        /\ UNCHANGED <<up, owner, client>>
    BY <1>5 DEF Unregister
  <2>2. PICK f \in 1..Len(ns_table) : f = ns_find(s) /\ ns_table[f].name = s
    BY <2>1, FindEntry
  <2>3. /\ server' \in [Servers -> [pc : {"init", "register", "serve"}, portal : Nat, tries : Nat]]
        /\ server'[s].pc = "init"
        /\ \A u \in Servers : u # s => server'[u] = server[u]
    BY <1>t, <2>1, ZenonT(60) DEF NamesType
  <2>4. LET t == RemoveAt(ns_table, f)
            reg == [registered EXCEPT ![s] = 0]
        IN  t \in Seq(Entry) /\ reg \in [Servers -> Nat] /\ MapTable(t, reg)
    BY <2>2, RemoveEntry
  <2>5. ns_table' \in Seq(Entry) /\ registered' \in [Servers -> Nat]
        /\ MapTable(ns_table', registered')
    BY <2>1, <2>2, <2>4
  <2>6. MapTable(ns_table, registered)'
    BY <2>1, <2>5 DEF MapTable, PortalOf
  <2>7. OwnPortals' /\ OwnCaches'
    BY <2>1, <2>3 DEF NamesInv, OwnPortals, OwnCaches, PortalOf
  <2>8. NamesType'
    BY <1>t, <2>1, <2>3, <2>5 DEF NamesType
  <2> QED BY <2>1, <2>6, <2>7, <2>8 DEF NamesInv
<1>c. ASSUME NEW c \in Clients,
             client' \in [Clients -> [pc : {"resolve", "call", "idle"}, name : Servers,
                                      cached : Nat, tries : Nat]],
             client'[c].name = client[c].name,
             \A d \in Clients : d # c => client'[d] = client[d],
             client'[c].cached # 0 => PortalOf(client'[c].cached, client[c].name),
             UNCHANGED <<up, ns_table, owner, server, registered>>
      PROVE  NamesInv'
  <2>1. NamesType'
    BY <1>t, <1>c DEF NamesType
  <2>2. OwnCaches'
    BY <1>c DEF NamesInv, OwnCaches, PortalOf
  <2> QED BY <1>c, <2>1, <2>2 DEF NamesInv, MapTable, PortalOf, OwnPortals
<1>d. ASSUME NEW c \in Clients
      PROVE  /\ client[c].pc \in {"resolve", "call", "idle"} /\ client[c].name \in Servers
             /\ client[c].cached \in Nat /\ client[c].tries \in Nat
             /\ client[c].cached # 0 => PortalOf(client[c].cached, client[c].name)
  BY <1>t DEF NamesType, NamesInv, OwnCaches
<1>6. ASSUME NEW c \in Clients, Resolve(c) PROVE NamesInv'
  <2>1. PICK id : id = IF client[c].cached # 0 THEN client[c].cached ELSE Lookup(client[c].name)
    OBVIOUS
  <2>2. id \in Nat /\ (id # 0 => PortalOf(id, client[c].name))
    BY <1>d, <2>1, LookupRegistered
  <2>3. PICK k : k = IF id = 0 THEN client[c].tries + 1 ELSE client[c].tries
    OBVIOUS
  <2>4. PICK pc : pc = IF id # 0 THEN "call"
                       ELSE IF client[c].tries + 1 = MaxTries THEN "idle" ELSE client[c].pc
    OBVIOUS
  <2>5. k \in Nat /\ pc \in {"resolve", "call", "idle"}
    BY <1>d, <2>3, <2>4
  <2>6. client' = [client EXCEPT ![c].cached = id, ![c].tries = k, ![c].pc = pc]
        /\ UNCHANGED <<up, ns_table, owner, server, registered>>
    BY <1>6, <1>t, <2>1, <2>3, <2>4 DEF Resolve, NamesType
  <2>7. /\ client' \in [Clients -> [pc : {"resolve", "call", "idle"}, name : Servers,
                                    cached : Nat, tries : Nat]]
        /\ client'[c].name = client[c].name /\ client'[c].cached = id
        /\ \A d \in Clients : d # c => client'[d] = client[d]
    BY <1>t, <2>2, <2>5, <2>6, ZenonT(60) DEF NamesType
  <2> QED BY <1>c, <2>2, <2>6, <2>7
<1>7. ASSUME NEW c \in Clients, Call(c) PROVE NamesInv'
  <2>u. UNCHANGED <<up, ns_table, owner, server, registered>>
    BY <1>7 DEF Call
  <2>1. CASE client' = [client EXCEPT ![c].pc = "idle"]
    <3>1. /\ client' \in [Clients -> [pc : {"resolve", "call", "idle"}, name : Servers,
                                      cached : Nat, tries : Nat]]
          /\ client'[c].name = client[c].name /\ client'[c].cached = client[c].cached
          /\ \A d \in Clients : d # c => client'[d] = client[d]
      BY <1>t, <2>1 DEF NamesType
    <3> QED BY <1>c, <1>d, <2>u, <3>1
  <2>2. CASE client' = [client EXCEPT ![c].cached = 0, ![c].tries = @ + 1,
                          ![c].pc = IF client[c].tries + 1 = MaxTries THEN "idle" ELSE "resolve"]
    <3>1. PICK k \in Nat : k = client[c].tries + 1
      BY <1>d
    <3>2. PICK pc \in {"resolve", "call", "idle"} :
            pc = IF client[c].tries + 1 = MaxTries THEN "idle" ELSE "resolve"
      OBVIOUS
    <3>3. client' = [client EXCEPT ![c].cached = 0, ![c].tries = k, ![c].pc = pc]
      BY <1>t, <2>2, <3>1, <3>2 DEF NamesType
    <3>4. /\ client' \in [Clients -> [pc : {"resolve", "call", "idle"}, name : Servers,
                                      cached : Nat, tries : Nat]]
          /\ client'[c].name = client[c].name /\ client'[c].cached = 0
          /\ \A d \in Clients : d # c => client'[d] = client[d]
      BY <1>t, <3>3, ZenonT(60) DEF NamesType
    <3> QED BY <1>c, <2>u, <3>4
  <2> QED BY <1>7, <2>1, <2>2 DEF Call
<1>8. ASSUME NEW c \in Clients, Again(c) PROVE NamesInv'
  <2>1. client' = [client EXCEPT ![c].pc = "resolve", ![c].tries = 0]
        /\ UNCHANGED <<up, ns_table, owner, server, registered>>
    BY <1>8 DEF Again
  <2>2. /\ client' \in [Clients -> [pc : {"resolve", "call", "idle"}, name : Servers,
                                    cached : Nat, tries : Nat]]
        /\ client'[c].name = client[c].name /\ client'[c].cached = client[c].cached
        /\ \A d \in Clients : d # c => client'[d] = client[d]
    BY <1>t, <2>1 DEF NamesType
  <2> QED BY <1>c, <1>d, <2>1, <2>2
<1> QED
  BY <1>1, <1>2, <1>3, <1>4, <1>5, <1>6, <1>7, <1>8 DEF NamesNext

\* The namespace's invariant, for any servers, clients and table size.
THEOREM NamesInvariant == NamesSpec => []NamesInv
BY NamesInitInv, NamesNextInv, PTL DEF NamesSpec

\* For a table of any size, a lookup gives what was registered last under the
\* name (NS_REGISTER, NS_UNREGISTER, NS_LOOKUP of the namespace server).
THEOREM NamesLookupTrue == NamesSpec => []LookupTrue
<1>1. NamesInv => LookupTrue
  <2> SUFFICES ASSUME NamesInv PROVE LookupTrue
    OBVIOUS
  <2>1. \A s \in Servers : up => Lookup(s) = registered[s]
    BY LookupRegistered
  <2>2. \A i, j \in DOMAIN ns_table : ns_table[i].name = ns_table[j].name => i = j
    BY SMTT(30) DEF NamesInv, NamesType, MapTable
  <2> QED BY <2>1, <2>2 DEF LookupTrue
<1> QED BY <1>1, NamesInvariant, PTL

\* However old its cache is, a client calls a portal of the server that owns the
\* name (ns_portal_id).
THEOREM NamesRightServer == NamesSpec => []RightServer
<1>1. NamesInv => RightServer
  BY DEF NamesInv, NamesType, OwnCaches, PortalOf, RightServer
<1> QED BY <1>1, NamesInvariant, PTL

-----------------------------------------------------------------------------
(* The pool of locks *)

\* A set of slots that is not empty has a least one: the intervals below its
\* members are finite sets, which proper inclusion orders well.
LEMMA LeastSlot ==
  ASSUME NEW T \in SUBSET Nat, T # {}
  PROVE  Min(T) \in T
<1> DEFINE Below == {0..(x - 1) : x \in T}
<1>1. Below \subseteq FiniteSubsetsOf(Nat)
  <2>1. \A x \in T : 0..(x - 1) \in SUBSET Nat /\ IsFiniteSet(0..(x - 1))
    BY FS_Interval
  <2> QED BY <2>1 DEF FiniteSubsetsOf
<1>2. Below # {}
  OBVIOUS
<1>3. PICK b \in Below : \A c \in Below : ~(<<c, b>> \in StrictSubsetOrdering(Nat))
  <2> HIDE DEF Below
  <2> QED BY <1>1, <1>2, FS_StrictSubsetOrderingWellFounded, WFMin
<1>4. PICK x \in T : b = 0..(x - 1)
  OBVIOUS
<1>5. ASSUME NEW y \in T, y < x PROVE FALSE
  <2>1. 0..(y - 1) \in Below /\ y \in 0..(x - 1) /\ y \notin 0..(y - 1)
    BY <1>5
  <2>2. 0..(y - 1) \subseteq 0..(x - 1) /\ 0..(y - 1) # 0..(x - 1)
    BY <1>5, <2>1
  <2>3. <<0..(y - 1), 0..(x - 1)>> \in StrictSubsetOrdering(Nat)
    BY <2>2 DEF StrictSubsetOrdering
  <2> QED BY <1>3, <1>4, <2>1, <2>3
<1>6. \A y \in T : x =< y
  BY <1>5
<1> QED BY <1>6 DEF Min

\* spinlock_alloc hands out a slot that is not taken, or none.
LEMMA AllocFree ==
  ASSUME NEW used
  PROVE  spinlock_alloc(used) = 0 \/ spinlock_alloc(used) \in Slots \ used
<1>1. CASE Slots \subseteq used
  BY <1>1 DEF spinlock_alloc
<1>2. CASE ~(Slots \subseteq used)
  <2>1. Slots \ used \in SUBSET Nat /\ Slots \ used # {}
    BY <1>2, LocksAssumption DEF Slots
  <2>2. Min(Slots \ used) \in Slots \ used
    BY <2>1, LeastSlot
  <2> QED BY <1>2, <2>2 DEF spinlock_alloc
<1> QED BY <1>1, <1>2

\* No lock has the number 0.
LEMMA NoSlotZero == 0 \notin Slots /\ Boot \subseteq Slots /\ Slots \subseteq Nat
BY LocksAssumption DEF Slots

\* The account of an assignment L of locks to fields when T is taken.
Kept(L, T) ==
  /\ L \in [Fields -> Nat] /\ T \subseteq Slots /\ Boot \subseteq T
  /\ \A o \in Fields : L[o] # 0 => L[o] \in T /\ L[o] \notin Boot
  /\ \A o, q \in Fields : L[o] # 0 /\ L[o] = L[q] => o = q

\* Slots that are taken and in no field.
Unowned(L, T, x) == x \in T /\ x \notin Boot /\ \A o \in Fields : L[o] = 0 \/ L[o] # x

\* The fields N, without a lock in L, get locks of their own in M.
Takes(L, T, N, M, T2) ==
  /\ M \in [Fields -> Nat] /\ N \subseteq Fields
  /\ \A o \in Fields \ N : M[o] = L[o]
  /\ \A o \in N : L[o] = 0 /\ (M[o] = 0 \/ M[o] \in Slots \ T)
  /\ \A o, q \in N : M[o] # 0 /\ M[o] = M[q] => o = q
  /\ T2 = T \cup {M[o] : o \in {q \in N : M[q] # 0}}

\* Nothing is lost then.
LEMMA TakeKept ==
  ASSUME NEW L, NEW T, NEW N, NEW M, NEW T2, Kept(L, T), Takes(L, T, N, M, T2)
  PROVE  Kept(M, T2) /\ \A x : Unowned(M, T2, x) => Unowned(L, T, x)
<1>0. /\ M \in [Fields -> Nat] /\ N \subseteq Fields
      /\ \A o \in Fields \ N : M[o] = L[o]
      /\ \A o \in N : L[o] = 0 /\ (M[o] = 0 \/ M[o] \in Slots \ T)
      /\ \A o, q \in N : M[o] # 0 /\ M[o] = M[q] => o = q
      /\ T2 = T \cup {M[o] : o \in {q \in N : M[q] # 0}}
  BY DEF Takes
<1>1. \A o \in Fields \ N : M[o] # 0 => M[o] \in T /\ M[o] \notin Boot
  BY <1>0 DEF Kept
<1>2. \A o \in N : M[o] # 0 => M[o] \in T2 /\ M[o] \notin T /\ M[o] \notin Boot /\ M[o] \in Slots
  BY <1>0 DEF Kept
<1>3. T \subseteq T2 /\ T2 \subseteq Slots /\ Boot \subseteq T2
  BY <1>0, <1>2 DEF Kept
<1>4. \A o \in Fields : M[o] # 0 => M[o] \in T2 /\ M[o] \notin Boot
  BY <1>0, <1>1, <1>2, <1>3
<1>5. ASSUME NEW o \in Fields, NEW q \in Fields, M[o] # 0, M[o] = M[q] PROVE o = q
  <2>1. CASE o \in N /\ q \in N
    BY <1>0, <1>5, <2>1
  <2>2. CASE o \notin N /\ q \notin N
    BY <1>0, <1>5, <2>2 DEF Kept
  <2>3. CASE (o \in N /\ q \notin N) \/ (o \notin N /\ q \in N)
    BY <1>0, <1>1, <1>2, <1>5, <2>3
  <2> QED BY <2>1, <2>2, <2>3
<1>6. ASSUME NEW x, Unowned(M, T2, x) PROVE Unowned(L, T, x)
  <2>1. x \in T2 /\ x \notin Boot /\ \A o \in Fields : M[o] = 0 \/ M[o] # x
    BY <1>6 DEF Unowned
  <2>2. x \in T
    BY <1>0, <2>1
  <2>3. ASSUME NEW o \in Fields PROVE L[o] = 0 \/ L[o] # x
    BY <1>0, <2>1
  <2> QED BY <2>1, <2>2, <2>3 DEF Unowned
<1> QED BY <1>0, <1>3, <1>4, <1>5, <1>6 DEF Kept

\* The fields F and G lose their locks, and those of F go back to the pool.
Drops(L, T, F, G, M, T2) ==
  /\ F \subseteq Fields /\ G \subseteq Fields
  /\ M = [o \in Fields |-> IF o \in F \cup G THEN 0 ELSE L[o]]
  /\ T2 = T \ {L[o] : o \in F}

\* Only those of G can be lost then.
LEMMA DropKept ==
  ASSUME NEW L, NEW T, NEW F, NEW G, NEW M, NEW T2, Kept(L, T), Drops(L, T, F, G, M, T2)
  PROVE  /\ Kept(M, T2)
         /\ \A x : Unowned(M, T2, x) => Unowned(L, T, x) \/ \E o \in G : L[o] = x
<1>0. /\ F \subseteq Fields /\ G \subseteq Fields
      /\ M = [o \in Fields |-> IF o \in F \cup G THEN 0 ELSE L[o]]
      /\ T2 = T \ {L[o] : o \in F}
  BY DEF Drops
<1>1. \A o \in Fields : M[o] = 0 \/ (o \notin F \cup G /\ M[o] = L[o])
  BY <1>0
<1>2. M \in [Fields -> Nat] /\ T2 \subseteq Slots
  BY <1>0 DEF Kept
<1>3. Boot \subseteq T2
  <2> SUFFICES ASSUME NEW x \in Boot, NEW o \in F, L[o] = x PROVE FALSE
    BY <1>0 DEF Kept
  <2>1. x # 0 /\ o \in Fields
    BY <1>0, NoSlotZero
  <2> QED BY <1>0, <2>1 DEF Kept
<1>4. ASSUME NEW o \in Fields, M[o] # 0 PROVE M[o] \in T2 /\ M[o] \notin Boot
  <2>1. o \notin F /\ M[o] = L[o] /\ L[o] # 0
    BY <1>1, <1>4
  <2>2. \A q \in F : L[q] # L[o]
    BY <1>0, <2>1 DEF Kept
  <2> QED BY <1>0, <2>1, <2>2 DEF Kept
<1>5. \A o, q \in Fields : M[o] # 0 /\ M[o] = M[q] => o = q
  BY <1>1 DEF Kept
<1>6. ASSUME NEW x, Unowned(M, T2, x) PROVE Unowned(L, T, x) \/ \E o \in G : L[o] = x
  <2>1. /\ x \in T /\ x \notin Boot /\ \A o \in F : L[o] # x
        /\ \A o \in Fields : M[o] = 0 \/ M[o] # x
    BY <1>0, <1>6 DEF Unowned
  <2>2. SUFFICES ASSUME NEW o \in Fields, L[o] # 0, L[o] = x PROVE o \in G
    BY <2>1 DEF Unowned
  <2>3. M[o] = 0
    BY <1>0, <2>1, <2>2
  <2> QED BY <1>0, <2>1, <2>2, <2>3
<1> QED BY <1>2, <1>3, <1>4, <1>5, <1>6 DEF Kept

\* A second slot differs from the first.
LEMMA AllocNext ==
  ASSUME NEW T, NEW s
  PROVE  spinlock_alloc(With(T, s)) = 0
           \/ (spinlock_alloc(With(T, s)) \in Slots \ T /\ spinlock_alloc(With(T, s)) # s)
<1>1. spinlock_alloc(With(T, s)) = 0 \/ spinlock_alloc(With(T, s)) \in Slots \ With(T, s)
  BY AllocFree
<1> QED BY <1>1, NoSlotZero DEF With

\* An object has all its locks, or none.
Parts ==
  /\ \A p \in Procs : lock[<<"pcb", p>>] = 0 => lock[<<"cap", p>>] = 0 /\ lock[<<"vcb", p>>] = 0
  /\ \A t \in Threads : lock[<<"tcb", t>>] = 0 => lock[<<"box", t>>] = 0
  /\ \A l \in Lines : l \notin irqlines => lock[<<"line", l>>] = 0

\* The inductive invariant of the pool.
PoolInv == Kept(lock, taken) /\ Parts

\* What a step may lose.
Loses(x) ==
  \E t \in Threads :
    /\ ThreadLives(t) /\ ~ThreadLives(t)'
    /\ \/ x \in LocksOf(MailFields("hand", t))
       \/ /\ lock'[<<"pcb", parent[t]>>] = 0
          /\ x \in LocksOf({<<"box", t>>} \cup MailFields("box", t))

\* A step is in order.
PoolStep ==
  PoolInv' /\ \A x : Unowned(lock', taken', x) => Unowned(lock, taken, x) \/ Loses(x)

\* Lost are the slots that are taken and in no field.
LEMMA LostIs == \A x : x \in Lost <=> Unowned(lock, taken, x)
<1> SUFFICES ASSUME NEW x PROVE x \in Lost <=> Unowned(lock, taken, x)
  OBVIOUS
<1>1. x \in LocksOf(Locked) <=> \E o \in Fields : lock[o] # 0 /\ lock[o] = x
  BY DEF LocksOf, Locked
<1> QED BY <1>1 DEF Lost, Unowned

\* Which fields there are.
LEMMA FieldsAre ==
  /\ \A p \in Procs : <<"pcb", p>> \in Fields /\ <<"cap", p>> \in Fields /\ <<"vcb", p>> \in Fields
  /\ \A t \in Threads : <<"tcb", t>> \in Fields /\ <<"box", t>> \in Fields
  /\ \A m \in Mails : <<"mail", m>> \in Fields
  /\ \A x \in Sems : <<"wq", x>> \in Fields
  /\ \A i \in Irqs : <<"irq", i>> \in Fields
  /\ \A l \in Lines : <<"line", l>> \in Fields
BY DEF Fields

\* The field of one object gets a lock, those of processes, threads and lines do
\* not change.
LEMMA OneKept ==
  ASSUME PoolInv, NEW o \in Fields, lock[o] = 0, NEW s \in Slots \ taken,
         o[1] \in {"mail", "wq"},
         lock' = [lock EXCEPT ![o] = s], taken' = With(taken, s), irqlines' = irqlines
  PROVE  PoolStep
<1>1. s # 0 /\ s \in Nat /\ Kept(lock, taken) /\ lock \in [Fields -> Nat]
  BY NoSlotZero DEF PoolInv, Kept
<1>2. lock' \in [Fields -> Nat] /\ lock'[o] = s /\ \A q \in Fields \ {o} : lock'[q] = lock[q]
  BY <1>1
<1>3. taken' = taken \cup {lock'[q] : q \in {r \in {o} : lock'[r] # 0}}
  BY <1>1, <1>2 DEF With
<1>4. Kept(lock', taken') /\ \A x : Unowned(lock', taken', x) => Unowned(lock, taken, x)
  <2>1. \A q, r \in {o} : q = r
    OBVIOUS
  <2>2. Takes(lock, taken, {o}, lock', taken')
    BY <1>1, <1>2, <1>3, <2>1 DEF Takes
  <2> QED BY <1>1, <2>2, TakeKept
<1>5. Parts'
  BY <1>2, FieldsAre DEF PoolInv, Parts
<1> QED BY <1>4, <1>5 DEF PoolStep, PoolInv

\* The locks of single objects go back.
LEMMA GiveKept ==
  ASSUME PoolInv, NEW o \in Fields, o[1] \in {"mail", "wq", "irq"},
         lock' = Cleared({o}), taken' = spinlock_release(taken, {lock[o]}), irqlines' = irqlines
  PROVE  PoolStep
<1>1. Kept(lock, taken)
  BY DEF PoolInv
<1>2. lock' = [q \in Fields |-> IF q \in {o} \cup {} THEN 0 ELSE lock[q]]
  BY DEF Cleared
<1>3. taken' = taken \ {lock[q] : q \in {o}}
  BY DEF spinlock_release
<1>4. Kept(lock', taken') /\ \A x : Unowned(lock', taken', x) => Unowned(lock, taken, x)
  <2>1. Drops(lock, taken, {o}, {}, lock', taken')
    BY <1>2, <1>3 DEF Drops
  <2> QED BY <1>1, <2>1, DropKept
<1>5. Parts'
  BY <1>2, FieldsAre DEF PoolInv, Parts
<1> QED BY <1>4, <1>5 DEF PoolStep, PoolInv

\* A step that moves no lock.
LEMMA StillKept ==
  ASSUME PoolInv, lock' = lock, taken' = taken, irqlines' = irqlines
  PROVE  PoolStep
BY DEF PoolStep, PoolInv, Parts

\* The mails.
LEMMA MailsKeep ==
  ASSUME PoolInv, NEW m \in Mails
  PROVE  /\ \A t \in Threads : AllocMail(m, t) \/ SendMail(m, t) => PoolStep
         /\ \A i \in Irqs : Interrupt(i, m) => PoolStep
         /\ ListenMail(m) \/ ReleaseMail(m) => PoolStep
<1>0. <<"mail", m>> \in Fields /\ <<"mail", m>>[1] \in {"mail", "wq"}
  BY FieldsAre
<1>1. ASSUME NEW at, MakeMail(m, spinlock_alloc(taken), at) PROVE PoolStep
  <2>1. PICK s \in Slots \ taken : s = spinlock_alloc(taken)
    BY <1>1, AllocFree DEF MakeMail
  <2>2. /\ lock[<<"mail", m>>] = 0 /\ lock' = [lock EXCEPT ![<<"mail", m>>] = s]
        /\ taken' = With(taken, s) /\ irqlines' = irqlines
    BY <1>1, <2>1 DEF MakeMail
  <2> QED BY <1>0, <2>2, OneKept
<1>2. ASSUME NEW t \in Threads, AllocMail(m, t) PROVE PoolStep
  BY <1>1, <1>2 DEF AllocMail
<1>3. ASSUME NEW i \in Irqs, Interrupt(i, m) PROVE PoolStep
  BY <1>1, <1>3 DEF Interrupt
<1>4. ASSUME NEW t \in Threads, SendMail(m, t) PROVE PoolStep
  BY <1>4, StillKept DEF SendMail
<1>5. CASE ListenMail(m)
  BY <1>5, StillKept DEF ListenMail
<1>6. CASE ReleaseMail(m)
  <2>1. /\ lock' = Cleared({<<"mail", m>>}) /\ irqlines' = irqlines
        /\ taken' = spinlock_release(taken, {lock[<<"mail", m>>]})
    BY <1>6 DEF ReleaseMail
  <2> QED BY <1>0, <2>1, GiveKept
<1> QED BY <1>2, <1>3, <1>4, <1>5, <1>6

\* A broadcast: the clones take their locks, then the original gives its back.
LEMMA SendToAllKeeps ==
  ASSUME PoolInv, NEW m \in Mails, NEW clones \in SUBSET (Mails \ {m}), NEW to,
         SendToAll(m, clones, to)
  PROVE  PoolStep
<1>1. PICK sp \in CloneLocks(m, clones) :
        /\ taken' = spinlock_release(taken \cup {sp[c] : c \in clones}, {lock[<<"mail", m>>]})
        /\ lock' = [o \in Fields |-> IF o = <<"mail", m>> THEN 0
                                     ELSE IF o[1] = "mail" /\ o[2] \in clones THEN sp[o[2]]
                                     ELSE lock[o]]
  BY DEF SendToAll
<1>2. /\ sp \in [clones -> Slots \ taken] /\ \A c, d \in clones : sp[c] = sp[d] => c = d
  BY DEF CloneLocks
<1>3. /\ \A c \in clones : lock[<<"mail", c>>] = 0
      /\ irqlines' = irqlines /\ Kept(lock, taken) /\ lock \in [Fields -> Nat]
  BY DEF SendToAll, PoolInv, Kept
<1> DEFINE N == {<<"mail", c>> : c \in clones}
           M == [o \in Fields |-> IF o \in N THEN sp[o[2]] ELSE lock[o]]
           T2 == taken \cup {sp[c] : c \in clones}
<1>4. \A c \in clones : sp[c] \in Slots /\ sp[c] \notin taken /\ sp[c] # 0 /\ sp[c] \in Nat
  BY <1>2, NoSlotZero
<1>5. Takes(lock, taken, N, M, T2)
  <2>1. N \subseteq Fields
    BY FieldsAre
  <2>2. \A o \in N : \E c \in clones : o = <<"mail", c>> /\ o[2] = c
    OBVIOUS
  <2>3. ASSUME NEW o \in N PROVE M[o] = sp[o[2]] /\ o[2] \in clones /\ lock[o] = 0 /\ o = <<"mail", o[2]>>
    BY <1>3, <2>1, <2>2
  <2>4. M \in [Fields -> Nat]
    BY <1>3, <1>4, <2>2
  <2>5. \A o \in Fields \ N : M[o] = lock[o]
    OBVIOUS
  <2>6. \A o \in N : lock[o] = 0 /\ M[o] \in Slots \ taken /\ M[o] # 0
    BY <1>4, <2>3
  <2>7. \A o, q \in N : M[o] # 0 /\ M[o] = M[q] => o = q
    BY <1>2, <2>3
  <2>8. {M[o] : o \in {q \in N : M[q] # 0}} = {sp[c] : c \in clones}
    <3>1. \A c \in clones : <<"mail", c>> \in N /\ M[<<"mail", c>>] = sp[c] /\ M[<<"mail", c>>] # 0
      BY <1>4, <2>1
    <3> HIDE DEF N, M
    <3>2. ASSUME NEW x, x \in {M[o] : o \in {q \in N : M[q] # 0}}
          PROVE  x \in {sp[c] : c \in clones}
      <4>1. PICK o \in N : x = M[o]
        BY <3>2
      <4> QED BY <2>3, <4>1
    <3>3. ASSUME NEW c \in clones PROVE sp[c] \in {M[o] : o \in {q \in N : M[q] # 0}}
      <4>1. PICK o : o = <<"mail", c>>
        OBVIOUS
      <4>2. o \in N /\ M[o] # 0 /\ M[o] = sp[c]
        BY <3>1, <4>1
      <4> QED BY <4>2
    <3> QED BY <3>2, <3>3
  <2> HIDE DEF N, M
  <2> QED BY <2>1, <2>4, <2>5, <2>6, <2>7, <2>8 DEF Takes
<1>6. Kept(M, T2) /\ \A x : Unowned(M, T2, x) => Unowned(lock, taken, x)
  <2> HIDE DEF N, M, T2
  <2> QED BY <1>3, <1>5, TakeKept
<1>7. Drops(M, T2, {<<"mail", m>>}, {}, lock', taken')
  <2>1. <<"mail", m>> \in Fields /\ <<"mail", m>> \notin N
    BY FieldsAre
  <2>2. M[<<"mail", m>>] = lock[<<"mail", m>>]
    BY <2>1
  <2>3. taken' = T2 \ {M[q] : q \in {<<"mail", m>>}}
    <3> HIDE DEF M
    <3> QED BY <1>1, <2>2 DEF spinlock_release
  <2>4. \A o \in Fields : o \in N <=> o[1] = "mail" /\ o[2] \in clones
    BY DEF Fields
  <2>5. lock' = [o \in Fields |-> IF o \in {<<"mail", m>>} \cup {} THEN 0 ELSE M[o]]
    BY <1>1, <2>4
  <2> HIDE DEF M, T2, N
  <2> QED BY <2>1, <2>3, <2>5 DEF Drops
<1>8. Kept(lock', taken') /\ \A x : Unowned(lock', taken', x) => Unowned(lock, taken, x)
  <2> HIDE DEF M, T2, N
  <2> QED BY <1>6, <1>7, DropKept
<1>9. Parts'
  <2>1. \A o \in Fields : o[1] # "mail" => lock'[o] = lock[o]
    BY <1>1
  <2>2. /\ \A p \in Procs : /\ lock'[<<"pcb", p>>] = lock[<<"pcb", p>>]
                            /\ lock'[<<"cap", p>>] = lock[<<"cap", p>>]
                            /\ lock'[<<"vcb", p>>] = lock[<<"vcb", p>>]
        /\ \A t \in Threads : /\ lock'[<<"tcb", t>>] = lock[<<"tcb", t>>]
                              /\ lock'[<<"box", t>>] = lock[<<"box", t>>]
        /\ \A l \in Lines : lock'[<<"line", l>>] = lock[<<"line", l>>]
    BY <2>1, FieldsAre
  <2> QED BY <1>3, <2>2 DEF PoolInv, Parts
<1> QED BY <1>8, <1>9 DEF PoolStep, PoolInv

\* The semaphores.
LEMMA SemsKeep ==
  ASSUME PoolInv, NEW s \in Sems, SemCreate(s) \/ SemDestroy(s)
  PROVE  PoolStep
<1>0. <<"wq", s>> \in Fields /\ <<"wq", s>>[1] \in {"mail", "wq"}
  BY FieldsAre
<1>1. CASE SemCreate(s)
  <2>1. PICK x \in Slots \ taken : x = spinlock_alloc(taken)
    BY <1>1, AllocFree DEF SemCreate
  <2>2. /\ lock[<<"wq", s>>] = 0 /\ lock' = [lock EXCEPT ![<<"wq", s>>] = x]
        /\ taken' = With(taken, x) /\ irqlines' = irqlines
    BY <1>1, <2>1 DEF SemCreate
  <2> QED BY <1>0, <2>2, OneKept
<1>2. CASE SemDestroy(s)
  <2>1. /\ lock' = Cleared({<<"wq", s>>}) /\ irqlines' = irqlines
        /\ taken' = spinlock_release(taken, {lock[<<"wq", s>>]})
    BY <1>2 DEF SemDestroy
  <2> QED BY <1>0, <2>1, GiveKept
<1> QED BY <1>1, <1>2

\* The irqs.
LEMMA IrqsKeep ==
  ASSUME PoolInv, NEW i \in Irqs
  PROVE  /\ IrqRelease(i) => PoolStep
         /\ \A l \in Lines, t \in Threads, out \in {"none", "irq"} :
              IrqRequestAny(i, l, t, out) => PoolStep
         /\ \A l \in Lines, t \in Threads, out \in {"none", "line", "inuse"} :
              IrqRequest(i, l, t, out) => PoolStep
<1>0. Kept(lock, taken) /\ Parts /\ lock \in [Fields -> Nat]
  BY DEF PoolInv, Kept
<1>1. CASE IrqRelease(i)
  <2>1. /\ lock' = Cleared({<<"irq", i>>}) /\ irqlines' = irqlines
        /\ taken' = spinlock_release(taken, {lock[<<"irq", i>>]})
    BY <1>1 DEF IrqRelease
  <2>2. <<"irq", i>> \in Fields /\ <<"irq", i>>[1] \in {"mail", "wq", "irq"}
    BY FieldsAre
  <2> QED BY <2>1, <2>2, GiveKept
<1>2. ASSUME NEW l \in Lines, NEW ln, NEW ir,
             lock[<<"irq", i>>] = 0,
             IF l \in irqlines THEN ln = lock[<<"line", l>>] ELSE ln = 0 \/ ln \in Slots \ taken,
             ir = 0 \/ ir \in Slots \ taken, ir = 0 \/ ir # ln,
             taken' = taken \cup ({ln, ir} \ {0}),
             lock' = [lock EXCEPT ![<<"line", l>>] = ln, ![<<"irq", i>>] = ir],
             irqlines' = irqlines \cup {l}
      PROVE  PoolStep
  <2> DEFINE a == <<"line", l>>
             b == <<"irq", i>>
             N == (IF l \in irqlines THEN {} ELSE {a}) \cup {b}
  <2>1. a \in Fields /\ b \in Fields /\ a # b
    BY FieldsAre
  <2>2. ln \in Nat /\ ir \in Nat
    BY <1>0, <1>2, <2>1, NoSlotZero
  <2>3. lock' \in [Fields -> Nat] /\ lock'[a] = ln /\ lock'[b] = ir
        /\ \A q \in Fields : q # a /\ q # b => lock'[q] = lock[q]
    BY <1>0, <1>2, <2>1, <2>2
  <2>4. l \notin irqlines => lock[a] = 0
    BY <1>0 DEF Parts
  <2>5. l \in irqlines => ln = lock[a] /\ (ln = 0 \/ ln \in taken)
    BY <1>0, <1>2, <2>1 DEF Kept
  <2>6. Takes(lock, taken, N, lock', taken')
    <3> HIDE DEF a, b
    <3>1. N \subseteq Fields
      BY <2>1
    <3>2. \A o \in Fields \ N : lock'[o] = lock[o]
      BY <2>3, <2>5
    <3>3. \A o \in N : lock[o] = 0 /\ (lock'[o] = 0 \/ lock'[o] \in Slots \ taken)
      <4>1. lock[b] = 0
        BY <1>2 DEF b
      <4> QED BY <1>2, <2>3, <2>4, <4>1
    <3>4. \A o, q \in N : lock'[o] # 0 /\ lock'[o] = lock'[q] => o = q
      BY <1>2, <2>3
    <3>5. ASSUME NEW x PROVE x \in taken' <=> x \in taken \cup {lock'[o] : o \in {q \in N : lock'[q] # 0}}
      <4>1. CASE l \in irqlines
        <5>1. x \in {lock'[o] : o \in {q \in N : lock'[q] # 0}} <=> x = ir /\ ir # 0
          BY <2>3, <4>1
        <5> QED BY <1>2, <2>5, <4>1, <5>1
      <4>2. CASE l \notin irqlines
        <5>1. x \in {lock'[o] : o \in {q \in N : lock'[q] # 0}} <=> x \in {ln, ir} /\ x # 0
          BY <2>3, <4>2
        <5> QED BY <1>2, <4>2, <5>1
      <4> QED BY <4>1, <4>2
    <3>6. taken' = taken \cup {lock'[o] : o \in {q \in N : lock'[q] # 0}}
      BY <3>5
    <3> HIDE DEF N
    <3> QED BY <2>3, <3>1, <3>2, <3>3, <3>4, <3>6 DEF Takes
  <2>7. Kept(lock', taken') /\ \A x : Unowned(lock', taken', x) => Unowned(lock, taken, x)
    <3> HIDE DEF N
    <3> QED BY <1>0, <2>6, TakeKept
  <2>8. Parts'
    <3>1. /\ \A p \in Procs : /\ lock'[<<"pcb", p>>] = lock[<<"pcb", p>>]
                              /\ lock'[<<"cap", p>>] = lock[<<"cap", p>>]
                              /\ lock'[<<"vcb", p>>] = lock[<<"vcb", p>>]
          /\ \A t \in Threads : /\ lock'[<<"tcb", t>>] = lock[<<"tcb", t>>]
                                /\ lock'[<<"box", t>>] = lock[<<"box", t>>]
          /\ \A k \in Lines : k # l => lock'[<<"line", k>>] = lock[<<"line", k>>]
      BY <2>3, FieldsAre
    <3> QED BY <1>0, <1>2, <3>1 DEF Parts
  <2> QED BY <2>7, <2>8 DEF PoolStep, PoolInv
<1>3. ASSUME NEW T, NEW x, NEW y PROVE With(With(T, x), y) = T \cup ({x, y} \ {0})
  BY DEF With
<1>4. ASSUME NEW l \in Lines, NEW used, taken \subseteq used
      PROVE  IF l \in irqlines THEN LineLock(l, used) = lock[<<"line", l>>]
             ELSE LineLock(l, used) = 0 \/ LineLock(l, used) \in Slots \ used
  BY AllocFree DEF LineLock
<1>5. ASSUME NEW l \in Lines, NEW t \in Threads, NEW out \in {"none", "irq"},
             IrqRequestAny(i, l, t, out)
      PROVE  PoolStep
  <2>1. PICK ln, ir : /\ ln = LineLock(l, taken)
                      /\ ir = IF out = "irq" THEN 0 ELSE spinlock_alloc(With(taken, ln))
    OBVIOUS
  <2>2. /\ lock[<<"irq", i>>] = 0 /\ taken' = With(With(taken, ln), ir)
        /\ lock' = [lock EXCEPT ![<<"line", l>>] = ln, ![<<"irq", i>>] = ir]
        /\ irqlines' = irqlines \cup {l}
    BY <1>5, <2>1 DEF IrqRequestAny
  <2>3. IF l \in irqlines THEN ln = lock[<<"line", l>>] ELSE ln = 0 \/ ln \in Slots \ taken
    BY <1>4, <2>1
  <2>4. ir = 0 \/ (ir \in Slots \ taken /\ ir # ln)
    BY <2>1, AllocNext
  <2>5. taken' = taken \cup ({ln, ir} \ {0})
    BY <1>3, <2>2
  <2> QED BY <1>2, <2>2, <2>3, <2>4, <2>5
<1>6. ASSUME NEW l \in Lines, NEW t \in Threads, NEW out \in {"none", "line", "inuse"},
             IrqRequest(i, l, t, out)
      PROVE  PoolStep
  <2>1. PICK ln, ir : ir = spinlock_alloc(taken) /\ ln = LineLock(l, With(taken, ir))
    OBVIOUS
  <2>2. ir \in Slots \ taken /\ lock[<<"irq", i>>] = 0
    BY <1>6, <2>1, AllocFree DEF IrqRequest
  <2>3. CASE out = "none"
    <3>1. /\ taken' = With(With(taken, ir), ln)
          /\ lock' = [lock EXCEPT ![<<"line", l>>] = ln, ![<<"irq", i>>] = ir]
          /\ irqlines' = irqlines \cup {l}
      BY <1>6, <2>1, <2>3 DEF IrqRequest
    <3>2. taken \subseteq With(taken, ir) /\ ir \in With(taken, ir)
      BY <2>2, NoSlotZero DEF With
    <3>3. IF l \in irqlines THEN ln = lock[<<"line", l>>]
                            ELSE ln = 0 \/ ln \in Slots \ With(taken, ir)
      BY <1>4, <2>1, <3>2
    <3>4. IF l \in irqlines THEN ln = lock[<<"line", l>>] ELSE ln = 0 \/ ln \in Slots \ taken
      BY <3>2, <3>3
    <3>5. ir # ln
      <4>1. CASE l \in irqlines
        <5>1. lock[<<"line", l>>] = 0 \/ lock[<<"line", l>>] \in taken
          BY <1>0, FieldsAre DEF Kept
        <5> QED BY <2>2, <3>3, <4>1, <5>1, NoSlotZero
      <4>2. CASE l \notin irqlines
        BY <2>2, <3>2, <3>3, <4>2, NoSlotZero
      <4> QED BY <4>1, <4>2
    <3>6. taken' = taken \cup ({ln, ir} \ {0})
      BY <1>3, <3>1
    <3> QED BY <1>2, <2>2, <3>1, <3>4, <3>5, <3>6
  <2>4. CASE out # "none"
    <3>1. /\ taken' = spinlock_release(With(taken, ir), {ir})
          /\ lock' = lock /\ irqlines' = irqlines
      BY <1>6, <2>1, <2>4 DEF IrqRequest
    <3>2. taken' = taken
      BY <2>2, <3>1, NoSlotZero DEF With, spinlock_release
    <3> QED BY <3>1, <3>2, StillKept
  <2> QED BY <2>3, <2>4
<1> QED BY <1>1, <1>5, <1>6

\* The locks of a new thread, behind others that are taken already.
LEMMA NewThreadLocks ==
  ASSUME NEW used, NEW out
  PROVE  LET new == NewThread(used, out)
         IN /\ new.sp = 0 \/ new.sp \in Slots \ used
            /\ new.box = 0 \/ (new.box \in Slots \ used /\ new.box # new.sp)
<1>1. PICK sp : sp = IF out = "stack" THEN 0 ELSE spinlock_alloc(used)
  OBVIOUS
<1>2. sp = 0 \/ sp \in Slots \ used
  BY <1>1, AllocFree
<1>3. PICK box : box = IF sp = 0 \/ out = "box" THEN 0 ELSE spinlock_alloc(With(used, sp))
  OBVIOUS
<1>4. box = 0 \/ (box \in Slots \ used /\ box # sp)
  BY <1>3, AllocNext
<1>5. NewThread(used, out) = [sp |-> sp, box |-> box]
  BY <1>1, <1>3 DEF NewThread
<1> QED BY <1>2, <1>4, <1>5

\* thread_create_ex_internal
LEMMA ThreadCreateKeeps ==
  ASSUME PoolInv, NEW t \in Threads, NEW p \in Procs, NEW out, ThreadCreate(t, p, out)
  PROVE  PoolStep
<1> DEFINE a == <<"tcb", t>>
           b == <<"box", t>>
           N == {a, b}
<1>0. Kept(lock, taken) /\ Parts /\ lock \in [Fields -> Nat]
  BY DEF PoolInv, Kept
<1>1. PICK sp, box : sp = NewThread(taken, out).sp /\ box = NewThread(taken, out).box
  OBVIOUS
<1>2. /\ lock[a] = 0 /\ sp # 0 /\ taken' = With(With(taken, sp), box)
      /\ lock' = [lock EXCEPT ![a] = sp, ![b] = box] /\ irqlines' = irqlines
  BY <1>1 DEF ThreadCreate, ThreadLives
<1>3. sp \in Slots \ taken /\ (box = 0 \/ (box \in Slots \ taken /\ box # sp))
  BY <1>1, <1>2, NewThreadLocks
<1>4. a \in Fields /\ b \in Fields /\ a # b /\ sp \in Nat /\ box \in Nat
  <2>1. a \in Fields /\ b \in Fields /\ a # b
    BY FieldsAre
  <2>2. sp \in Nat
    BY <1>3, NoSlotZero
  <2>3. CASE box = 0
    BY <2>1, <2>2, <2>3
  <2>4. CASE box \in Slots
    BY <2>1, <2>2, <2>4, NoSlotZero
  <2> QED BY <1>3, <2>3, <2>4
<1>5. /\ lock' \in [Fields -> Nat] /\ lock'[a] = sp /\ lock'[b] = box
      /\ \A q \in Fields : q # a /\ q # b => lock'[q] = lock[q]
  BY <1>0, <1>2, <1>4
<1>6. lock[b] = 0
  BY <1>0, <1>2 DEF Parts
<1>7. Takes(lock, taken, N, lock', taken')
  <2> HIDE DEF a, b
  <2>1. \A o \in N : lock[o] = 0 /\ (lock'[o] = 0 \/ lock'[o] \in Slots \ taken)
    BY <1>2, <1>3, <1>5, <1>6
  <2>2. \A o, q \in N : lock'[o] # 0 /\ lock'[o] = lock'[q] => o = q
    BY <1>3, <1>5
  <2>3. ASSUME NEW x
        PROVE  x \in taken' <=> x \in taken \cup {lock'[o] : o \in {q \in N : lock'[q] # 0}}
    <3>1. x \in {lock'[o] : o \in {q \in N : lock'[q] # 0}} <=> x \in {sp, box} /\ x # 0
      BY <1>5
    <3>2. taken' = taken \cup ({sp, box} \ {0})
      BY <1>2 DEF With
    <3> QED BY <3>1, <3>2
  <2>4. taken' = taken \cup {lock'[o] : o \in {q \in N : lock'[q] # 0}}
    BY <2>3
  <2>5. N \subseteq Fields /\ \A o \in Fields \ N : lock'[o] = lock[o]
    BY <1>4, <1>5
  <2> HIDE DEF N
  <2> QED BY <1>5, <2>1, <2>2, <2>4, <2>5 DEF Takes
<1>8. Kept(lock', taken') /\ \A x : Unowned(lock', taken', x) => Unowned(lock, taken, x)
  <2> HIDE DEF N
  <2> QED BY <1>0, <1>7, TakeKept
<1>9. Parts'
  <2>1. /\ \A k \in Procs : /\ lock'[<<"pcb", k>>] = lock[<<"pcb", k>>]
                            /\ lock'[<<"cap", k>>] = lock[<<"cap", k>>]
                            /\ lock'[<<"vcb", k>>] = lock[<<"vcb", k>>]
        /\ \A k \in Threads : k # t => /\ lock'[<<"tcb", k>>] = lock[<<"tcb", k>>]
                                       /\ lock'[<<"box", k>>] = lock[<<"box", k>>]
        /\ \A l \in Lines : lock'[<<"line", l>>] = lock[<<"line", l>>]
    BY <1>5, FieldsAre
  <2> QED BY <1>0, <1>2, <1>5, <2>1 DEF Parts
<1> QED BY <1>8, <1>9 DEF PoolStep, PoolInv

\* p_create_ex
LEMMA ProcCreateKeeps ==
  ASSUME PoolInv, NEW p \in Procs, NEW t \in Threads, NEW out, ProcCreate(p, t, out)
  PROVE  PoolStep
<1> DEFINE f1 == <<"pcb", p>>
           f2 == <<"cap", p>>
           f3 == <<"vcb", p>>
           f4 == <<"tcb", t>>
           f5 == <<"box", t>>
           N == {f1, f2, f3, f4, f5}
<1>0. Kept(lock, taken) /\ Parts /\ lock \in [Fields -> Nat]
  BY DEF PoolInv, Kept
<1>1. PICK sp, cap, vcb, used, th, box :
        /\ sp = spinlock_alloc(taken)
        /\ cap = spinlock_alloc(With(taken, sp))
        /\ vcb = spinlock_alloc(With(With(taken, sp), cap))
        /\ used = With(With(With(taken, sp), cap), vcb)
        /\ th = NewThread(used, out).sp /\ box = NewThread(used, out).box
  OBVIOUS
<1>2. /\ lock[f1] = 0 /\ lock[f4] = 0 /\ sp # 0 /\ irqlines' = irqlines
      /\ IF 0 \notin {sp, cap, vcb, th} /\ out # "space"
         THEN /\ taken' = With(With(used, th), box)
              /\ lock' = [lock EXCEPT ![f1] = sp, ![f2] = cap, ![f3] = vcb, ![f4] = th, ![f5] = box]
         ELSE taken' = Undone(used, sp, cap, vcb) /\ lock' = lock
  BY <1>1 DEF ProcCreate, ProcLives, ThreadLives
<1>3. /\ sp \in Slots \ taken
      /\ cap = 0 \/ (cap \in Slots \ taken /\ cap # sp)
      /\ vcb = 0 \/ (vcb \in Slots \ taken /\ vcb # sp /\ vcb # cap)
  <2>1. sp \in Slots \ taken
    BY <1>1, <1>2, AllocFree
  <2>2. cap = 0 \/ (cap \in Slots \ taken /\ cap # sp)
    BY <1>1, AllocNext
  <2>3. vcb = 0 \/ (vcb \in Slots \ With(taken, sp) /\ vcb # cap)
    BY <1>1, AllocNext
  <2>4. taken \cup {sp} = With(taken, sp)
    BY <1>2 DEF With
  <2> QED BY <2>1, <2>2, <2>3, <2>4
<1>4. used = taken \cup ({sp, cap, vcb} \ {0})
  BY <1>1 DEF With
<1>5. CASE ~(0 \notin {sp, cap, vcb, th} /\ out # "space")
  <2>1. taken' = used \ {sp, cap, vcb} /\ lock' = lock
    BY <1>2, <1>5 DEF Undone, spinlock_release
  <2>2. 0 \notin taken
    BY <1>0, NoSlotZero DEF Kept
  <2>3. taken' = taken
    BY <1>3, <1>4, <2>1, <2>2
  <2> QED BY <1>2, <2>1, <2>3, StillKept
<1>6. CASE 0 \notin {sp, cap, vcb, th} /\ out # "space"
  <2>1. /\ sp \in Slots \ taken /\ cap \in Slots \ taken /\ vcb \in Slots \ taken
        /\ th \in Slots \ taken /\ (box = 0 \/ box \in Slots \ taken)
        /\ cap # sp /\ vcb # sp /\ vcb # cap /\ th \notin {sp, cap, vcb}
        /\ box = 0 \/ box \notin {sp, cap, vcb, th}
    <3>1. th \in Slots \ used /\ (box = 0 \/ (box \in Slots \ used /\ box # th))
      BY <1>1, <1>6, NewThreadLocks
    <3> QED BY <1>3, <1>4, <1>6, <3>1
  <2>2. sp \in Nat /\ cap \in Nat /\ vcb \in Nat /\ th \in Nat /\ box \in Nat
    <3>1. sp \in Nat /\ cap \in Nat /\ vcb \in Nat /\ th \in Nat
      BY <2>1, NoSlotZero
    <3>2. CASE box = 0
      BY <3>1, <3>2
    <3>3. CASE box \in Slots
      BY <3>1, <3>3, NoSlotZero
    <3> QED BY <2>1, <3>2, <3>3
  <2>3. /\ f1 \in Fields /\ f2 \in Fields /\ f3 \in Fields /\ f4 \in Fields /\ f5 \in Fields
        /\ f1 \notin {f2, f3, f4, f5} /\ f2 \notin {f3, f4, f5} /\ f3 \notin {f4, f5} /\ f4 # f5
    BY FieldsAre
  <2>4. /\ lock' \in [Fields -> Nat] /\ lock'[f1] = sp /\ lock'[f2] = cap /\ lock'[f3] = vcb
        /\ lock'[f4] = th /\ lock'[f5] = box /\ \A q \in Fields \ N : lock'[q] = lock[q]
    <3>1. lock' = [lock EXCEPT ![f1] = sp, ![f2] = cap, ![f3] = vcb, ![f4] = th, ![f5] = box]
      BY <1>2, <1>6
    <3> HIDE DEF f1, f2, f3, f4, f5
    <3> QED BY <1>0, <2>2, <2>3, <3>1
  <2>5. lock[f1] = 0 /\ lock[f2] = 0 /\ lock[f3] = 0 /\ lock[f4] = 0 /\ lock[f5] = 0
    BY <1>0, <1>2 DEF Parts
  <2>6. Takes(lock, taken, N, lock', taken')
    <3> HIDE DEF f1, f2, f3, f4, f5
    <3>1. \A o \in N : lock[o] = 0 /\ (lock'[o] = 0 \/ lock'[o] \in Slots \ taken)
      BY <2>1, <2>4, <2>5
    <3>2. \A o, q \in N : lock'[o] # 0 /\ lock'[o] = lock'[q] => o = q
      BY <2>1, <2>3, <2>4
    <3>3. ASSUME NEW x
          PROVE  x \in taken' <=> x \in taken \cup {lock'[o] : o \in {q \in N : lock'[q] # 0}}
      <4>1. x \in {lock'[o] : o \in {q \in N : lock'[q] # 0}}
              <=> x \in {sp, cap, vcb, th, box} /\ x # 0
        BY <2>4
      <4>2. taken' = With(With(used, th), box)
        BY <1>2, <1>6
      <4>3. taken' = used \cup ({th, box} \ {0})
        BY <4>2 DEF With
      <4> QED BY <1>4, <4>1, <4>3
    <3>4. taken' = taken \cup {lock'[o] : o \in {q \in N : lock'[q] # 0}}
      BY <3>3
    <3>5. N \subseteq Fields
      BY <2>3
    <3> HIDE DEF N
    <3> QED BY <2>4, <3>1, <3>2, <3>4, <3>5 DEF Takes
  <2>7. Kept(lock', taken') /\ \A x : Unowned(lock', taken', x) => Unowned(lock, taken, x)
    <3> HIDE DEF N
    <3> QED BY <1>0, <2>6, TakeKept
  <2>8. Parts'
    <3>1. /\ \A k \in Procs : k # p => /\ lock'[<<"pcb", k>>] = lock[<<"pcb", k>>]
                                       /\ lock'[<<"cap", k>>] = lock[<<"cap", k>>]
                                       /\ lock'[<<"vcb", k>>] = lock[<<"vcb", k>>]
          /\ \A k \in Threads : k # t => /\ lock'[<<"tcb", k>>] = lock[<<"tcb", k>>]
                                         /\ lock'[<<"box", k>>] = lock[<<"box", k>>]
          /\ \A l \in Lines : lock'[<<"line", l>>] = lock[<<"line", l>>]
      BY <2>4, FieldsAre
    <3>2. lock'[<<"pcb", p>>] # 0 /\ lock'[<<"tcb", t>>] # 0
      BY <1>6, <2>4
    <3> QED BY <1>0, <1>2, <3>1, <3>2 DEF Parts
  <2> QED BY <2>7, <2>8 DEF PoolStep, PoolInv
<1> QED BY <1>5, <1>6

\* The fields of the mails and irqs of a thread.
LEMMA FieldsOf ==
  ASSUME NEW t
  PROVE  /\ \A at : MailFields(at, t) \subseteq Fields
                      /\ \A o \in MailFields(at, t) : o[1] = "mail"
         /\ IrqFields(t) \subseteq Fields /\ \A o \in IrqFields(t) : o[1] = "irq"
BY FieldsAre DEF MailFields, IrqFields

\* thread_delete_internal: only the mails in hand are lost.
LEMMA ThreadDeleteKeeps ==
  ASSUME PoolInv, NEW t \in Threads, ThreadDelete(t)
  PROVE  PoolStep
<1> DEFINE F == {<<"tcb", t>>, <<"box", t>>} \cup MailFields("box", t) \cup IrqFields(t)
           G == MailFields("hand", t)
<1>0. Kept(lock, taken) /\ Parts
  BY DEF PoolInv
<1>1. /\ ThreadLives(t) /\ taken' = spinlock_release(taken, LocksOf(F))
      /\ lock' = Cleared(F \cup G) /\ irqlines' = irqlines
  BY DEF ThreadDelete, Gone
<1>2. F \subseteq Fields /\ G \subseteq Fields
  BY FieldsOf, FieldsAre
<1>3. \A o \in F \cup G : o = <<"tcb", t>> \/ o = <<"box", t>> \/ o[1] = "mail" \/ o[1] = "irq"
  BY FieldsOf
<1>4. <<"tcb", t>> \in F /\ <<"box", t>> \in F
  OBVIOUS
<1>5. G = MailFields("hand", t)
  OBVIOUS
<1> HIDE DEF F, G
<1>6. Drops(lock, taken, F, G, lock', taken')
  BY <1>1, <1>2 DEF Drops, Cleared, LocksOf, spinlock_release
<1>7. /\ Kept(lock', taken')
      /\ \A x : Unowned(lock', taken', x) => Unowned(lock, taken, x) \/ \E o \in G : lock[o] = x
  BY <1>0, <1>6, DropKept
<1>8. \A o \in Fields : lock'[o] = IF o \in F \cup G THEN 0 ELSE lock[o]
  BY <1>1 DEF Cleared
<1>9. lock'[<<"tcb", t>>] = 0 /\ lock'[<<"box", t>>] = 0
  BY <1>4, <1>8, FieldsAre
<1>10. ASSUME NEW x, \E o \in G : lock[o] = x PROVE Loses(x)
  <2>1. x \in LocksOf(MailFields("hand", t))
    BY <1>5, <1>10 DEF LocksOf
  <2>2. ThreadLives(t) /\ ~ThreadLives(t)'
    BY <1>1, <1>9 DEF ThreadLives
  <2> QED BY <2>1, <2>2 DEF Loses
<1>11. Parts'
  <2>1. /\ \A p \in Procs : <<"pcb", p>> \notin F \cup G /\ <<"cap", p>> \notin F \cup G
                              /\ <<"vcb", p>> \notin F \cup G
        /\ \A k \in Threads : k # t => <<"tcb", k>> \notin F \cup G /\ <<"box", k>> \notin F \cup G
        /\ \A l \in Lines : <<"line", l>> \notin F \cup G
    BY <1>3
  <2>2. /\ \A p \in Procs : /\ lock'[<<"pcb", p>>] = lock[<<"pcb", p>>]
                            /\ lock'[<<"cap", p>>] = lock[<<"cap", p>>]
                            /\ lock'[<<"vcb", p>>] = lock[<<"vcb", p>>]
        /\ \A k \in Threads : k # t => /\ lock'[<<"tcb", k>>] = lock[<<"tcb", k>>]
                                       /\ lock'[<<"box", k>>] = lock[<<"box", k>>]
        /\ \A l \in Lines : lock'[<<"line", l>>] = lock[<<"line", l>>]
    BY <1>8, <2>1, FieldsAre
  <2> QED BY <1>0, <1>1, <1>9, <2>2 DEF Parts
<1> QED BY <1>7, <1>10, <1>11 DEF PoolStep, PoolInv

\* proc_exit_internal: the mailboxes and all mails of the threads are lost.
LEMMA ProcExitKeeps ==
  ASSUME PoolInv, NEW p \in Procs, ProcExit(p)
  PROVE  PoolStep
<1> DEFINE own == {t \in Threads : ThreadLives(t) /\ parent[t] = p}
           F == {<<"pcb", p>>, <<"cap", p>>, <<"vcb", p>>} \cup ({"tcb"} \X own)
           G == ({"box"} \X own)
                  \cup UNION {MailFields("box", t) \cup MailFields("hand", t) : t \in own}
<1>0. Kept(lock, taken) /\ Parts
  BY DEF PoolInv
<1>1. /\ taken' = spinlock_release(taken, LocksOf(F)) /\ lock' = Cleared(F \cup G)
      /\ irqlines' = irqlines
  BY DEF ProcExit, Gone
<1>2. \A o \in G : \E t \in own :
        o = <<"box", t>> \/ o \in MailFields("box", t) \/ o \in MailFields("hand", t)
  OBVIOUS
<1>3. /\ \A o \in F : o \in {<<"pcb", p>>, <<"cap", p>>, <<"vcb", p>>}
                        \/ \E t \in own : o = <<"tcb", t>>
      /\ <<"pcb", p>> \in F /\ <<"cap", p>> \in F /\ <<"vcb", p>> \in F
      /\ \A t \in own : <<"tcb", t>> \in F /\ <<"box", t>> \in G
  OBVIOUS
<1>4. F \subseteq Fields /\ G \subseteq Fields
  <2>1. own \subseteq Threads
    OBVIOUS
  <2> HIDE DEF F, G, own
  <2>2. F \subseteq Fields
    BY <1>3, <2>1, FieldsAre
  <2>3. G \subseteq Fields
    BY <1>2, <2>1, FieldsOf, FieldsAre
  <2> QED BY <2>2, <2>3
<1>5. \A o \in G : (\E t \in own : o = <<"box", t>>) \/ o[1] = "mail"
  BY <1>2, FieldsOf
<1> HIDE DEF F, G
<1>6. Drops(lock, taken, F, G, lock', taken')
  BY <1>1, <1>4 DEF Drops, Cleared, LocksOf, spinlock_release
<1>7. /\ Kept(lock', taken')
      /\ \A x : Unowned(lock', taken', x) => Unowned(lock, taken, x) \/ \E o \in G : lock[o] = x
  BY <1>0, <1>6, DropKept
<1>8. \A o \in Fields : lock'[o] = IF o \in F \cup G THEN 0 ELSE lock[o]
  BY <1>1 DEF Cleared
<1>9. /\ lock'[<<"pcb", p>>] = 0 /\ lock'[<<"cap", p>>] = 0 /\ lock'[<<"vcb", p>>] = 0
      /\ \A t \in own : lock'[<<"tcb", t>>] = 0 /\ lock'[<<"box", t>>] = 0
  BY <1>3, <1>8, FieldsAre
<1>10. ASSUME NEW o \in G PROVE Loses(lock[o])
  <2>1. PICK t \in own :
          o = <<"box", t>> \/ o \in MailFields("box", t) \/ o \in MailFields("hand", t)
    BY <1>2
  <2>2. ThreadLives(t) /\ ~ThreadLives(t)' /\ lock'[<<"pcb", parent[t]>>] = 0 /\ t \in Threads
    BY <1>9 DEF ThreadLives
  <2>3. \/ lock[o] \in LocksOf(MailFields("hand", t))
        \/ lock[o] \in LocksOf({<<"box", t>>} \cup MailFields("box", t))
    BY <2>1 DEF LocksOf
  <2> QED BY <2>2, <2>3 DEF Loses
<1>11. Parts'
  <2>1. /\ \A k \in Procs : k # p => <<"pcb", k>> \notin F \cup G /\ <<"cap", k>> \notin F \cup G
                                       /\ <<"vcb", k>> \notin F \cup G
        /\ \A k \in Threads : k \notin own => <<"tcb", k>> \notin F \cup G
                                                /\ <<"box", k>> \notin F \cup G
        /\ \A l \in Lines : <<"line", l>> \notin F \cup G
    <3> HIDE DEF own
    <3> QED BY <1>3, <1>5
  <2>2. /\ \A k \in Procs : k # p => /\ lock'[<<"pcb", k>>] = lock[<<"pcb", k>>]
                                     /\ lock'[<<"cap", k>>] = lock[<<"cap", k>>]
                                     /\ lock'[<<"vcb", k>>] = lock[<<"vcb", k>>]
        /\ \A k \in Threads : k \notin own => /\ lock'[<<"tcb", k>>] = lock[<<"tcb", k>>]
                                              /\ lock'[<<"box", k>>] = lock[<<"box", k>>]
        /\ \A l \in Lines : lock'[<<"line", l>>] = lock[<<"line", l>>]
    <3> HIDE DEF own
    <3> QED BY <1>8, <2>1, FieldsAre
  <2> HIDE DEF own
  <2> QED BY <1>0, <1>1, <1>9, <2>2 DEF Parts
<1> QED BY <1>7, <1>10, <1>11 DEF PoolStep, PoolInv

\* Every step is in order.
LEMMA PoolNextStep == PoolInv /\ [PoolNext]_lockVars => PoolStep
<1> SUFFICES ASSUME PoolInv, [PoolNext]_lockVars PROVE PoolStep
  OBVIOUS
<1>1. CASE UNCHANGED lockVars
  BY <1>1, StillKept DEF lockVars
<1>2. CASE PoolNext
  <2>1. CASE \E p \in Procs : ProcExit(p)
    BY <2>1, ProcExitKeeps
  <2>2. CASE \E p \in Procs, t \in Threads, out \in {"none", "space", "stack", "box"} :
               ProcCreate(p, t, out)
    BY <2>2, ProcCreateKeeps
  <2>3. CASE \E p \in Procs, t \in Threads, out \in {"none", "stack", "box"} :
               ThreadCreate(t, p, out)
    BY <2>3, ThreadCreateKeeps
  <2>4. CASE \E t \in Threads : ThreadDelete(t)
    BY <2>4, ThreadDeleteKeeps
  <2>5. CASE \E m \in Mails : \/ ListenMail(m) \/ ReleaseMail(m)
                              \/ \E t \in Threads : AllocMail(m, t) \/ SendMail(m, t)
                              \/ \E i \in Irqs : Interrupt(i, m)
    BY <2>5, MailsKeep
  <2>6. CASE \E m \in Mails : \E clones \in SUBSET (Mails \ {m}) :
               \E to \in [clones -> Threads] : SendToAll(m, clones, to)
    BY <2>6, SendToAllKeeps
  <2>7. CASE \E s \in Sems : SemCreate(s) \/ SemDestroy(s)
    BY <2>7, SemsKeep
  <2>8. CASE \E i \in Irqs :
               \/ IrqRelease(i)
               \/ \E l \in Lines, t \in Threads :
                    \/ \E out \in {"none", "irq"} : IrqRequestAny(i, l, t, out)
                    \/ \E out \in {"none", "line", "inuse"} : IrqRequest(i, l, t, out)
    BY <2>8, IrqsKeep
  <2> QED BY <1>2, <2>1, <2>2, <2>3, <2>4, <2>5, <2>6, <2>7, <2>8 DEF PoolNext
<1> QED BY <1>1, <1>2

\* The pool at the start.
LEMMA PoolInitInv == PoolInit => PoolInv
<1> SUFFICES ASSUME PoolInit PROVE PoolInv
  OBVIOUS
<1>1. taken = Boot /\ lock = [o \in Fields |-> 0]
  BY DEF PoolInit
<1>2. \A o \in Fields : lock[o] = 0
  BY <1>1
<1>3. Kept(lock, taken)
  BY <1>1, <1>2, NoSlotZero DEF Kept
<1> QED BY <1>2, <1>3, FieldsAre DEF PoolInv, Parts

\* The invariant of the pool.
LEMMA PoolInvariant == PoolSpec => []PoolInv
<1>1. PoolInv /\ [PoolNext]_lockVars => PoolInv'
  BY PoolNextStep DEF PoolStep
<1> QED BY <1>1, PoolInitInv, PTL DEF PoolSpec

\* For every size of the pool and number of objects: through creations that fail
\* half way, broadcasts, deletions and exits, no lock goes back to the pool while
\* its object lives, and no two objects share one.
THEOREM PoolLocksOwned == PoolSpec => []LocksOwned
<1>1. PoolInv => LocksOwned
  <2> SUFFICES ASSUME PoolInv PROVE LocksOwned
    OBVIOUS
  <2>1. \A x : x \in LocksOf(Locked) <=> \E o \in Fields : lock[o] # 0 /\ lock[o] = x
    BY DEF LocksOf, Locked
  <2>2. Kept(lock, taken)
    BY DEF PoolInv
  <2>3. Boot \cup LocksOf(Locked) \subseteq taken /\ Boot \cap LocksOf(Locked) = {}
    BY <2>1, <2>2 DEF Kept
  <2>4. \A o, q \in Locked : lock[o] = lock[q] => o = q
    BY <2>2 DEF Kept, Locked
  <2> QED BY <2>3, <2>4 DEF LocksOwned
<1> QED BY <1>1, PoolInvariant, PTL

\* For every size of the pool and number of objects: a step that loses a lock ends
\* the thread that had the mail in hand, or the process of the mailbox.
THEOREM PoolLocksLost == PoolSpec => LocksLost
<1>1. PoolInv /\ [PoolNext]_lockVars
        => [\A x \in Lost' \ Lost : Loses(x)]_lockVars
  <2> SUFFICES ASSUME PoolInv, [PoolNext]_lockVars, NEW x, x \in Lost', x \notin Lost
               PROVE  Loses(x)
    OBVIOUS
  <2>1. Unowned(lock', taken', x) => Unowned(lock, taken, x) \/ Loses(x)
    BY PoolNextStep DEF PoolStep
  <2>2. ~Unowned(lock, taken, x)
    BY LostIs
  <2>3. Unowned(lock', taken', x)
    <3>1. x \in taken' /\ x \notin Boot /\ x \notin LocksOf(Locked)'
      BY DEF Lost
    <3>2. \A o \in Fields : lock'[o] # 0 => lock'[o] \in LocksOf(Locked)'
      BY DEF LocksOf, Locked
    <3> QED BY <3>1, <3>2 DEF Unowned
  <2> QED BY <2>1, <2>2, <2>3
<1>2. PoolSpec => [][\A x \in Lost' \ Lost : Loses(x)]_lockVars
  BY <1>1, PoolInvariant, PTL DEF PoolSpec
<1>3. [\A x \in Lost' \ Lost : Loses(x)]_lockVars
        => [\A x \in Lost' \ Lost : \E t \in Threads :
              /\ ThreadLives(t) /\ ~ThreadLives(t)'
              /\ \/ x \in LocksOf(MailFields("hand", t))
                 \/ /\ lock'[<<"pcb", parent[t]>>] = 0
                    /\ x \in LocksOf({<<"box", t>>} \cup MailFields("box", t))]_lockVars
  BY DEF Loses
<1> QED BY <1>2, <1>3, PTL DEF LocksLost

-----------------------------------------------------------------------------
(* The system call gate: for any callers, numbers and sizes of configs it   *)
(* leaks no byte between processes and writes back no more than it may.    *)

\* No number is registered with a size that is not one of the sizes, a call
\* filled in has one too, and configs are arrays.  The buffer may hold
\* anything: that is the point.
GateShape ==
  /\ \A n \in DOMAIN syscalls : syscalls[n] \in Sizes
  /\ \A c \in Callers : call[c] # NoCall => call[c].size \in Sizes
  /\ DOMAIN mem = Callers /\ DOMAIN call = Callers
  /\ \A c \in Callers : mem[c] = [i \in Bytes |-> mem[c][i]]

GateInv == GateShape /\ Confined

\* What WriteBackBounded says of one step.
Bounded ==
  \A c \in live : \A i \in Bytes :
    mem'[c][i] # mem[c][i] =>
      /\ c = cur /\ cur' = c
      /\ \/ call[c] = NoCall
         \/ i <= Least(call[c].size, syscalls[call[c].num])

\* What a handler that knows max bytes makes of a buffer whose first max bytes
\* are the caller's or the kernel's are bytes of the caller's or the kernel's.
LEMMA HandledConfined ==
  ASSUME NEW c, NEW b, NEW max \in 0..Top, Top \in Nat,
         b = [i \in Bytes |-> b[i]],
         \A i \in Bytes : i <= max => b[i] \in {c, "kernel"},
         NEW h \in Handled(b, max)
  PROVE  \A i \in Bytes : i <= max => h[i] \in {c, "kernel"}
<1>1. 1..max \subseteq Bytes
  BY DEF Bytes
<1>2. CASE h = b
  BY <1>2
<1>3. ASSUME NEW j \in 1..max, h = [b EXCEPT ![j] = "kernel"]
      PROVE  \A i \in Bytes : i <= max => h[i] \in {c, "kernel"}
  BY <1>3
<1>4. ASSUME NEW j \in 1..max, NEW k \in 1..max, h = [b EXCEPT ![j] = b[k]]
      PROVE  \A i \in Bytes : i <= max => h[i] \in {c, "kernel"}
  <2>1. b[k] \in {c, "kernel"}
    BY <1>1
  <2>2. QED
    BY <2>1, <1>4
<1>5. QED
  BY <1>2, <1>3, <1>4 DEF Handled

\* A dispatch that writes back does so under the test on thread and CR3: it
\* replaces bytes of its caller's config that both sides agreed on, by bytes of
\* the caller's or the kernel's, and the caller goes on running.
LEMMA DispatchConfined ==
  ASSUME GateInv, NEW c \in Callers, syscall_dispatch(c)
  PROVE  GateInv' /\ Bounded
<1> DEFINE max == syscalls[call[c].num]
           n == Least(call[c].size, max)
           own == max > SYSCALL_KBUF_MAX
           fresh == IF own THEN [i \in Bytes |-> "kernel"] ELSE Zeroed(syscall_kbuf, max, n)
           b == Copied(fresh, mem[c], n)
<1>1. c = cur /\ call[c] # NoCall /\ max \in Sizes /\ call[c].size \in Sizes
  BY DEF syscall_dispatch, GateInv, GateShape
<1>2. max \in 0..Top /\ call[c].size \in 0..Top /\ Top \in Nat
  BY <1>1, GateAssumption
<1>3. n \in 0..max
  BY <1>2 DEF Least
<1>4. PICK buf \in Handled(b, max), f \in Fates(c) :
        /\ cur' = f.tid
        /\ call' = [d \in Callers |-> IF d \in f.gone \cup {c} THEN NoCall ELSE call[d]]
        /\ \/ StillThere(c, f) /\ mem' = [mem EXCEPT ![f.cr3] = Copied(@, buf, n)]
           \/ mem' = mem
  BY DEF syscall_dispatch
<1>5. syscalls' = syscalls
  BY DEF syscall_dispatch
<1>6. /\ DOMAIN call' = Callers
      /\ \A d \in Callers : call'[d] # NoCall => call'[d].size \in Sizes
  <2>1. \A d \in Callers : call'[d] # NoCall => call'[d] = call[d]
    BY <1>4
  <2> QED BY <2>1, <1>4 DEF GateInv, GateShape
<1> HIDE DEF max, n
<1>7. b = [i \in Bytes |-> b[i]]
  BY DEF Copied
<1>8. \A i \in Bytes : i <= max => b[i] \in {c, "kernel"}
  <2>1. \A i \in Bytes : i <= max => fresh[i] = "kernel"
    BY <1>2 DEF Zeroed
  <2>2. \A i \in Bytes : mem[c][i] \in {c, "kernel"}
    BY DEF GateInv, Confined
  <2>3. QED
    BY <2>1, <2>2 DEF Copied
<1> HIDE DEF b
<1>9. \A i \in Bytes : i <= max => buf[i] \in {c, "kernel"}
  BY <1>2, <1>4, <1>7, <1>8, HandledConfined
<1>10. DOMAIN mem = Callers /\ \A d \in Callers : mem[d] = [i \in Bytes |-> mem[d][i]]
  BY DEF GateInv, GateShape
<1>11. CASE mem' = mem
  BY <1>11, <1>5, <1>6 DEF GateInv, GateShape, Confined, Bounded
<1>12. CASE StillThere(c, f) /\ mem' = [mem EXCEPT ![f.cr3] = Copied(@, buf, n)]
  <2>1. mem' = [mem EXCEPT ![c] = Copied(mem[c], buf, n)] /\ cur' = c
    BY <1>4, <1>12 DEF StillThere
  <2>2. \A d \in Callers \ {c} : mem'[d] = mem[d]
    BY <2>1, <1>10
  <2>3. mem'[c] = Copied(mem[c], buf, n)
    BY <2>1, <1>10
  <2>4. \A i \in Bytes : mem'[c][i] = IF i <= n THEN buf[i] ELSE mem[c][i]
    BY <2>3 DEF Copied
  <2>5. DOMAIN mem' = Callers
    BY <2>1, <1>10
  <2>6. \A d \in Callers : mem'[d] = [i \in Bytes |-> mem'[d][i]]
    BY <2>2, <2>3, <1>10 DEF Copied
  <2>7. GateShape'
    BY <2>5, <2>6, <1>5, <1>6 DEF GateInv, GateShape, Bytes
  <2>8. \A i \in Bytes : i <= n => i <= max
    BY <1>2, <1>3 DEF Bytes
  <2>9. Confined'
    <3>1. \A d \in Callers : \A i \in Bytes : mem[d][i] \in {d, "kernel"}
      BY DEF GateInv, Confined
    <3>2. \A d \in Callers : \A i \in Bytes : mem'[d][i] \in {d, "kernel"}
      BY <3>1, <2>2, <2>4, <2>8, <1>9
    <3>3. QED
      BY <3>2 DEF Confined, Bytes
  <2>10. \A d \in Callers : \A i \in Bytes : mem'[d][i] # mem[d][i] => d = c /\ i <= n
    BY <2>2, <2>4
  <2>11. \A d : d \notin Callers => mem'[d] = mem[d]
    BY <2>1
  <2>12. Bounded
    BY <2>1, <2>10, <2>11, <1>1 DEF Bounded, n, max
  <2>13. QED
    BY <2>7, <2>9, <2>12 DEF GateInv
<1>13. QED
  BY <1>4, <1>11, <1>12

\* A step keeps GateInv and is Bounded.
LEMMA StepConfined ==
  ASSUME GateInv, [GateNext]_gateVars
  PROVE  GateInv' /\ [Bounded]_gateVars
<1>1. CASE UNCHANGED gateVars
  BY <1>1 DEF gateVars, GateInv, GateShape, Confined
<1>2. ASSUME NEW num \in Numbers, NEW max \in Sizes, syscall_register(num, max)
      PROVE  GateInv' /\ Bounded
  BY <1>2 DEF syscall_register, GateInv, GateShape, Confined, Bounded
<1>3. ASSUME NEW num \in Numbers, syscall_unregister(num)
      PROVE  GateInv' /\ Bounded
  BY <1>3 DEF syscall_unregister, GateInv, GateShape, Confined, Bounded
<1>4. ASSUME NEW c \in Callers, DispatchFaults(c) \/ DispatchRefused(c)
      PROVE  GateInv' /\ Bounded
  BY <1>4 DEF DispatchFaults, DispatchRefused, GateInv, GateShape, Confined, Bounded
<1>5. ASSUME NEW c \in Callers, syscall_dispatch(c)
      PROVE  GateInv' /\ Bounded
  BY <1>5, DispatchConfined
<1>6. ASSUME NEW c \in Callers, NEW num \in Numbers, NEW size \in Sizes, Prepare(c, num, size)
      PROVE  GateInv' /\ Bounded
  <2>1. /\ mem' = [mem EXCEPT ![c] = [i \in Bytes |-> c]] /\ syscalls' = syscalls
        /\ call' = [call EXCEPT ![c] = [num |-> num, size |-> size]]
        /\ c = cur /\ cur' = cur /\ call[c] = NoCall
    BY <1>6 DEF Prepare
  <2>2. /\ mem'[c] = [i \in Bytes |-> c]
        /\ \A d : d # c => mem'[d] = mem[d] \/ d \notin DOMAIN mem
        /\ DOMAIN mem' = Callers /\ DOMAIN call' = Callers
        /\ \A d \in Callers : call'[d] # NoCall => call'[d].size \in Sizes
    BY <2>1 DEF GateInv, GateShape
  <2>3. \A d : d # c => mem'[d] = mem[d]
    BY <2>1
  <2>4. Bounded
    BY <2>1, <2>3 DEF Bounded
  <2>5. QED
    BY <2>1, <2>2, <2>3, <2>4 DEF GateInv, GateShape, Confined
<1>7. ASSUME NEW c \in Callers, Schedule(c)
      PROVE  GateInv' /\ Bounded
  BY <1>7 DEF Schedule, GateInv, GateShape, Confined, Bounded
<1>8. ASSUME NEW c \in Callers, Wake(c)
      PROVE  GateInv' /\ Bounded
  <2>1. CASE c \in live
    BY <1>8, <2>1 DEF Wake, GateInv, GateShape, Confined, Bounded
  <2>2. CASE c \notin live
    <3>1. mem' = [mem EXCEPT ![c] = [i \in Bytes |-> c]] /\ syscalls' = syscalls /\ call' = call
      BY <1>8, <2>2 DEF Wake
    <3>2. mem'[c] = [i \in Bytes |-> c] /\ DOMAIN mem' = Callers
      BY <3>1 DEF GateInv, GateShape
    <3>3. \A d : d # c => mem'[d] = mem[d]
      BY <3>1
    <3>4. Bounded
      BY <2>2, <3>3 DEF Bounded
    <3>5. QED
      BY <3>1, <3>2, <3>3, <3>4 DEF GateInv, GateShape, Confined
  <2>3. QED
    BY <2>1, <2>2
<1>9. QED
  BY <1>1, <1>2, <1>3, <1>4, <1>5, <1>6, <1>7, <1>8 DEF GateNext

\* In every behaviour of the gate no process gets a byte of another's config
\* (the shared syscall_kbuf of syscall_dispatch).
THEOREM GateConfined == GateSpec => []Confined
<1>1. GateInit => GateInv
  BY DEF GateInit, GateInv, GateShape, Confined
<1>2. GateInv /\ [GateNext]_gateVars => GateInv'
  BY StepConfined
<1>3. GateInv => Confined
  BY DEF GateInv
<1>4. QED
  BY <1>1, <1>2, <1>3, PTL DEF GateSpec

\* Whatever a handler makes of its caller (it blocks, deletes its thread, exits
\* or ends another process), syscall_dispatch writes into no memory but that of
\* a caller that goes on running, and not beyond the shorter of both lengths:
\* the test of thread and CR3 before copy_to_user suffices.
THEOREM GateWritesBounded == GateSpec => WriteBackBounded
<1>1. GateInit => GateInv
  BY DEF GateInit, GateInv, GateShape, Confined
<1>2. GateInv /\ [GateNext]_gateVars => GateInv'
  BY StepConfined
<1>3. GateInv /\ [GateNext]_gateVars => [Bounded]_gateVars
  BY StepConfined
<1>4. QED
  BY <1>1, <1>2, <1>3, PTL DEF GateSpec, WriteBackBounded, Bounded

=============================================================================
