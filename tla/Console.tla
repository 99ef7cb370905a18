------------------------------ MODULE Console -------------------------------
(***************************************************************************)
(* The console: a key pressed at the keyboard travels through the 8042     *)
(* controller, the keyboard server and a broadcast mail to the key thread  *)
(* of the terminal server, which shares the screen with the main thread    *)
(* that serves text and graphics requests, and, while the system boots,    *)
(* with the kernel's own launcher (kterm).                                 *)
(*                                                                         *)
(* The two threads take g_vga_lock before they touch anything but g_mode,  *)
(* which only the main thread writes.  kterm knows no lock: it writes a    *)
(* line with interrupts off, and may do so between any two of the port     *)
(* accesses by which the server reads or moves the hardware cursor, each   *)
(* of them a system call.  What else a thread does under the lock is one   *)
(* step, and so is a mode switch: by then the launcher is silent.          *)
(* A cell of the screen is who wrote it; colours are left out.             *)
(* Portal calls are atomic here (Portal refines PortalRPC), and a mailbox  *)
(* is a queue (Mailbox refines MailChannel).                               *)
(***************************************************************************)
EXTENDS Naturals, Sequences

CONSTANTS
  Width, Height,    \* VGA_WIDTH, VGA_HEIGHT
  CrtByte,          \* values of a CRT register: 256
  DrainMax,         \* scancodes the keyboard server takes per notification
  Payloads,         \* the requests of console clients
  MaxKeys,          \* bound: scancodes, and notifications at a time
  Launches          \* lines the launcher still has to print

VARIABLES
  windows,          \* which of the windows vga_map_windows got
  vga,              \* the screen, its mode and font, and term_row / term_col
  crt,              \* the CRT controller: its index and the cursor registers
  g_vga_lock,       \* who has it, and which port access of what is next
  cut,              \* ghost: a line of kterm fell between the accesses of ...
  g_mode,
  saved_font,       \* "none" until font_saved is set
  main,             \* the main thread: [pc, req, rest of a text]
  key,              \* the key thread: not subscribed, listening or about to echo
  mails,            \* the key thread's mailbox
  kb,               \* the keyboard server: [pc, drained]
  irqs,             \* MAIL_MAGIC_IRQ mails in its mailbox
  slot,             \* the output buffer of the 8042
  typed,            \* the scancodes typed; slot, mails and seen hold their numbers
  seen,             \* those the key thread has taken
  since,            \* how many had been broadcast when it subscribed
  short,            \* ghost: a mail for a scancode could not be allocated
  launcher          \* kterm: [row, col, lines]

crtVars == <<crt, g_vga_lock, cut>>
keyVars == <<mails, kb, irqs, slot, typed, seen, since, short>>
screenVars == <<windows, vga, crtVars, g_mode, saved_font, main, key, keyVars, launcher>>

Cells == 0..(Width * Height - 1)
Writers == {"blank", "boot", "main", "key", "frame"}

\* A text is a sequence of characters ("c"), newlines ("n") and the sequences
\* ESC[2J ("J") and ESC[H ("H"); the others are control frames.
PayloadKinds == {"text", "clear", "mode13", "mode3", "badmode", "blit"}

ASSUME ConsoleAssumption ==
  /\ Width \in Nat \ {0} /\ Height \in Nat \ {0, 1}
  /\ CrtByte \in Nat \ {0} /\ Width * Height <= CrtByte * CrtByte
  /\ DrainMax \in Nat \ {0} /\ MaxKeys \in Nat /\ Launches \in Nat
  /\ \A r \in Payloads : r.kind \in PayloadKinds

\* A printable press, and a release or a key without a character.
Scancodes == {"press", "other"}

-----------------------------------------------------------------------------
\* The CRT controller.  A position is a u16 and has a register for each byte.

PosHi(pos) == (pos % (CrtByte * CrtByte)) \div CrtByte
PosLo(pos) == pos % CrtByte

\* What the two pairs of writes of kterm_cursor_update leave.
CrtAt(pos) == [index |-> "lo", hi |-> PosHi(pos), lo |-> PosLo(pos)]

\* VGA_CRT_ADDR, and VGA_CRT_DATA for the register it selects.
CrtSelect(r) == [crt EXCEPT !.index = r]
CrtWrite(b) == CASE crt.index = "hi" -> [crt EXCEPT !.hi = b]
                 [] crt.index = "lo" -> [crt EXCEPT !.lo = b]
                 [] OTHER -> crt
CrtRead == IF crt.index = "hi" THEN crt.hi ELSE crt.lo

Unlocked == [by |-> "nobody", doing |-> "nothing", step |-> 0, hi |-> 0]
LockedBy(t, d) == [by |-> t, doing |-> d, step |-> 1, hi |-> 0]

-----------------------------------------------------------------------------
\* The screen.  Each operator is the new value of vga.

Store(v, cells) == IF v.mode = "text" THEN cells ELSE v.cells
Fill(v, who) == [v EXCEPT !.cells = [p \in Cells |-> who]]

\* A store outside the screen changes no cell of it.
Written(v, at, who) == Store(v, [p \in Cells |-> IF p = at THEN who ELSE v.cells[p]])

term_scroll_up(v) ==
  [v EXCEPT !.cells = Store(v, [p \in Cells |-> IF p + Width \in Cells THEN v.cells[p + Width]
                                                                      ELSE "blank"]),
            !.row = Height - 1, !.col = 0]

term_clear_screen(v) ==
  IF windows.text
  THEN [v EXCEPT !.cells = Store(v, [p \in Cells |-> "blank"]), !.row = 0, !.col = 0]
  ELSE v

\* Mutant of NewLine: the screen scrolls one row too late.
NewLine_LastRow(v) ==
  LET down == [v EXCEPT !.row = @ + 1, !.col = 0]
  IN IF down.row > Height THEN term_scroll_up(down) ELSE down
NewLine(v) ==
  LET down == [v EXCEPT !.row = @ + 1, !.col = 0]
  IN IF down.row >= Height THEN term_scroll_up(down) ELSE down

PutChar(v, who) ==
  LET put == [v EXCEPT !.cells = Written(v, v.row * Width + v.col, who), !.col = @ + 1]
  IN IF put.col >= Width THEN NewLine(put) ELSE put

\* term_putc up to its term_cursor_update.
term_putc(v, c, who) ==
  IF ~windows.text THEN v ELSE IF c = "n" THEN NewLine(v) ELSE PutChar(v, who)

\* One character or escape sequence of term_print, and whether it goes on to
\* term_cursor_update.
Printed(v, c) ==
  CASE c = "J" -> term_clear_screen(v)
    [] c = "H" -> [v EXCEPT !.row = 0, !.col = 0]
    [] OTHER -> term_putc(v, c, "main")
MovesCursor(c) == windows.text \/ c \in {"J", "H"}

\* Mode 0x13 spreads what is written to the frame buffer over all four planes:
\* the text font in plane 2 and the text cells go.
DrawFrame(v) == IF windows.frame THEN [Fill(v, "frame") EXCEPT !.font = "wiped"] ELSE v

\* Mutant of font_save: font_saved is not looked at.
font_save_Again(v) == IF windows.frame THEN v.font ELSE saved_font
font_save(v) == IF saved_font = "none" /\ windows.frame THEN v.font ELSE saved_font
font_load(v) == IF saved_font # "none" /\ windows.frame
                THEN [v EXCEPT !.font = saved_font] ELSE v

gfx_enter_mode13(v) == DrawFrame([v EXCEPT !.mode = "mode13"])
gfx_enter_text(v) == term_clear_screen(font_load([v EXCEPT !.mode = "text"]))

-----------------------------------------------------------------------------
ScreenInit ==
  /\ windows \in [text : BOOLEAN, frame : BOOLEAN]
  /\ vga = [cells |-> [p \in Cells |-> IF p < Width THEN "boot" ELSE "blank"],
            row |-> 0, col |-> 0, mode |-> "text", font |-> "font"]
  /\ crt = CrtAt(Width) /\ g_vga_lock = Unlocked
  /\ cut = [sync |-> FALSE, hw |-> FALSE]
  /\ g_mode = "text" /\ saved_font = "none"
  /\ main = [pc |-> "start", req |-> << >>, rest |-> << >>]
  /\ key = "start" /\ mails = << >>
  /\ kb = [pc |-> "wait", drained |-> 0] /\ irqs = 0 /\ slot = << >>
  /\ typed = << >> /\ seen = << >> /\ since = 0 /\ short = FALSE
  /\ launcher = [row |-> 1, col |-> 0, lines |-> Launches]

\* The launcher prints a line with kterm_write, at its own row, and loads the
\* next program.  Its rows wrap to the top.
kterm_write ==
  LET down == IF launcher.row + 1 >= Height THEN 0 ELSE launcher.row + 1
      inside(d) == g_vga_lock.doing = d /\ g_vga_lock.step > 1
  IN /\ launcher.lines > 0
     /\ launcher' = [launcher EXCEPT !.row = down, !.lines = @ - 1]
     /\ vga' = [vga EXCEPT !.cells = Written(vga, launcher.row * Width, "boot")]
     /\ crt' = CrtAt(down * Width)
     /\ cut' = [sync |-> cut.sync \/ inside("sync"), hw |-> inside("update")]
     /\ UNCHANGED <<windows, g_vga_lock, g_mode, saved_font, main, key, keyVars>>

-----------------------------------------------------------------------------
\* Under g_vga_lock.

\* The thread t takes the free lock and does to the screen what w says; then
\* it moves the hardware cursor, or is done.
Section(t, w, moves) ==
  /\ g_vga_lock = Unlocked
  /\ vga' = w
  /\ IF moves THEN /\ g_vga_lock' = LockedBy(t, "update")
                   /\ cut' = [cut EXCEPT !.hw = FALSE]
              ELSE UNCHANGED <<g_vga_lock, cut>>
  /\ UNCHANGED <<windows, crt>>

\* The next port access; the lock is released behind the last one.
term_cursor_update ==
  LET pos == vga.row * Width + vga.col
      step == g_vga_lock.step
  IN /\ g_vga_lock.doing = "update"
     /\ crt' = CASE step = 1 -> CrtSelect("hi")
                 [] step = 2 -> CrtWrite(PosHi(pos))
                 [] step = 3 -> CrtSelect("lo")
                 [] step = 4 -> CrtWrite(PosLo(pos))
     /\ g_vga_lock' = IF step = 4 THEN Unlocked ELSE [g_vga_lock EXCEPT !.step = @ + 1]
     /\ UNCHANGED <<windows, vga, cut, g_mode, saved_font, main, key, keyVars, launcher>>

\* The main thread adopts the hardware cursor; the key thread runs already, and
\* ns_register has succeeded or given up.
SyncLocks ==
  /\ main.pc = "start" /\ g_vga_lock = Unlocked
  /\ g_vga_lock' = LockedBy("main", "sync")
  /\ UNCHANGED <<windows, vga, crt, cut, g_mode, saved_font, main, key, keyVars, launcher>>

SyncAccesses ==
  LET step == g_vga_lock.step
  IN /\ g_vga_lock.doing = "sync" /\ step < 4
     /\ crt' = CASE step = 1 -> CrtSelect("hi") [] step = 2 -> crt [] step = 3 -> CrtSelect("lo")
     /\ g_vga_lock' = [g_vga_lock EXCEPT !.step = @ + 1, !.hi = IF step = 2 THEN CrtRead ELSE @]
     /\ UNCHANGED <<windows, vga, cut, g_mode, saved_font, main, key, keyVars, launcher>>

SyncAdopts ==
  LET pos == g_vga_lock.hi * CrtByte + CrtRead
  IN /\ g_vga_lock.doing = "sync" /\ g_vga_lock.step = 4
     /\ vga' = [vga EXCEPT !.row = pos \div Width, !.col = pos % Width]
     /\ cut' = [cut EXCEPT !.sync = @ \/ cut.hw]
     /\ g_vga_lock' = Unlocked
     /\ main' = [main EXCEPT !.pc = "serve"]
     /\ UNCHANGED <<windows, crt, g_mode, saved_font, key, keyVars, launcher>>

term_sync_cursor_from_hw == SyncLocks \/ SyncAccesses \/ SyncAdopts

-----------------------------------------------------------------------------
\* The main thread of the terminal server.

\* GET_REQ.  A text is printed in text mode only; programs that use graphics
\* are loaded last, when the launcher has printed its last line.
GetReq(r) ==
  /\ main.pc = "serve"
  /\ r.kind \in {"mode13", "mode3", "blit"} => launcher.lines = 0
  /\ main' = [pc |-> IF r.kind = "text" THEN "print" ELSE "handle", req |-> r,
              rest |-> IF r.kind = "text" /\ g_mode = "text" THEN r.text ELSE << >>]
  /\ UNCHANGED <<windows, vga, crtVars, g_mode, saved_font, key, keyVars, launcher>>

\* The lock is taken and released for every character or sequence.
term_print ==
  /\ main.pc = "print" /\ main.rest # << >>
  /\ Section("main", Printed(vga, Head(main.rest)), MovesCursor(Head(main.rest)))
  /\ main' = [main EXCEPT !.rest = Tail(@)]
  /\ UNCHANGED <<g_mode, saved_font, key, keyVars, launcher>>

\* The request that is ESC[2J alone, in whatever mode.
HandleClear ==
  /\ main.pc = "handle" /\ main.req.kind = "clear"
  /\ Section("main", term_clear_screen(vga), TRUE)
  /\ main' = [main EXCEPT !.pc = "print"]
  /\ UNCHANGED <<g_mode, saved_font, key, keyVars, launcher>>

\* gfx_handle.  The register tables of mode 0x13 put the hardware cursor at 0
\* and leave the index at the last register; text mode moves the cursor last.
Handle ==
  /\ main.pc = "handle" /\ main.req.kind # "clear" /\ g_vga_lock = Unlocked
  /\ main' = [main EXCEPT !.pc = "print"]
  /\ CASE main.req.kind = "mode13" ->
            /\ saved_font' = font_save(vga)
            /\ vga' = gfx_enter_mode13(vga)
            /\ crt' = [index |-> "other", hi |-> 0, lo |-> 0]
            /\ g_mode' = "mode13"
            /\ UNCHANGED cut
       [] main.req.kind = "mode3" ->
            /\ vga' = gfx_enter_text(vga)
            /\ crt' = CrtAt(vga'.row * Width + vga'.col)
            /\ cut' = [cut EXCEPT !.hw = FALSE]
            /\ g_mode' = "text"
            /\ UNCHANGED saved_font
       [] main.req.kind = "blit" ->
            /\ vga' = IF g_mode = "mode13" THEN DrawFrame(vga) ELSE vga
            /\ UNCHANGED <<crt, cut, g_mode, saved_font>>
       [] main.req.kind = "badmode" -> UNCHANGED <<vga, crt, cut, g_mode, saved_font>>
  /\ UNCHANGED <<windows, g_vga_lock, key, keyVars, launcher>>

Reply ==
  /\ main.pc = "print" /\ main.rest = << >> /\ g_vga_lock.by # "main"
  /\ main' = [pc |-> "serve", req |-> << >>, rest |-> << >>]
  /\ UNCHANGED <<windows, vga, crtVars, g_mode, saved_font, key, keyVars, launcher>>

-----------------------------------------------------------------------------
\* The key thread has resolved "kb" and subscribes to the broadcasts.
KeySubscribe ==
  /\ key = "start"
  /\ key' = "listen"
  /\ since' = Len(typed) - Len(slot)
  /\ UNCHANGED <<windows, vga, crtVars, g_mode, saved_font, main, mails, kb, irqs, slot,
                 typed, seen, short, launcher>>

\* The key thread: g_mode is read here and the lock is taken in the next step.
KeyListen ==
  /\ key = "listen" /\ mails # << >> /\ g_vga_lock.by # "key"
  /\ mails' = Tail(mails)
  /\ seen' = Append(seen, Head(mails))
  /\ key' = IF typed[Head(mails)] = "press" /\ g_mode = "text" THEN "echo" ELSE "listen"
  /\ UNCHANGED <<windows, vga, crtVars, g_mode, saved_font, main, kb, irqs, slot, typed,
                 since, short, launcher>>

KeyEcho ==
  /\ key = "echo"
  /\ Section("key", term_putc(vga, "c", "key"), MovesCursor("c"))
  /\ key' = "listen"
  /\ UNCHANGED <<g_mode, saved_font, main, keyVars, launcher>>

-----------------------------------------------------------------------------
\* The keyboard.  The controller holds one scancode and interrupts when it gets
\* one; dispatch_user_mode_irq turns the interrupt into a mail, if it gets one.
\* Until the slot is read the keyboard keeps the next scancode back.
Type(c) ==
  /\ slot = << >> /\ Len(typed) < MaxKeys /\ irqs < MaxKeys
  /\ typed' = Append(typed, c) /\ slot' = <<Len(typed) + 1>>
  /\ \/ irqs' = irqs + 1 /\ UNCHANGED short
     \/ short' = TRUE /\ UNCHANGED irqs
  /\ UNCHANGED <<windows, vga, crtVars, g_mode, saved_font, main, key, mails, kb, seen,
                 since, launcher>>

\* user_irq_wait returns.
KbWait ==
  /\ kb.pc = "wait" /\ irqs > 0
  /\ irqs' = irqs - 1
  /\ kb' = [pc |-> "drain", drained |-> 0]
  /\ UNCHANGED <<windows, vga, crtVars, g_mode, saved_font, main, key, mails, slot, typed,
                 seen, since, short, launcher>>

\* Mutant of Broadcast: a mail is sent for the original and for its clone.
Broadcast_Again(i) ==
  \/ key # "start" /\ mails' = mails \o <<i, i>> /\ UNCHANGED short
  \/ key # "start" /\ short' = TRUE /\ UNCHANGED mails
  \/ key = "start" /\ UNCHANGED <<mails, short>>

\* kb_broadcast_key: without memory for the mail, or for the subscriber's clone
\* of it, or without a subscriber, the scancode is gone.
Broadcast(i) ==
  \/ key # "start" /\ mails' = Append(mails, i) /\ UNCHANGED short
  \/ key # "start" /\ short' = TRUE /\ UNCHANGED mails
  \/ key = "start" /\ UNCHANGED <<mails, short>>

\* The status port, the data port and the broadcast; only this thread reads the
\* controller, so the three are one step.
KbDrain ==
  /\ kb.pc = "drain" /\ kb.drained < DrainMax /\ slot # << >>
  /\ Broadcast(slot[1])
  /\ slot' = << >>
  /\ kb' = [kb EXCEPT !.drained = @ + 1]
  /\ UNCHANGED <<windows, vga, crtVars, g_mode, saved_font, main, key, irqs, typed, seen,
                 since, launcher>>

KbDrained ==
  /\ kb.pc = "drain" /\ (kb.drained = DrainMax \/ slot = << >>)
  /\ kb' = [pc |-> "wait", drained |-> 0]
  /\ UNCHANGED <<windows, vga, crtVars, g_mode, saved_font, main, key, mails, irqs, slot,
                 typed, seen, since, short, launcher>>

-----------------------------------------------------------------------------
ScreenNext ==
  \/ kterm_write
  \/ term_sync_cursor_from_hw \/ term_cursor_update
  \/ \E r \in Payloads : GetReq(r)
  \/ term_print \/ HandleClear \/ Handle \/ Reply
  \/ KeySubscribe \/ KeyListen \/ KeyEcho
  \/ \E c \in Scancodes : Type(c)
  \/ KbWait \/ KbDrain \/ KbDrained

ScreenSpec == ScreenInit /\ [][ScreenNext]_screenVars

-----------------------------------------------------------------------------
\* Unless kterm printed a line between the port accesses by which the server
\* adopted its cursor (OnScreen is what becomes of it then), the cursor never
\* leaves the screen, whatever the two threads write, clear, scroll and switch:
\* no store of term_putc leaves the text window.  And when the lock is free the
\* hardware cursor stands where the server, or the launcher if it wrote last,
\* puts its next character, unless kterm printed within the last update.
CursorTrue ==
  ~cut.sync =>
    /\ vga.row < Height /\ vga.col < Width
    /\ g_vga_lock = Unlocked /\ vga.mode = "text" /\ ~cut.hw =>
         \E pos \in {vga.row * Width + vga.col, launcher.row * Width + launcher.col} :
           crt.hi = PosHi(pos) /\ crt.lo = PosLo(pos)

\* terminal_server.c:95: the server adopts "the cursor position left by the
\* kernel's kterm", which is on the screen.
OnScreen == vga.row < Height /\ vga.col < Width

\* However often and from wherever clients switch modes, and whichever windows
\* could be mapped: text mode always finds its font, and no cell of a text
\* buffer the server can write shows what is left of a frame.
TextReadable ==
  vga.mode = "text" =>
    /\ vga.font = "font"
    /\ windows.text => \A p \in Cells : vga.cells[p] # "frame"

\* From the controller to the key thread no scancode is doubled or overtaken,
\* whatever allocations fail.  While none does, every scancode typed or waiting
\* since the subscription is on its way or was seen, and one that waits in the
\* controller has a notification on its way.
KeysKept ==
  LET path == seen \o mails \o slot
  IN /\ \A i, j \in DOMAIN path : i < j => path[i] < path[j]
     /\ ~short => /\ key # "start" => path = [i \in 1..(Len(typed) - since) |-> since + i]
                  /\ slot # << >> => irqs > 0 \/ (kb.pc = "drain" /\ kb.drained < DrainMax)
=============================================================================
