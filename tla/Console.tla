------------------------------ MODULE Console --------------------------------
(***************************************************************************)
(* sys_write in its chunks, the text screen of io.c with the calls that    *)
(* move its cursor, paint it and colour it, and what the kernel puts there *)
(* itself; also the stores of system calls into user memory.  A word of    *)
(* video memory is a record of its four bit fields; the zero word has      *)
(* char = Blank.                                                           *)
(***************************************************************************)
EXTENDS UserAccess

CONSTANTS
  NUM_COLUMNS, NUM_ROWS,   \* 80 and 25 in the source
  FIRST_ROW,               \* the row of the cursor at the start, 19 in the source
  TAM_BUFFER,              \* bytes of localbuffer, 512 in the source
  Newlines,                \* the addresses whose byte is '\n'
  ClockCells,              \* where the clock is shown: 70 to 74 in libzeos.a
  Messages,                \* texts the kernel prints
  STATS_SIZE,              \* sizeof(struct stats), 28 in the source
  Pointers, Lengths,       \* buffers and sizes that tasks pass
  Colors,                  \* foreground and background arguments
  MaxCalls                 \* bound: calls that change the screen's content

\* Sizes are at most the largest int and the size of a matrix, far from a page
\* less than the address space.
ASSUME ConsoleAssumption ==
  /\ {NUM_COLUMNS, NUM_ROWS, TAM_BUFFER} \subseteq Nat \ {0}
  /\ FIRST_ROW \in 0 .. NUM_ROWS - 1 /\ MaxCalls \in Nat /\ Colors \subseteq Int
  /\ Pointers \subseteq 0 .. ADDRESSES - 1 /\ Lengths \subseteq Int
  /\ \A size \in Lengths \cup {1, STATS_SIZE, 4 * NUM_ROWS * NUM_COLUMNS} :
       size \in Int /\ size <= ADDRESSES - PAGE_SIZE

Blank == -1

\* Bytes that come from no user's address: of a message, of the clock's time,
\* and the '\n' of a message.
Text == -2
Digit == -3
Newline == -4

ASSUME MessagesAssumption == Messages \subseteq Seq({Text, Newline})

Green == 2

Light_Gray == 7

\* Video memory from 0xb8000 on, as far as a cursor can reach.
Cell == 0 .. NUM_ROWS * NUM_COLUMNS + NUM_COLUMNS

OnScreen == 0 .. NUM_ROWS * NUM_COLUMNS - 1

VARIABLES
  tty,     \* video memory and the cursor
  call,    \* locals of the sys_write under way
  last,    \* history: the last call.  What a sys_write has printed, whether
           \* the cursor was on the screen when it began, and the addresses
           \* that another call has stored to
  calls

vars == <<tty, call, last, calls>>

NoCall == [active |-> FALSE, buffer |-> 0, bytes_left |-> 0]

NoWrite ==
  [start |-> 0, nbytes |-> 0, printed |-> <<>>, edge |-> TRUE, stored |-> {}]

\* a | b, of the bit of weight w.
or_bit(a, b, w) == IF (a \div w) % 2 = 1 \/ (b \div w) % 2 = 1 THEN w ELSE 0

or_low(a, b) == or_bit(a, b, 1) + or_bit(a, b, 2) + or_bit(a, b, 4)

\* Mutant: the mask 0x7FFF is left out.
color_bits_unmasked(fg, bg) ==
  [fg |-> fg % 16, bg |-> or_low(fg \div 16, bg) + or_bit(fg \div 16, bg, 8)]

\* (fg << 8 | bg << 12) & 0x7FFF, as the two fields it fills.
color_bits(fg, bg) == [fg |-> fg % 16, bg |-> or_low(fg \div 16, bg)]

\* The user's screen_matrix_format.
screen_matrix_format(c, fg, bg, blnk) ==
  [char |-> c, fg |-> color_bits(fg, bg).fg, bg |-> color_bits(fg, bg).bg,
   blink |-> blnk % 2]

ZeroWord == screen_matrix_format(Blank, 0, 0, 0)

Init ==
  /\ tty = [screen |-> [c \in Cell |-> ZeroWord], x |-> 0, y |-> FIRST_ROW]
  /\ call = NoCall /\ last = NoWrite /\ calls = 0
-----------------------------------------------------------------------------
\* Mutant: the row is not taken modulo NUM_ROWS.
new_line_scrolls_off(t) == [t EXCEPT !.x = 0, !.y = IF @ < NUM_ROWS THEN @ + 1 ELSE @]

new_line(t) == [t EXCEPT !.x = 0, !.y = (@ + 1) % NUM_ROWS]

\* Mutant: the column is reset one character early.
print_color_short(t, c, fg, bg, blnk) ==
  IF c \in Newlines \cup {Newline} THEN new_line(t)
  ELSE LET u == [t EXCEPT !.screen[t.y * NUM_COLUMNS + t.x] =
                            screen_matrix_format(c, fg, bg, blnk)]
       IN  IF t.x + 1 >= NUM_COLUMNS - 1 THEN new_line(u) ELSE [u EXCEPT !.x = @ + 1]

print_color(t, c, fg, bg, blnk) ==
  IF c \in Newlines \cup {Newline} THEN new_line(t)
  ELSE LET u == [t EXCEPT !.screen[t.y * NUM_COLUMNS + t.x] =
                            screen_matrix_format(c, fg, bg, blnk)]
       IN  IF t.x + 1 >= NUM_COLUMNS THEN new_line(u) ELSE [u EXCEPT !.x = @ + 1]

printc(t, c) == print_color(t, c, Green, 0, 0)

\* The characters of string one after the other; shown[k] is after k of them.
printk(string) ==
  LET shown[k \in 0 .. Len(string)] ==
        IF k = 0 THEN tty ELSE print_color(shown[k - 1], string[k], Light_Gray, Green, 0)
  IN  shown[Len(string)]

sys_write_console(bytes) ==
  LET shown[k \in 0 .. Len(bytes)] ==
        IF k = 0 THEN tty ELSE printc(shown[k - 1], bytes[k])
  IN  shown[Len(bytes)]

clear_screen == [tty EXCEPT !.screen = [c \in Cell |-> IF c \in OnScreen THEN ZeroWord ELSE @[c]]]

\* The matrix is at address b, two bytes for a cell.
clear_paint_screen(b, fg, bg, blnk) ==
  [tty EXCEPT !.screen = [c \in Cell |->
     IF c \in OnScreen THEN screen_matrix_format(Offset(b, 2 * c), fg, bg, blnk)
                       ELSE @[c]]]

change_screen_colors(fg, bg) ==
  [tty EXCEPT !.screen = [c \in Cell |->
     IF c \in OnScreen THEN screen_matrix_format(@[c].char, fg, bg, @[c].blink)
                       ELSE @[c]]]

setXY(x_n, y_n) == [tty EXCEPT !.x = x_n, !.y = y_n]
-----------------------------------------------------------------------------
Outside(t) == t.x >= NUM_COLUMNS \/ t.y >= NUM_ROWS

Quiet == ~call.active

\* Calls that change what is on the screen are counted.
Enter == Quiet /\ calls < MaxCalls /\ calls' = calls + 1

(* sys_write up to its loop, with a good descriptor.  A call that one of the
   checks rejects changes nothing, here and below. *)
sys_write(buffer, nbytes) ==
  /\ Enter /\ nbytes >= 0 /\ access_ok("VERIFY_READ", buffer, nbytes)
  /\ call' = [active |-> TRUE, buffer |-> buffer, bytes_left |-> nbytes]
  /\ last' = [start |-> buffer, nbytes |-> nbytes, printed |-> <<>>,
              edge |-> Outside(tty), stored |-> {}]
  /\ UNCHANGED tty

\* copy_from_user into localbuffer, then sys_write_console.
CopyAndShow(size) ==
  LET localbuffer == copy_from_user(call.buffer, size)
  IN  /\ tty' = sys_write_console(localbuffer)
      /\ last' = [last EXCEPT !.printed = @ \o localbuffer]

\* Mutant: buffer is not advanced.
WriteChunk_same_buffer ==
  /\ call.active /\ call.bytes_left > TAM_BUFFER
  /\ CopyAndShow(TAM_BUFFER)
  /\ call' = [call EXCEPT !.bytes_left = @ - TAM_BUFFER]
  /\ UNCHANGED calls

\* A turn of the loop over full local buffers.
WriteChunk ==
  /\ call.active /\ call.bytes_left > TAM_BUFFER
  /\ CopyAndShow(TAM_BUFFER)
  /\ call' = [call EXCEPT !.bytes_left = @ - TAM_BUFFER,
                          !.buffer = Offset(@, TAM_BUFFER)]
  /\ UNCHANGED calls

\* What is left after the loop, and the return.
WriteRest ==
  /\ call.active /\ call.bytes_left <= TAM_BUFFER
  /\ CopyAndShow(call.bytes_left)
  /\ call' = NoCall
  /\ UNCHANGED calls

(* The size checked is that of a matrix of DWords, twice what is read.  Page 0
   is no user page, so the branch for NULL is never reached. *)
sys_clrscr(b, fg, bg, blnk) ==
  /\ Enter /\ access_ok("VERIFY_READ", b, 4 * NUM_ROWS * NUM_COLUMNS)
  /\ tty' = IF b # 0 THEN clear_paint_screen(b, fg, bg, blnk) ELSE clear_screen
  /\ last' = NoWrite
  /\ UNCHANGED call

\* The column NUM_COLUMNS and the row NUM_ROWS are accepted.
sys_gotoXY(x_n, y_n) ==
  /\ Quiet /\ x_n <= NUM_COLUMNS /\ y_n <= NUM_ROWS
  /\ tty' = setXY(x_n, y_n)
  /\ last' = NoWrite
  /\ UNCHANGED <<call, calls>>

sys_changeColor(fg, bg) ==
  /\ Enter
  /\ tty' = change_screen_colors(fg, bg)
  /\ UNCHANGED <<call, last>>

(* The messages of semWait, semSignal, memRegDel and the page fault handler go
   to the place of the user's cursor and move it. *)
KernelMessage(string) ==
  /\ Enter
  /\ tty' = printk(string)
  /\ last' = [NoWrite EXCEPT !.edge = Outside(tty)]
  /\ UNCHANGED call

\* The clock interrupt writes the time into video memory, past the cursor.
zeos_show_clock ==
  /\ Quiet
  /\ tty' = [tty EXCEPT !.screen = [c \in Cell |->
       IF c \in ClockCells THEN screen_matrix_format(Digit, Green, 0, 0) ELSE @[c]]]
  /\ UNCHANGED <<call, last, calls>>

(* The stores of getKey, one byte, and get_stats, once the call has found a
   character or the process. *)
StoreToUser(addr, size) ==
  /\ Quiet /\ access_ok("VERIFY_WRITE", addr, size)
  /\ last' = [NoWrite EXCEPT !.stored = copy_to_user(addr, size)]
  /\ UNCHANGED <<tty, call, calls>>

Next ==
  \/ \E p \in Pointers, k \in Lengths : sys_write(p, k)
  \/ WriteChunk \/ WriteRest
  \/ \E fg, bg \in Colors :
       sys_changeColor(fg, bg) \/ \E p \in Pointers, k \in {0, 1} : sys_clrscr(p, fg, bg, k)
  \/ \E string \in Messages : KernelMessage(string)
  \/ zeos_show_clock
  \/ \E p \in Pointers, k \in {1, STATS_SIZE} : StoreToUser(p, k)
  \/ \E i \in 0 .. NUM_COLUMNS, j \in 0 .. NUM_ROWS : sys_gotoXY(i, j)

Spec == Init /\ [][Next]_vars
-----------------------------------------------------------------------------
Char == 0 .. ADDRESSES - 1

TypeOK ==
  /\ tty.screen \in [Cell -> [char : Char \cup {Blank, Text, Digit}, fg : 0 .. 15, bg : 0 .. 7,
                              blink : {0, 1}]]
  /\ tty.x \in 0 .. NUM_COLUMNS /\ tty.y \in 0 .. NUM_ROWS
  /\ call \in [active : BOOLEAN, buffer : Char, bytes_left : Nat]
  /\ calls \in 0 .. MaxCalls

(* The chunks that sys_write copies and prints are the caller's bytes, each
   once and in order, whether or not nbytes is a multiple of TAM_BUFFER. *)
PrintsTheBuffer ==
  last.printed = copy_from_user(last.start, last.nbytes - call.bytes_left)

(* Nothing of the kernel but its messages gets to the screen: whatever pointer
   and size the callers of sys_write and sys_clrscr pass, access_ok lets through
   bytes of user pages and of the one page behind the data only. *)
ShowsUserBytes ==
  \A c \in Cell : tty.screen[c].char \in Char =>
    Page(tty.screen[c].char) \in USER_FIRST_PAGE .. EndOfData

(* The other direction: whatever pointer is passed to getKey and get_stats, the
   bytes that copy_to_user stores are in user pages or the one behind the data,
   even if the block begins in the last of them. *)
StoresInUserPages ==
  \A addr \in last.stored : Page(addr) \in USER_FIRST_PAGE .. EndOfData

(* A sys_write or a message that begins with the cursor on the screen leaves it
   there; only the border that sys_gotoXY accepts leads out. *)
CursorStays == ~last.edge => ~Outside(tty)

(* The text since the last new line stands in the cells before the cursor, in
   order, around the end of a row and around the bottom of the screen, whatever
   clock interrupts follow; only the cells of the clock may have lost it. *)
TextInOrder ==
  LET len    == Len(last.printed)
      size   == NUM_ROWS * NUM_COLUMNS
      cursor == tty.y * NUM_COLUMNS + tty.x
  IN  ~last.edge =>
        \A m \in 1 .. len :
          m <= size /\ (\A k \in 0 .. m - 1 : last.printed[len - k] \notin Newlines)
            => LET c == (cursor - m) % size
               IN  c \in ClockCells \/ tty.screen[c].char = last.printed[len - m + 1]
=============================================================================
