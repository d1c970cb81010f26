---------------------------- MODULE ConsoleProofs ----------------------------
(***************************************************************************)
(* What sys_write and the screen promise, for every size of screen, page,  *)
(* address space and local buffer.                                         *)
(*                                                                         *)
(* access_ok lets no block through that reaches over the end of the        *)
(* address space, so all bytes that the kernel reads or stores for a       *)
(* caller are in user pages.  A turn of the loop of sys_write advances     *)
(* three things together: the bytes printed, the buffer and the count of   *)
(* bytes left.  What a string leaves on the screen is an induction over    *)
(* its characters, each of which moves the cursor to the next cell of the  *)
(* ring that the screen is.                                                *)
(***************************************************************************)
EXTENDS Console, SequenceTheorems, WellFoundedInduction, TLAPS

UserByte == {b \in Char : Page(b) \in USER_FIRST_PAGE .. EndOfData}

Word == [char : UserByte \cup {Blank, Text, Digit}, fg : 0 .. 15, bg : 0 .. 7, blink : {0, 1}]

Screen == [screen : [Cell -> Word], x : 0 .. NUM_COLUMNS, y : 0 .. NUM_ROWS]

Size == NUM_ROWS * NUM_COLUMNS

Cursor(t) == t.y * NUM_COLUMNS + t.x

\* TextInOrder, of the first n characters of a text.
Placed(t, text, n) ==
  \A m \in 1 .. n :
    m <= Size /\ (\A k \in 0 .. m - 1 : text[n - k] \notin Newlines)
      => LET c == (Cursor(t) - m) % Size
         IN  c \in ClockCells \/ t.screen[c].char = text[n - m + 1]

\* The sys_write under way has the rest of the caller's bytes before it.
CallFits ==
  /\ call \in [active : BOOLEAN, buffer : Char, bytes_left : Nat]
  /\ call.active \/ call = NoCall
  /\ call.active => call.buffer = Offset(last.start, last.nbytes - call.bytes_left)
  /\ \A k \in 0 .. call.bytes_left - 1 : Offset(call.buffer, k) \in UserByte

History ==
  /\ last \in [start : Char, nbytes : Nat, printed : Seq(UserByte),
               edge : BOOLEAN, stored : SUBSET UserByte]
  /\ call.bytes_left <= last.nbytes
  /\ PrintsTheBuffer

ConsoleInv ==
  /\ tty \in Screen /\ calls \in 0 .. MaxCalls
  /\ CallFits /\ History
  /\ ~last.edge => ~Outside(tty) /\ Placed(tty, last.printed, Len(last.printed))
-----------------------------------------------------------------------------
\* The sizes, as the proofs use them.
LEMMA Sizes ==
  /\ ADDRESSES \in Nat /\ ADDRESSES > 0 /\ PAGE_SIZE \in Nat /\ PAGE_SIZE > 0
  /\ USER_FIRST_PAGE \in Nat /\ USER_FIRST_PAGE > 0 /\ EndOfData \in Nat
  /\ NUM_COLUMNS \in Nat /\ NUM_COLUMNS > 0 /\ NUM_ROWS \in Nat /\ NUM_ROWS > 0
  /\ TAM_BUFFER \in Nat /\ TAM_BUFFER > 0
  BY AccessAssumption, ConsoleAssumption DEF EndOfData

\* A nonempty set of numbers has a least one.
LEMMA Least ==
  ASSUME NEW T \in SUBSET Nat, T # {}
  PROVE  \E x \in T : \A y \in T : x <= y
<1> DEFINE R == {p \in Nat \X Nat : p[1] < p[2]}
<1>1. IsWellFoundedOn(R, Nat)
  BY NatLessThanWellFounded, Zenon DEF OpToRel
<1> HIDE DEF R
<1>5. \E x \in T : \A y \in T : <<y, x>> \notin R
  BY <1>1, WFMin
<1>2. PICK x \in T : \A y \in T : <<y, x>> \notin R
  BY <1>5
<1>3. \A u, v \in Nat : v < u => <<v, u>> \in R
  BY DEF R
<1>4. \A y \in T : ~(y < x)
  BY <1>2, <1>3
<1>6. \A y \in T : x <= y
  BY <1>4
<1> QED BY <1>6

IsDivision(a, n, q, r) == q \in Nat /\ r \in 0 .. n - 1 /\ a = q * n + r

LEMMA Euclid ==
  ASSUME NEW n \in Nat \ {0}, NEW a \in Nat
  PROVE  IsDivision(a, n, a \div n, a % n)
<1>1. a \div n \in Nat /\ a % n \in 0 .. n - 1 /\ a = (a \div n) * n + (a % n)
  OBVIOUS
<1> QED BY <1>1 DEF IsDivision

LEMMA ModBelow ==
  ASSUME NEW n \in Nat, n > 0, NEW a \in -n .. -1
  PROVE  a % n = a + n
  OBVIOUS

LEMMA Product ==
  ASSUME NEW i \in Int, NEW n \in Nat, NEW j \in Int, i < j
  PROVE  i * n \in Int /\ j * n \in Int /\ i * n + n <= j * n
<1>1. (j - i - 1) \in Nat /\ j = i + 1 + (j - i - 1)
  OBVIOUS
<1>2. ASSUME NEW d \in Nat PROVE d * n >= 0
  OBVIOUS
<1>3. (j - i - 1) * n >= 0
  BY <1>1, <1>2
<1>4. (j - i - 1) * n = j * n - i * n - n
  OBVIOUS
<1>5. i * n \in Int /\ j * n \in Int
  OBVIOUS
<1> QED
  BY <1>3, <1>4, <1>5

\* The quotient is the only one with a remainder below n.
LEMMA Quotient ==
  ASSUME NEW n \in Nat \ {0}, NEW a \in Nat, NEW q, NEW r, IsDivision(a, n, q, r)
  PROVE  a \div n = q /\ a % n = r
<1> DEFINE d == a \div n
           m == a % n
<1>1. q \in Nat /\ r \in 0 .. n - 1 /\ a = q * n + r /\ q * n \in Int
  BY DEF IsDivision
<1>2. d \in Int /\ m \in 0 .. n - 1 /\ a = d * n + m
  <2>1. IsDivision(a, n, d, m)
    BY Euclid
  <2> HIDE DEF d, m
  <2> QED BY <2>1 DEF IsDivision
<1> HIDE DEF d, m
<1>3. ~(d < q)
  <2> SUFFICES ASSUME d < q PROVE FALSE
    OBVIOUS
  <2>1. d * n + n <= q * n /\ d * n \in Int
    BY <1>1, <1>2, Product
  <2> QED BY <2>1, <1>1, <1>2
<1>4. ~(q < d)
  <2> SUFFICES ASSUME q < d PROVE FALSE
    OBVIOUS
  <2>1. q * n + n <= d * n /\ d * n \in Int
    BY <1>1, <1>2, Product
  <2> QED BY <2>1, <1>1, <1>2
<1>5. d = q
  BY <1>1, <1>2, <1>3, <1>4
<1>6. m = r
  BY <1>1, <1>2, <1>5
<1>7. a \div n = q /\ a % n = r
  BY <1>5, <1>6, Zenon DEF d, m
<1> QED BY <1>7

\* Division keeps the order.
LEMMA DivOrder ==
  ASSUME NEW n \in Nat \ {0}, NEW a \in Nat, NEW b \in Nat, a <= b
  PROVE  a \div n <= b \div n
<1> DEFINE p == a \div n
           q == b \div n
           r == a % n
           m == b % n
<1>4. IsDivision(a, n, p, r)
  BY Euclid
<1>5. IsDivision(b, n, q, m)
  BY Euclid
<1> HIDE DEF p, q, r, m
<1>1. p \in Int /\ q \in Int /\ r \in 0 .. n - 1 /\ m \in 0 .. n - 1
      /\ a = p * n + r /\ b = q * n + m
  BY <1>4, <1>5 DEF IsDivision
<1>2. ~(q < p)
  <2> SUFFICES ASSUME q < p PROVE FALSE
    OBVIOUS
  <2>1. q * n + n <= p * n /\ q * n \in Int /\ p * n \in Int
    BY <1>1, Product
  <2> QED BY <2>1, <1>1
<1>3. p <= q
  BY <1>1, <1>2
<1> QED BY <1>3 DEF p, q

\* A remainder is taken again, or of a sum, without a change.
LEMMA ModTwice ==
  ASSUME NEW n \in Nat \ {0}, NEW a \in Nat, NEW b \in Nat
  PROVE  ((a % n) + b) % n = (a + b) % n
<1> DEFINE p == a \div n
           r == a % n
           q == (r + b) \div n
           m == (r + b) % n
<1>1. IsDivision(a, n, p, r)
  BY Euclid
<1>2. r + b \in Nat
  BY <1>1 DEF IsDivision
<1>3. IsDivision(r + b, n, q, m)
  BY <1>2, Euclid
<1> HIDE DEF p, q, r, m
<1>4. p \in Nat /\ q \in Nat /\ r \in Nat /\ m \in 0 .. n - 1
      /\ a = p * n + r /\ r + b = q * n + m
  BY <1>1, <1>3 DEF IsDivision
<1>5. (p + q) * n = p * n + q * n
  <2>1. \A i, j \in Int : (i + j) * n = i * n + j * n
    OBVIOUS
  <2> QED BY <1>4, <2>1
<1>6. a + b = (p + q) * n + m
  BY <1>4, <1>5
<1>7. a + b \in Nat /\ IsDivision(a + b, n, p + q, m)
  BY <1>4, <1>6 DEF IsDivision
<1>8. (a + b) % n = m
  BY <1>7, Quotient
<1> QED BY <1>8, Zenon DEF m, r

LEMMA ModSmall ==
  ASSUME NEW n \in Nat \ {0}, NEW a \in 0 .. n - 1
  PROVE  a % n = a
<1>1. a \in Nat /\ IsDivision(a, n, 0, a)
  BY DEF IsDivision
<1> QED BY <1>1, Quotient

LEMMA OffsetChar ==
  ASSUME NEW b \in Nat, NEW k \in Nat
  PROVE  Offset(b, k) \in Char
<1>1. b + k \in Nat
  OBVIOUS
<1>2. (b + k) % ADDRESSES \in 0 .. ADDRESSES - 1
  <2>1. ADDRESSES \in Nat \ {0}
    BY Sizes
  <2>2. IsDivision(b + k, ADDRESSES, (b + k) \div ADDRESSES, (b + k) % ADDRESSES)
    BY <1>1, <2>1, Euclid
  <2> QED BY <2>2 DEF IsDivision
<1> QED BY <1>2 DEF Offset, Char

LEMMA PageNat ==
  ASSUME NEW b \in Nat
  PROVE  Page(b) \in Nat
<1>1. PAGE_SIZE \in Nat \ {0}
  BY Sizes
<1>2. IsDivision(b, PAGE_SIZE, b \div PAGE_SIZE, b % PAGE_SIZE)
  BY <1>1, Euclid
<1> QED BY <1>2 DEF IsDivision, Page

LEMMA OffsetTwice ==
  ASSUME NEW b \in Nat, NEW j \in Nat, NEW k \in Nat
  PROVE  Offset(Offset(b, j), k) = Offset(b, j + k)
<1>1. (((b + j) % ADDRESSES) + k) % ADDRESSES = ((b + j) + k) % ADDRESSES
  <2>1. b + j \in Nat /\ ADDRESSES \in Nat \ {0}
    BY Sizes
  <2> QED BY <2>1, ModTwice
<1>2. (b + j) + k = b + (j + k)
  OBVIOUS
<1> QED BY <1>1, <1>2 DEF Offset

LEMMA OffsetNone ==
  ASSUME NEW b \in Char
  PROVE  Offset(b, 0) = b
<1>1. b + 0 = b /\ b \in 0 .. ADDRESSES - 1
  BY Sizes DEF Char
<1> QED BY <1>1, Sizes, ModSmall DEF Offset

(* A block that access_ok lets through lies in user pages and the one page
   behind the data.  A block that reached over the end of the address space
   would end in a page below the one it begins in: it is at least a page
   shorter than the address space. *)
LEMMA AccessInUserPages ==
  ASSUME NEW type, NEW addr \in Char, NEW size \in Nat,
         size <= ADDRESSES - PAGE_SIZE, access_ok(type, addr, size),
         NEW k \in 0 .. size
  PROVE  Offset(addr, k) \in UserByte
<1>1. /\ Page(addr) <= Page(Offset(addr, size))
      /\ USER_FIRST_PAGE <= Page(addr) /\ Page(Offset(addr, size)) <= EndOfData
  <2>1. USER_FIRST_PAGE <= Page(addr) \/ USER_FIRST_PAGE + NUM_PAG_CODE <= Page(addr)
    BY DEF access_ok
  <2>2. Page(addr) \in Nat
    BY Sizes, PageNat DEF Char
  <2>3. USER_FIRST_PAGE <= Page(addr)
    BY <2>1, <2>2, AccessAssumption
  <2> QED BY <2>3 DEF access_ok
<1>2. addr + size < ADDRESSES
  <2> SUFFICES ASSUME addr + size >= ADDRESSES PROVE FALSE
    BY Sizes DEF Char
  <2> DEFINE r == addr + size - ADDRESSES
  <2>1. r \in 0 .. ADDRESSES - 1 /\ r + PAGE_SIZE <= addr /\ addr + size = 1 * ADDRESSES + r
    BY Sizes DEF Char
  <2> HIDE DEF r
  <2>2. addr + size \in Nat /\ 1 \in Nat /\ ADDRESSES \in Nat \ {0}
    BY Sizes DEF Char
  <2>3. Offset(addr, size) = r
    <3>1. IsDivision(addr + size, ADDRESSES, 1, r)
      BY <2>1 DEF IsDivision
    <3> QED BY <2>2, <3>1, Quotient DEF Offset
  <2>4. r + PAGE_SIZE \in Nat /\ addr \in Nat
    BY <2>1, Sizes DEF Char
  <2>5. (r + PAGE_SIZE) \div PAGE_SIZE <= addr \div PAGE_SIZE
    BY <2>1, <2>4, Sizes, DivOrder
  <2> DEFINE q == r \div PAGE_SIZE
             m == r % PAGE_SIZE
  <2>6. q \in Nat /\ m \in 0 .. PAGE_SIZE - 1 /\ r = q * PAGE_SIZE + m
    <3>1. r \in Nat /\ PAGE_SIZE \in Nat \ {0}
      BY <2>1, Sizes
    <3>2. IsDivision(r, PAGE_SIZE, q, m)
      BY <3>1, Euclid
    <3> HIDE DEF q, m
    <3> QED BY <3>2 DEF IsDivision
  <2> HIDE DEF q, m
  <2>7. q * PAGE_SIZE \in Nat /\ (q + 1) * PAGE_SIZE = q * PAGE_SIZE + PAGE_SIZE
    BY <2>6, Sizes
  <2>8. r + PAGE_SIZE = (q + 1) * PAGE_SIZE + m
    BY <2>6, <2>7, Sizes
  <2>9. (r + PAGE_SIZE) \div PAGE_SIZE = q + 1
    <3>1. q + 1 \in Nat /\ PAGE_SIZE \in Nat \ {0}
      BY <2>6, Sizes
    <3>2. IsDivision(r + PAGE_SIZE, PAGE_SIZE, q + 1, m)
      BY <3>1, <2>6, <2>8 DEF IsDivision
    <3> QED BY <3>1, <3>2, <2>4, Quotient
  <2>10. q + 1 <= addr \div PAGE_SIZE
    BY <2>5, <2>9
  <2>11. Page(Offset(addr, size)) = q /\ Page(addr) = addr \div PAGE_SIZE
    BY <2>3 DEF q, Page
  <2>12. addr \div PAGE_SIZE \in Nat
    BY <2>4, PageNat DEF Page
  <2> QED BY <1>1, <2>6, <2>10, <2>11, <2>12
<1>3. addr \in Nat /\ addr + k \in 0 .. ADDRESSES - 1 /\ addr + size \in 0 .. ADDRESSES - 1
  BY <1>2, Sizes DEF Char
<1>4. Offset(addr, k) = addr + k /\ Offset(addr, size) = addr + size
  BY <1>3, Sizes, ModSmall DEF Offset
<1>5. Page(addr) <= Page(addr + k) /\ Page(addr + k) <= Page(addr + size)
  <2>1. addr \div PAGE_SIZE <= (addr + k) \div PAGE_SIZE
    BY <1>3, Sizes, DivOrder
  <2>2. (addr + k) \div PAGE_SIZE <= (addr + size) \div PAGE_SIZE
    BY <1>3, Sizes, DivOrder
  <2> QED BY <2>1, <2>2 DEF Page
<1>6. Page(addr) \in Nat /\ Page(addr + k) \in Nat /\ Page(addr + size) \in Nat
  <2>1. addr + k \in Nat /\ addr + size \in Nat
    BY <1>3
  <2> QED BY <1>3, <2>1, PageNat
<1>7. Page(addr + k) \in USER_FIRST_PAGE .. EndOfData
  BY <1>1, <1>4, <1>5, <1>6, Sizes
<1> QED BY <1>3, <1>4, <1>7 DEF UserByte, Char
-----------------------------------------------------------------------------
LEMMA FormatWord ==
  ASSUME NEW c \in UserByte \cup {Blank, Text, Digit}, NEW fg \in Int, NEW bg \in Int,
         NEW blnk \in Int
  PROVE  screen_matrix_format(c, fg, bg, blnk) \in Word
<1>1. \A a, b \in Int : or_low(a, b) \in 0 .. 7
  BY DEF or_low, or_bit
<1>2. fg \div 16 \in Int /\ fg % 16 \in 0 .. 15 /\ blnk % 2 \in {0, 1}
  OBVIOUS
<1>3. color_bits(fg, bg).fg \in 0 .. 15 /\ color_bits(fg, bg).bg \in 0 .. 7
  BY <1>1, <1>2 DEF color_bits
<1> QED BY <1>2, <1>3 DEF screen_matrix_format, Word

LEMMA ZeroIsWord == ZeroWord \in Word
<1>1. Blank \in UserByte \cup {Blank, Text, Digit} /\ 0 \in Int
  OBVIOUS
<1> QED BY <1>1, FormatWord DEF ZeroWord

\* A row that is entered is on the screen, even from below it.
LEMMA NextRow ==
  ASSUME NEW y \in 0 .. NUM_ROWS
  PROVE  /\ (y + 1) % NUM_ROWS \in 0 .. NUM_ROWS - 1
         /\ y < NUM_ROWS => (y + 1) % NUM_ROWS = IF y + 1 = NUM_ROWS THEN 0 ELSE y + 1
<1>1. NUM_ROWS \in Nat \ {0} /\ y + 1 \in Nat
  BY Sizes
<1>2. IsDivision(y + 1, NUM_ROWS, (y + 1) \div NUM_ROWS, (y + 1) % NUM_ROWS)
  BY <1>1, Euclid
<1>3. CASE y + 1 < NUM_ROWS
  BY <1>1, <1>2, <1>3, ModSmall DEF IsDivision
<1>4. CASE y + 1 = NUM_ROWS
  <2>1. IsDivision(y + 1, NUM_ROWS, 1, 0)
    BY <1>1, <1>4 DEF IsDivision
  <2> QED BY <2>1, <1>1, <1>2, <1>4, Quotient DEF IsDivision
<1> QED BY <1>1, <1>2, <1>3, <1>4 DEF IsDivision

LEMMA RowsFit ==
  ASSUME NEW y \in 0 .. NUM_ROWS
  PROVE  /\ y * NUM_COLUMNS \in Nat /\ Size \in Nat /\ Size > 0
         /\ y * NUM_COLUMNS <= Size
         /\ y < NUM_ROWS => y * NUM_COLUMNS + NUM_COLUMNS <= Size
         /\ (y + 1) * NUM_COLUMNS = y * NUM_COLUMNS + NUM_COLUMNS
         /\ y + 1 = NUM_ROWS => y * NUM_COLUMNS + NUM_COLUMNS = Size
<1>1. y \in Int /\ NUM_ROWS \in Int /\ y * NUM_COLUMNS \in Nat /\ Size \in Nat
  BY Sizes DEF Size
<1>2. y < NUM_ROWS => y * NUM_COLUMNS + NUM_COLUMNS <= Size
  BY <1>1, Sizes, Product DEF Size
<1>3. y = NUM_ROWS => y * NUM_COLUMNS = Size
  BY DEF Size
<1>4. (y + 1) * NUM_COLUMNS = y * NUM_COLUMNS + NUM_COLUMNS
  BY Sizes
<1>5. y + 1 = NUM_ROWS => y * NUM_COLUMNS + NUM_COLUMNS = Size
  BY <1>4, Zenon DEF Size
<1>6. Size > 0
  <2>1. 0 * NUM_COLUMNS + NUM_COLUMNS <= Size
    BY Sizes, Product DEF Size
  <2> QED BY <1>1, <2>1, Sizes
<1> QED BY <1>1, <1>2, <1>3, <1>4, <1>5, <1>6, Sizes

\* Screen t, after word w has been put at the cursor for character c, is u.
IsPut(t, c, w, u) ==
  LET isNewline == c \in Newlines \cup {Newline}
  IN  /\ Cursor(t) \in Cell
      /\ u \in Screen
      /\ u.screen = IF isNewline THEN t.screen ELSE [t.screen EXCEPT ![Cursor(t)] = w]
      /\ ~isNewline /\ t.x + 1 < NUM_COLUMNS => u.x = t.x + 1 /\ u.y = t.y
      /\ isNewline \/ t.x + 1 >= NUM_COLUMNS
           => u.x = 0 /\ u.y = (t.y + 1) % NUM_ROWS

LEMMA PutFields ==
  ASSUME NEW t \in Screen, NEW c \in UserByte \cup {Text, Newline},
         NEW fg \in Int, NEW bg \in Int
  PROVE  IsPut(t, c, screen_matrix_format(c, fg, bg, 0), print_color(t, c, fg, bg, 0))
<1> DEFINE w == screen_matrix_format(c, fg, bg, 0)
           isNewline == c \in Newlines \cup {Newline}
           u == print_color(t, c, fg, bg, 0)
           row == (t.y + 1) % NUM_ROWS
           scr == [t.screen EXCEPT ![Cursor(t)] = w]
<1>1. t.x \in 0 .. NUM_COLUMNS /\ t.y \in 0 .. NUM_ROWS /\ t.screen \in [Cell -> Word]
      /\ t = [screen |-> t.screen, x |-> t.x, y |-> t.y]
  BY DEF Screen
<1>2. Cursor(t) \in Cell
  <2>1. t.y * NUM_COLUMNS \in Nat /\ Size \in Nat /\ t.y * NUM_COLUMNS <= Size
    BY <1>1, RowsFit
  <2>2. Cell = 0 .. Size + NUM_COLUMNS
    BY Zenon DEF Cell, Size
  <2>3. t.y * NUM_COLUMNS + t.x \in 0 .. Size + NUM_COLUMNS
    BY <2>1, <1>1, Sizes
  <2> QED BY <2>2, <2>3, Zenon DEF Cursor
<1>3. row \in 0 .. NUM_ROWS /\ 0 \in 0 .. NUM_COLUMNS
  BY <1>1, NextRow, Sizes
<1>4. CASE isNewline
  <2>1. u = [t EXCEPT !.x = 0, !.y = row]
    BY <1>4 DEF print_color, new_line
  <2> HIDE DEF u, row
  <2>2. u = [screen |-> t.screen, x |-> 0, y |-> row]
    BY <2>1, <1>1
  <2>3. u \in Screen
    BY <2>2, <1>1, <1>3 DEF Screen
  <2>4. IsPut(t, c, w, u)
    <3> HIDE DEF w
    <3> QED BY <2>2, <2>3, <1>2, <1>4 DEF IsPut, row
  <2> QED BY <2>4 DEF u, w
<1>5. CASE ~isNewline
  <2>0. c \in UserByte \cup {Blank, Text, Digit} /\ 0 \in Int
    BY <1>5
  <2>1. w \in Word /\ scr \in [Cell -> Word]
    BY <2>0, <1>1, FormatWord
  <2>2. [t EXCEPT !.screen[t.y * NUM_COLUMNS + t.x] = w]
          = [screen |-> scr, x |-> t.x, y |-> t.y]
    <3> HIDE DEF w
    <3> QED BY <1>1 DEF Cursor
  <2>3. u = IF t.x + 1 >= NUM_COLUMNS
              THEN new_line([screen |-> scr, x |-> t.x, y |-> t.y])
              ELSE [[screen |-> scr, x |-> t.x, y |-> t.y] EXCEPT !.x = @ + 1]
    BY <1>5, <2>2, Zenon DEF print_color
  <2> HIDE DEF u, scr, w
  <2>4. u = IF t.x + 1 >= NUM_COLUMNS
              THEN [screen |-> scr, x |-> 0, y |-> row]
              ELSE [screen |-> scr, x |-> t.x + 1, y |-> t.y]
    <3>1. new_line([screen |-> scr, x |-> t.x, y |-> t.y]) = [screen |-> scr, x |-> 0, y |-> row]
      <4> DEFINE r == [screen |-> scr, x |-> t.x, y |-> t.y]
      <4>1. r.screen = scr /\ r.y = t.y
        OBVIOUS
      <4>2. new_line(r) = [r EXCEPT !.x = 0, !.y = row]
        BY <4>1 DEF new_line, row
      <4> QED BY <4>2
    <3>2. [[screen |-> scr, x |-> t.x, y |-> t.y] EXCEPT !.x = @ + 1]
            = [screen |-> scr, x |-> t.x + 1, y |-> t.y]
      OBVIOUS
    <3> QED BY <2>3, <3>1, <3>2, Zenon
  <2> HIDE DEF row
  <2>5. t.x + 1 < NUM_COLUMNS => t.x + 1 \in 0 .. NUM_COLUMNS
    BY <1>1, Sizes
  <2>6. t.x + 1 < NUM_COLUMNS <=> ~(t.x + 1 >= NUM_COLUMNS)
    BY <1>1, Sizes
  <2>7. u \in Screen
    BY <2>1, <2>4, <2>5, <2>6, <1>1, <1>3 DEF Screen
  <2>8. u.screen = scr
    BY <2>4
  <2>9. t.x + 1 < NUM_COLUMNS => u.x = t.x + 1 /\ u.y = t.y
    BY <2>4, <2>6
  <2>10. t.x + 1 >= NUM_COLUMNS => u.x = 0 /\ u.y = row
    BY <2>4
  <2>11. IsPut(t, c, w, u)
    BY <1>2, <1>5, <2>7, <2>8, <2>9, <2>10 DEF IsPut, scr, row
  <2> QED BY <2>11 DEF u, w
<1> QED BY <1>4, <1>5
-----------------------------------------------------------------------------
\* The screen is a ring of cells: m cells back from cell a.
LEMMA CellBack ==
  ASSUME NEW a \in 0 .. Size - 1, NEW m \in 1 .. Size
  PROVE  (a - m) % Size = IF a >= m THEN a - m ELSE a - m + Size
<1>1. Size \in Nat \ {0}
  BY RowsFit, Sizes
<1>2. CASE a >= m
  <2>1. a - m \in 0 .. Size - 1
    BY <1>1, <1>2
  <2> QED BY <2>1, <1>1, <1>2, ModSmall
<1>3. CASE ~(a >= m)
  <2>1. a - m \in -Size .. -1
    BY <1>1, <1>3
  <2> QED BY <2>1, <1>1, <1>3, ModBelow
<1> QED BY <1>2, <1>3

\* A cursor on the screen stays there, and a character moves it one cell on.
LEMMA PutInside ==
  ASSUME NEW t \in Screen, NEW c \in UserByte \cup {Text, Newline},
         NEW fg \in Int, NEW bg \in Int, ~Outside(t)
  PROVE  LET u == print_color(t, c, fg, bg, 0)
         IN  /\ ~Outside(u) /\ Cursor(t) \in 0 .. Size - 1
             /\ c \notin Newlines \cup {Newline} =>
                  Cursor(u) = IF Cursor(t) + 1 = Size THEN 0 ELSE Cursor(t) + 1
<1> DEFINE u == print_color(t, c, fg, bg, 0)
           isNewline == c \in Newlines \cup {Newline}
<1>1. /\ u \in Screen
      /\ ~isNewline /\ t.x + 1 < NUM_COLUMNS => u.x = t.x + 1 /\ u.y = t.y
      /\ isNewline \/ t.x + 1 >= NUM_COLUMNS => u.x = 0 /\ u.y = (t.y + 1) % NUM_ROWS
  <2>1. IsPut(t, c, screen_matrix_format(c, fg, bg, 0), u)
    BY PutFields
  <2> HIDE DEF u
  <2> QED BY <2>1 DEF IsPut
<1> HIDE DEF u
<1>2. /\ t.x \in 0 .. NUM_COLUMNS - 1 /\ t.y \in 0 .. NUM_ROWS - 1
      /\ t.x < NUM_COLUMNS /\ t.y < NUM_ROWS
  BY Sizes DEF Outside, Screen
<1>3. /\ (t.y + 1) % NUM_ROWS \in 0 .. NUM_ROWS - 1
      /\ (t.y + 1) % NUM_ROWS = IF t.y + 1 = NUM_ROWS THEN 0 ELSE t.y + 1
  <2>1. t.y \in 0 .. NUM_ROWS
    BY <1>2, Sizes
  <2> QED BY <2>1, <1>2, NextRow
<1>4. u.x \in 0 .. NUM_COLUMNS - 1 /\ u.y \in 0 .. NUM_ROWS - 1
  BY <1>1, <1>2, <1>3, Sizes
<1>5. ~Outside(u)
  BY <1>4, Sizes DEF Outside
<1> DEFINE y == t.y
           p == y * NUM_COLUMNS
<1>6. /\ p \in Nat /\ Size \in Nat /\ p + NUM_COLUMNS <= Size
      /\ (y + 1) * NUM_COLUMNS = p + NUM_COLUMNS
      /\ y + 1 = NUM_ROWS => p + NUM_COLUMNS = Size
  <2>1. y \in 0 .. NUM_ROWS /\ y < NUM_ROWS
    BY <1>2, Sizes
  <2> QED BY <2>1, RowsFit
<1>7. y + 1 # NUM_ROWS => p + NUM_COLUMNS + NUM_COLUMNS <= Size
  <2>1. y + 1 # NUM_ROWS => y + 1 \in 0 .. NUM_ROWS /\ y + 1 < NUM_ROWS
    BY <1>2, Sizes
  <2>2. y + 1 # NUM_ROWS => (y + 1) * NUM_COLUMNS + NUM_COLUMNS <= Size
    BY <2>1, RowsFit
  <2> HIDE DEF p
  <2> QED BY <2>2, <1>6
<1>8. Cursor(t) = p + t.x
  BY DEF Cursor
<1>9. Cursor(t) \in 0 .. Size - 1
  <2> HIDE DEF p
  <2> QED BY <1>2, <1>6, <1>8, Sizes
<1>10. ASSUME ~isNewline, t.x + 1 < NUM_COLUMNS
       PROVE  Cursor(u) = Cursor(t) + 1 /\ Cursor(t) + 1 # Size
  <2>1. Cursor(u) = p + u.x /\ u.x = t.x + 1
    BY <1>1, <1>10 DEF Cursor
  <2> HIDE DEF p
  <2> QED BY <2>1, <1>2, <1>6, <1>8, <1>10, Sizes
<1>11. ASSUME ~isNewline, ~(t.x + 1 < NUM_COLUMNS)
       PROVE  Cursor(u) = IF Cursor(t) + 1 = Size THEN 0 ELSE Cursor(t) + 1
  <2>1. t.x + 1 = NUM_COLUMNS
    BY <1>2, <1>11, Sizes
  <2>2. u.x = 0 /\ u.y = IF y + 1 = NUM_ROWS THEN 0 ELSE y + 1
    BY <1>1, <1>3, <1>11, <2>1, Sizes
  <2>3. CASE y + 1 = NUM_ROWS
    <3>1. Cursor(u) = 0 * NUM_COLUMNS + 0
      BY <2>2, <2>3 DEF Cursor
    <3> HIDE DEF p
    <3> QED BY <3>1, <2>1, <2>3, <1>2, <1>6, <1>8, Sizes
  <2>4. CASE y + 1 # NUM_ROWS
    <3>1. Cursor(u) = (y + 1) * NUM_COLUMNS + 0
      BY <2>2, <2>4 DEF Cursor
    <3> HIDE DEF p
    <3>2. Cursor(u) = p + NUM_COLUMNS
      BY <3>1, <1>6, Sizes
    <3> QED BY <3>2, <2>1, <2>4, <1>2, <1>6, <1>7, <1>8, Sizes
  <2> QED BY <2>3, <2>4
<1> QED BY <1>5, <1>9, <1>10, <1>11 DEF u

\* The character is put into the cell where the cursor was.
LEMMA PutPlaced ==
  ASSUME NEW t \in Screen, NEW text \in Seq(UserByte), NEW n \in 0 .. Len(text) - 1,
         ~Outside(t), Placed(t, text, n), NEW fg \in Int, NEW bg \in Int
  PROVE  Placed(print_color(t, text[n + 1], fg, bg, 0), text, n + 1)
<1> DEFINE c == text[n + 1]
           u == print_color(t, c, fg, bg, 0)
           w == screen_matrix_format(c, fg, bg, 0)
           a == Cursor(t)
           b == Cursor(u)
<1>1. c \in UserByte /\ c # Newline /\ n \in Nat
  <2>1. Len(text) \in Nat /\ n + 1 \in 1 .. Len(text)
    OBVIOUS
  <2>2. c \in UserByte
    BY <2>1, ElementOfSeq
  <2> HIDE DEF c
  <2> QED BY <2>2 DEF UserByte, Char, Newline
<1> SUFFICES ASSUME NEW m \in 1 .. n + 1, m <= Size,
                    \A k \in 0 .. m - 1 : text[n + 1 - k] \notin Newlines
             PROVE  \/ (b - m) % Size \in ClockCells
                    \/ u.screen[(b - m) % Size].char = text[n + 1 - m + 1]
  BY DEF Placed
<1>2. c \notin Newlines \cup {Newline}
  <2>1. 0 \in 0 .. m - 1 /\ n + 1 - 0 = n + 1
    BY <1>1
  <2> QED BY <2>1, <1>1
<1> HIDE DEF c
<1>3. u.screen = [t.screen EXCEPT ![a] = w] /\ a \in Cell /\ t.screen \in [Cell -> Word]
  <2>1. t.screen \in [Cell -> Word]
    BY DEF Screen
  <2>2. c \in UserByte \cup {Text, Newline}
    BY <1>1
  <2>3. IsPut(t, c, w, u)
    BY <2>2, PutFields DEF c
  <2> HIDE DEF w, u
  <2> QED BY <2>1, <2>3, <1>2 DEF IsPut
<1>4. a \in 0 .. Size - 1 /\ b = IF a + 1 = Size THEN 0 ELSE a + 1
  BY <1>1, <1>2, PutInside
<1>5. Size \in Nat /\ Size > 0
  BY RowsFit, Sizes
<1> HIDE DEF u, w, a, b
<1>6. b \in 0 .. Size - 1
  BY <1>4, <1>5
<1>7. m \in 1 .. Size
  BY <1>1, <1>5
<1>8. CASE m = 1
  <2>1. (b - 1) % Size = IF b >= 1 THEN b - 1 ELSE b - 1 + Size
    BY <1>6, <1>7, <1>8, CellBack
  <2>2. (b - 1) % Size = a
    BY <2>1, <1>4, <1>5
  <2>3. w.char = c
    BY DEF w, screen_matrix_format
  <2>4. u.screen[a].char = c
    BY <1>3, <2>3
  <2>5. n + 1 - m + 1 = n + 1
    BY <1>1, <1>8
  <2> QED BY <2>2, <2>4, <2>5, <1>8 DEF c
<1>9. CASE m # 1
  <2> DEFINE j == m - 1
             d == (a - j) % Size
  <2>1. j \in 1 .. n /\ j \in 1 .. Size - 1 /\ j <= Size /\ j \in 1 .. Size
    BY <1>1, <1>5, <1>7, <1>9
  <2>2. \A k \in 0 .. j - 1 : text[n - k] \notin Newlines
    <3> SUFFICES ASSUME NEW k \in 0 .. j - 1 PROVE text[n - k] \notin Newlines
      OBVIOUS
    <3>1. k + 1 \in 0 .. m - 1 /\ n + 1 - (k + 1) = n - k
      BY <1>1, <2>1
    <3> QED BY <3>1
  <2>3. d \in ClockCells \/ t.screen[d].char = text[n - j + 1]
    <3> HIDE DEF j
    <3> QED BY <2>1, <2>2 DEF Placed, a
  <2>4. d = IF a >= j THEN a - j ELSE a - j + Size
    <3> HIDE DEF j
    <3> QED BY <2>1, <1>4, CellBack
  <2>5. (b - m) % Size = IF b >= m THEN b - m ELSE b - m + Size
    BY <1>6, <1>7, CellBack
  <2> HIDE DEF d
  <2>6. (b - m) % Size = d /\ d # a
    BY <2>1, <2>4, <2>5, <1>4, <1>5, <1>7
  <2>7. d \in 0 .. Size - 1
    BY <2>1, <2>4, <1>4, <1>5
  <2>8. d \in Cell
    BY <2>7, <1>5, Sizes DEF Cell, Size
  <2>9. u.screen[d] = t.screen[d]
    BY <2>6, <2>8, <1>3
  <2>10. n - j + 1 = n + 1 - m + 1
    BY <1>1
  <2> QED BY <2>3, <2>6, <2>9, <2>10
<1> QED BY <1>8, <1>9
-----------------------------------------------------------------------------
\* f[k] is screen t after the first k characters of string; up to n of them.
IsRun(f, n, t, string, fg, bg) ==
  f = [k \in 0 .. n |-> IF k = 0 THEN t ELSE print_color(f[k - 1], string[k], fg, bg, 0)]

LEMMA RunExists ==
  ASSUME NEW t, NEW string, NEW fg, NEW bg, NEW n \in Nat
  PROVE  \E f : IsRun(f, n, t, string, fg, bg)
<1> DEFINE Has(m) == \E f : IsRun(f, m, t, string, fg, bg)
           T == {m \in Nat : ~Has(m)}
<1> SUFFICES ASSUME ~Has(n) PROVE FALSE
  OBVIOUS
<1>1. T \in SUBSET Nat /\ T # {}
  OBVIOUS
<1>2. PICK x \in T : \A y \in T : x <= y
  <2> HIDE DEF T
  <2> QED BY <1>1, Least
<1>3. x \in Nat /\ ~Has(x)
  BY <1>2
<1>4. Has(0)
  <2> DEFINE f == [k \in 0 .. 0 |-> t]
  <2>1. f = [k \in 0 .. 0 |-> IF k = 0 THEN t ELSE print_color(f[k - 1], string[k], fg, bg, 0)]
    OBVIOUS
  <2> HIDE DEF f
  <2>2. IsRun(f, 0, t, string, fg, bg)
    BY <2>1 DEF IsRun
  <2> QED BY <2>2
<1> HIDE DEF Has
<1>5. x - 1 \in Nat /\ Has(x - 1)
  <2>1. x # 0
    BY <1>3, <1>4
  <2>2. x - 1 \in Nat /\ ~(x <= x - 1)
    BY <1>3, <2>1
  <2>3. x - 1 \notin T
    BY <1>2, <2>2
  <2> QED BY <2>2, <2>3
<1>6. PICK f : IsRun(f, x - 1, t, string, fg, bg)
  BY <1>5 DEF Has
<1> DEFINE g == [k \in 0 .. x |-> IF k = x THEN print_color(f[x - 1], string[x], fg, bg, 0)
                                         ELSE f[k]]
<1>7. ASSUME NEW k \in 0 .. x
      PROVE  g[k] = IF k = 0 THEN t ELSE print_color(g[k - 1], string[k], fg, bg, 0)
  <2>1. CASE k = x
    <3>1. g[k] = print_color(f[x - 1], string[x], fg, bg, 0) /\ g[k - 1] = f[x - 1]
      BY <1>3, <1>5, <2>1
    <3> HIDE DEF g
    <3> QED BY <3>1, <2>1, <1>5
  <2>2. CASE k # x
    <3>1. k \in 0 .. x - 1 /\ (k # 0 => k - 1 \in 0 .. x - 1 /\ k - 1 # x /\ k - 1 \in 0 .. x)
      BY <1>3, <2>2
    <3>2. f[k] = IF k = 0 THEN t ELSE print_color(f[k - 1], string[k], fg, bg, 0)
      BY <1>6, <3>1 DEF IsRun
    <3>3. g[k] = f[k] /\ (k # 0 => g[k - 1] = f[k - 1])
      BY <2>2, <3>1
    <3> HIDE DEF g
    <3> QED BY <3>2, <3>3
  <2> QED BY <2>1, <2>2
<1>8. g = [k \in 0 .. x |-> g[k]]
  OBVIOUS
<1> HIDE DEF g
<1>9. IsRun(g, x, t, string, fg, bg)
  BY <1>7, <1>8 DEF IsRun
<1> QED BY <1>3, <1>9 DEF Has

LEMMA RunStep ==
  ASSUME NEW f, NEW t, NEW string, NEW fg, NEW bg, NEW n \in Nat,
         IsRun(f, n, t, string, fg, bg)
  PROVE  /\ f[0] = t
         /\ \A k \in 1 .. n : f[k] = print_color(f[k - 1], string[k], fg, bg, 0)
<1>1. 0 \in 0 .. n
  OBVIOUS
<1>2. f[0] = t
  BY <1>1 DEF IsRun
<1>3. ASSUME NEW k \in 1 .. n PROVE f[k] = print_color(f[k - 1], string[k], fg, bg, 0)
  <2>1. k \in 0 .. n /\ k # 0
    OBVIOUS
  <2> QED BY <2>1 DEF IsRun
<1> QED BY <1>2, <1>3

(* Every character of a string keeps the screen's shape, and the cursor on the
   screen if it is there when the string begins. *)
LEMMA RunInside ==
  ASSUME NEW t \in Screen, NEW string \in Seq(UserByte \cup {Text, Newline}),
         NEW fg \in Int, NEW bg \in Int, NEW f, IsRun(f, Len(string), t, string, fg, bg),
         NEW k \in 0 .. Len(string)
  PROVE  f[k] \in Screen /\ (~Outside(t) => ~Outside(f[k]))
<1> DEFINE Good(i) == f[i] \in Screen /\ (~Outside(t) => ~Outside(f[i]))
           n == Len(string)
           T == {i \in 0 .. n : ~Good(i)}
<1>0. n \in Nat
  OBVIOUS
<1>1. f[0] = t /\ \A i \in 1 .. n : f[i] = print_color(f[i - 1], string[i], fg, bg, 0)
  BY <1>0, RunStep
<1> SUFFICES ASSUME ~Good(k) PROVE FALSE
  OBVIOUS
<1>2. T \in SUBSET Nat /\ T # {}
  OBVIOUS
<1>3. PICK x \in T : \A y \in T : x <= y
  <2> HIDE DEF T
  <2> QED BY <1>2, Least
<1>4. x \in 0 .. n /\ ~Good(x)
  BY <1>3
<1>5. x # 0
  BY <1>1, <1>4
<1> HIDE DEF Good
<1>6. x \in 1 .. n /\ x - 1 \in 0 .. n /\ Good(x - 1)
  <2>1. x \in 1 .. n /\ x - 1 \in 0 .. n /\ ~(x <= x - 1)
    BY <1>0, <1>4, <1>5
  <2>2. x - 1 \notin T
    BY <1>3, <2>1
  <2> QED BY <2>1, <2>2
<1> DEFINE c == string[x]
           u == print_color(f[x - 1], c, fg, bg, 0)
<1>7. c \in UserByte \cup {Text, Newline}
  BY <1>6, ElementOfSeq
<1> HIDE DEF c
<1>8. f[x - 1] \in Screen
  BY <1>6 DEF Good
<1>9. u \in Screen
  <2>1. IsPut(f[x - 1], c, screen_matrix_format(c, fg, bg, 0), u)
    BY <1>7, <1>8, PutFields
  <2> HIDE DEF u
  <2> QED BY <2>1 DEF IsPut
<1>10. ~Outside(t) => ~Outside(u)
  <2>1. ~Outside(t) => ~Outside(f[x - 1])
    BY <1>6 DEF Good
  <2> QED BY <2>1, <1>7, <1>8, PutInside
<1>11. f[x] = u
  BY <1>1, <1>6 DEF c
<1> QED BY <1>4, <1>9, <1>10, <1>11 DEF Good

\* What a user's text leaves on the screen, after each of its characters.
LEMMA RunPlaced ==
  ASSUME NEW t \in Screen, ~Outside(t), NEW text \in Seq(UserByte), NEW string \in Seq(UserByte),
         NEW from \in Nat, Len(text) = from + Len(string),
         \A k \in 1 .. Len(string) : text[from + k] = string[k],
         Placed(t, text, from),
         NEW fg \in Int, NEW bg \in Int, NEW f, IsRun(f, Len(string), t, string, fg, bg),
         NEW k \in 0 .. Len(string)
  PROVE  Placed(f[k], text, from + k)
<1> DEFINE Good(i) == Placed(f[i], text, from + i)
           n == Len(string)
           T == {i \in 0 .. n : ~Good(i)}
<1>0. n \in Nat /\ Len(text) = from + n /\ Len(text) \in Nat
  OBVIOUS
<1>1. f[0] = t /\ \A i \in 1 .. n : f[i] = print_color(f[i - 1], string[i], fg, bg, 0)
  BY <1>0, RunStep
<1> SUFFICES ASSUME ~Good(k) PROVE FALSE
  OBVIOUS
<1>2. T \in SUBSET Nat /\ T # {}
  OBVIOUS
<1>3. PICK x \in T : \A y \in T : x <= y
  <2> HIDE DEF T
  <2> QED BY <1>2, Least
<1>4. x \in 0 .. n /\ ~Good(x)
  BY <1>3
<1>5. x # 0
  <2>1. Good(0)
    <3>1. from + 0 = from
      OBVIOUS
    <3> QED BY <1>1, <3>1
  <2> QED BY <2>1, <1>4
<1> HIDE DEF Good
<1>6. x \in 1 .. n /\ x - 1 \in 0 .. n /\ Good(x - 1)
  <2>1. x \in 1 .. n /\ x - 1 \in 0 .. n /\ ~(x <= x - 1)
    BY <1>0, <1>4, <1>5
  <2>2. x - 1 \notin T
    BY <1>3, <2>1
  <2> QED BY <2>1, <2>2
<1>7. f[x - 1] \in Screen /\ ~Outside(f[x - 1])
  <2>1. string \in Seq(UserByte \cup {Text, Newline})
    OBVIOUS
  <2> QED BY <2>1, <1>6, RunInside
<1> DEFINE m == from + (x - 1)
<1>8. m \in 0 .. Len(text) - 1 /\ m + 1 = from + x /\ Placed(f[x - 1], text, m)
  BY <1>0, <1>6 DEF Good
<1>9. text[m + 1] = string[x]
  BY <1>6, <1>8
<1> HIDE DEF m
<1>10. Placed(print_color(f[x - 1], text[m + 1], fg, bg, 0), text, m + 1)
  BY <1>7, <1>8, PutPlaced
<1>11. f[x] = print_color(f[x - 1], text[m + 1], fg, bg, 0)
  BY <1>1, <1>6, <1>9
<1> QED BY <1>4, <1>8, <1>10, <1>11 DEF Good

\* The loops of sys_write_console and printk are such runs.
LEMMA ConsoleRun ==
  ASSUME NEW bytes, Len(bytes) \in Nat
  PROVE  \E f : /\ IsRun(f, Len(bytes), tty, bytes, Green, 0)
               /\ sys_write_console(bytes) = f[Len(bytes)]
<1> DEFINE f == CHOOSE g : IsRun(g, Len(bytes), tty, bytes, Green, 0)
<1>1. IsRun(f, Len(bytes), tty, bytes, Green, 0)
  <2>1. \E g : IsRun(g, Len(bytes), tty, bytes, Green, 0)
    BY RunExists
  <2> QED BY <2>1
<1>2. sys_write_console(bytes) = f[Len(bytes)]
  BY DEF sys_write_console, IsRun, printc
<1> QED BY <1>1, <1>2

LEMMA MessageRun ==
  ASSUME NEW string, Len(string) \in Nat
  PROVE  \E f : /\ IsRun(f, Len(string), tty, string, Light_Gray, Green)
               /\ printk(string) = f[Len(string)]
<1> DEFINE f == CHOOSE g : IsRun(g, Len(string), tty, string, Light_Gray, Green)
<1>1. IsRun(f, Len(string), tty, string, Light_Gray, Green)
  <2>1. \E g : IsRun(g, Len(string), tty, string, Light_Gray, Green)
    BY RunExists
  <2> QED BY <2>1
<1>2. printk(string) = f[Len(string)]
  BY DEF printk, IsRun
<1> QED BY <1>1, <1>2
-----------------------------------------------------------------------------
LEMMA CopiedBytes ==
  ASSUME NEW start, NEW size \in Nat, \A k \in 0 .. size - 1 : Offset(start, k) \in UserByte
  PROVE  copy_from_user(start, size) \in Seq(UserByte) /\ Len(copy_from_user(start, size)) = size
<1>1. \A k \in 1 .. size : Offset(start, k - 1) \in UserByte
  <2> SUFFICES ASSUME NEW k \in 1 .. size PROVE Offset(start, k - 1) \in UserByte
    OBVIOUS
  <2>1. k - 1 \in 0 .. size - 1
    OBVIOUS
  <2> QED BY <2>1
<1> QED BY <1>1 DEF copy_from_user

\* Two chunks that follow each other are one.
LEMMA CopyConcat ==
  ASSUME NEW start \in Nat, NEW i \in Nat, NEW j \in Nat,
         copy_from_user(start, i) \in Seq(UserByte),
         copy_from_user(Offset(start, i), j) \in Seq(UserByte)
  PROVE  copy_from_user(start, i) \o copy_from_user(Offset(start, i), j)
           = copy_from_user(start, i + j)
<1> DEFINE a == copy_from_user(start, i)
           b == copy_from_user(Offset(start, i), j)
           c == copy_from_user(start, i + j)
<1>1. /\ a = [k \in 1 .. i |-> Offset(start, k - 1)]
      /\ b = [k \in 1 .. j |-> Offset(Offset(start, i), k - 1)]
      /\ c = [k \in 1 .. i + j |-> Offset(start, k - 1)]
  BY DEF copy_from_user
<1> HIDE DEF a, b, c
<1>2. a \in Seq(UserByte) /\ b \in Seq(UserByte) /\ Len(a) = i /\ Len(b) = j
  BY <1>1 DEF a, b
<1>3. a \o b = [k \in 1 .. i + j |-> IF k <= i THEN a[k] ELSE b[k - i]]
  <2>1. /\ a \o b \in Seq(UserByte) /\ Len(a \o b) = i + j
        /\ \A k \in 1 .. i + j : (a \o b)[k] = IF k <= i THEN a[k] ELSE b[k - i]
    BY <1>2, ConcatProperties, ZenonT(40)
  <2> DEFINE q == a \o b
  <2>2. q = [k \in 1 .. i + j |-> q[k]]
    <3>1. q \in Seq(UserByte) /\ Len(q) = i + j
      BY <2>1
    <3> HIDE DEF q
    <3> QED BY <3>1
  <2> HIDE DEF q
  <2>3. \A k \in 1 .. i + j : q[k] = IF k <= i THEN a[k] ELSE b[k - i]
    BY <2>1 DEF q
  <2>4. q = [k \in 1 .. i + j |-> IF k <= i THEN a[k] ELSE b[k - i]]
    BY <2>2, <2>3
  <2> QED BY <2>4 DEF q
<1>4. ASSUME NEW k \in 1 .. i + j
      PROVE  (IF k <= i THEN a[k] ELSE b[k - i]) = Offset(start, k - 1)
  <2>1. CASE k <= i
    BY <1>1, <2>1
  <2>2. CASE ~(k <= i)
    <3>1. k - i \in 1 .. j /\ (k - i) - 1 \in Nat /\ i + ((k - i) - 1) = k - 1
      BY <2>2
    <3>2. b[k - i] = Offset(Offset(start, i), (k - i) - 1)
      BY <1>1, <3>1
    <3>3. Offset(Offset(start, i), (k - i) - 1) = Offset(start, i + ((k - i) - 1))
      BY <3>1, OffsetTwice
    <3> QED BY <2>2, <3>1, <3>2, <3>3
  <2> QED BY <2>1, <2>2
<1>5. a \o b = c
  BY <1>1, <1>3, <1>4
<1> QED BY <1>5 DEF a, b, c

\* Text p is on screen t, and b comes next.
Follows(t, p, b) ==
  /\ p \o b \in Seq(UserByte) /\ Len(p \o b) = Len(p) + Len(b)
  /\ \A k \in 1 .. Len(b) : (p \o b)[Len(p) + k] = b[k]
  /\ Placed(t, p \o b, Len(p))

\* Where a text stands depends on its own characters only.
LEMMA PlacedPrefix ==
  ASSUME NEW t, NEW p \in Seq(UserByte), NEW b \in Seq(UserByte), Placed(t, p, Len(p))
  PROVE  Follows(t, p, b)
<1>1. p \o b \in Seq(UserByte) /\ Len(p \o b) = Len(p) + Len(b) /\ Len(p) \in Nat
  OBVIOUS
<1>2. \A k \in 1 .. Len(b) : (p \o b)[Len(p) + k] = b[k]
  OBVIOUS
<1>3. \A k \in 1 .. Len(p) : (p \o b)[k] = p[k]
  OBVIOUS
<1> DEFINE n == Len(p)
           q == p \o b
<1>4. n \in Nat /\ \A k \in 1 .. n : q[k] = p[k]
  BY <1>1, <1>3
<1> HIDE DEF n, q
<1>5. ASSUME NEW m \in 1 .. n, m <= Size, \A k \in 0 .. m - 1 : q[n - k] \notin Newlines
      PROVE  LET c == (Cursor(t) - m) % Size
             IN  c \in ClockCells \/ t.screen[c].char = q[n - m + 1]
  <2>1. \A k \in 0 .. m - 1 : p[n - k] \notin Newlines
    <3> SUFFICES ASSUME NEW k \in 0 .. m - 1 PROVE p[n - k] \notin Newlines
      OBVIOUS
    <3>1. n - k \in 1 .. n
      BY <1>4
    <3> QED BY <1>4, <1>5, <3>1
  <2>2. n - m + 1 \in 1 .. n
    BY <1>4
  <2>3. q[n - m + 1] = p[n - m + 1]
    BY <1>4, <2>2
  <2> QED BY <1>5, <2>1, <2>3 DEF Placed, n
<1>6. Placed(t, q, n)
  BY <1>5 DEF Placed
<1> QED BY <1>1, <1>2, <1>6 DEF n, q, Follows

(* A chunk: size bytes from where the buffer stands are printed after the ones
   printed before. *)
LEMMA ShowChunk ==
  ASSUME ConsoleInv, call.active, NEW size \in 0 .. call.bytes_left, CopyAndShow(size)
  PROVE  /\ tty' \in Screen
         /\ last' \in [start : Char, nbytes : Nat, printed : Seq(UserByte),
                       edge : BOOLEAN, stored : SUBSET UserByte]
         /\ last'.start = last.start /\ last'.nbytes = last.nbytes
         /\ last'.edge = last.edge /\ last'.stored = last.stored
         /\ last'.printed = copy_from_user(last.start, last.nbytes - call.bytes_left + size)
         /\ ~last.edge => ~Outside(tty') /\ Placed(tty', last'.printed, Len(last'.printed))
<1> DEFINE bytes == copy_from_user(call.buffer, size)
           p == last.printed
           i == last.nbytes - call.bytes_left
<1>1. /\ call.bytes_left \in Nat /\ last.nbytes \in Nat /\ last.start \in Char
      /\ call.bytes_left <= last.nbytes /\ call.buffer = Offset(last.start, i)
      /\ \A k \in 0 .. call.bytes_left - 1 : Offset(call.buffer, k) \in UserByte
      /\ p = copy_from_user(last.start, i) /\ p \in Seq(UserByte)
      /\ tty \in Screen
  BY DEF ConsoleInv, CallFits, History, PrintsTheBuffer
<1>2. size \in Nat /\ i \in Nat /\ last.start \in Nat
  BY <1>1, Sizes DEF Char
<1>3. bytes \in Seq(UserByte) /\ Len(bytes) = size
  <2>1. \A k \in 0 .. size - 1 : Offset(call.buffer, k) \in UserByte
    BY <1>1, <1>2
  <2> QED BY <2>1, <1>2, CopiedBytes
<1>4. tty' = sys_write_console(bytes) /\ last' = [last EXCEPT !.printed = @ \o bytes]
  BY DEF CopyAndShow
<1>5. p \o bytes = copy_from_user(last.start, i + size)
  <2> HIDE DEF i
  <2>1. copy_from_user(last.start, i) \in Seq(UserByte)
    BY <1>1
  <2>2. copy_from_user(Offset(last.start, i), size) \in Seq(UserByte)
    BY <1>1, <1>3
  <2>3. copy_from_user(last.start, i) \o copy_from_user(Offset(last.start, i), size)
          = copy_from_user(last.start, i + size)
    BY <2>1, <2>2, <1>2, CopyConcat
  <2> QED BY <2>3, <1>1
<1> HIDE DEF bytes, p, i
<1>6. p \o bytes \in Seq(UserByte)
  BY <1>1, <1>3
<1>7. /\ last' \in [start : Char, nbytes : Nat, printed : Seq(UserByte),
                    edge : BOOLEAN, stored : SUBSET UserByte]
      /\ last'.start = last.start /\ last'.nbytes = last.nbytes
      /\ last'.edge = last.edge /\ last'.stored = last.stored
      /\ last'.printed = p \o bytes
  <2>1. last \in [start : Char, nbytes : Nat, printed : Seq(UserByte),
                  edge : BOOLEAN, stored : SUBSET UserByte]
    BY DEF ConsoleInv, History
  <2> QED BY <2>1, <1>4, <1>6 DEF p
<1>8. PICK f : IsRun(f, Len(bytes), tty, bytes, Green, 0) /\ tty' = f[Len(bytes)]
  <2>1. Len(bytes) \in Nat
    BY <1>2, <1>3
  <2> QED BY <2>1, <1>4, ConsoleRun
<1>9. Green \in Int /\ 0 \in Int /\ Len(bytes) \in 0 .. Len(bytes)
  BY <1>2, <1>3 DEF Green
<1>10. tty' \in Screen /\ (~Outside(tty) => ~Outside(tty'))
  <2>1. bytes \in Seq(UserByte \cup {Text, Newline})
    BY <1>3
  <2>2. f[Len(bytes)] \in Screen /\ (~Outside(tty) => ~Outside(f[Len(bytes)]))
    BY <2>1, <1>1, <1>8, <1>9, RunInside
  <2> QED BY <2>2, <1>8 DEF Outside
<1>11. ASSUME ~last.edge
       PROVE  ~Outside(tty') /\ Placed(tty', p \o bytes, Len(p \o bytes))
  <2>1. ~Outside(tty) /\ Placed(tty, p, Len(p))
    BY <1>11 DEF ConsoleInv, p
  <2>2. /\ p \o bytes \in Seq(UserByte) /\ Len(p \o bytes) = Len(p) + Len(bytes)
        /\ \A k \in 1 .. Len(bytes) : (p \o bytes)[Len(p) + k] = bytes[k]
        /\ Placed(tty, p \o bytes, Len(p))
    <3>1. Follows(tty, p, bytes)
      BY <2>1, <1>1, <1>3, PlacedPrefix
    <3> QED BY <3>1 DEF Follows
  <2>3. Len(p) \in Nat
    BY <1>1
  <2>4. Placed(f[Len(bytes)], p \o bytes, Len(p) + Len(bytes))
    BY <2>1, <2>2, <2>3, <1>1, <1>3, <1>8, <1>9, RunPlaced
  <2> QED BY <2>1, <2>2, <2>4, <1>8, <1>10
<1>12. last'.printed = copy_from_user(last.start, last.nbytes - call.bytes_left + size)
  BY <1>5, <1>7 DEF i
<1> QED BY <1>7, <1>10, <1>11, <1>12
-----------------------------------------------------------------------------
LEMMA NoBytes ==
  ASSUME NEW start
  PROVE  copy_from_user(start, 0) = <<>>
  BY DEF copy_from_user

LEMMA InvInit == Init => ConsoleInv
<1> SUFFICES ASSUME Init PROVE ConsoleInv
  OBVIOUS
<1>1. tty \in Screen
  <2>1. FIRST_ROW \in 0 .. NUM_ROWS /\ 0 \in 0 .. NUM_COLUMNS
    BY Sizes, ConsoleAssumption
  <2>2. [c \in Cell |-> ZeroWord] \in [Cell -> Word]
    BY ZeroIsWord
  <2> QED BY <2>1, <2>2 DEF Init, Screen
<1>2. calls \in 0 .. MaxCalls
  BY ConsoleAssumption DEF Init
<1>3. 0 \in Char
  BY Sizes DEF Char
<1>4. CallFits
  BY <1>3 DEF Init, CallFits, NoCall
<1>5. History
  <2>1. last.printed = copy_from_user(last.start, last.nbytes - call.bytes_left)
    BY NoBytes DEF Init, NoWrite, NoCall
  <2>2. last \in [start : Char, nbytes : Nat, printed : Seq(UserByte),
                  edge : BOOLEAN, stored : SUBSET UserByte]
    BY <1>3 DEF Init, NoWrite
  <2> QED BY <2>1, <2>2 DEF Init, NoWrite, NoCall, History, PrintsTheBuffer
<1>6. last.edge
  BY DEF Init, NoWrite
<1> QED BY <1>1, <1>2, <1>4, <1>5, <1>6 DEF ConsoleInv

\* Outside sys_write: a step that begins a new history without a text.
LEMMA QuietStep ==
  ASSUME ConsoleInv, Quiet, call' = call, tty' \in Screen, calls' \in 0 .. MaxCalls,
         last' = [NoWrite EXCEPT !.edge = last'.edge, !.stored = last'.stored],
         last'.edge \in BOOLEAN, last'.stored \subseteq UserByte,
         ~last'.edge => ~Outside(tty')
  PROVE  ConsoleInv'
<1>1. call = NoCall /\ call' = NoCall
  BY DEF ConsoleInv, CallFits, Quiet
<1>2. /\ last'.printed = <<>> /\ last'.start = 0 /\ last'.nbytes = 0
      /\ last' = [start |-> 0, nbytes |-> 0, printed |-> <<>>, edge |-> last'.edge,
                  stored |-> last'.stored]
  BY DEF NoWrite
<1>3. 0 \in Char
  BY Sizes DEF Char
<1>4. CallFits'
  BY <1>1, <1>3 DEF CallFits, NoCall
<1>5. PrintsTheBuffer'
  BY <1>1, <1>2, NoBytes DEF PrintsTheBuffer, NoCall
<1>6. History'
  <2>1. last' \in [start : Char, nbytes : Nat, printed : Seq(UserByte),
                   edge : BOOLEAN, stored : SUBSET UserByte]
    <3> DEFINE e == last'.edge
               st == last'.stored
    <3>1. /\ last' = [start |-> 0, nbytes |-> 0, printed |-> <<>>, edge |-> e, stored |-> st]
          /\ e \in BOOLEAN /\ st \in SUBSET UserByte /\ <<>> \in Seq(UserByte)
      BY <1>2
    <3> HIDE DEF e, st
    <3> QED BY <3>1, <1>3
  <2> QED BY <2>1, <1>1, <1>2, <1>5 DEF History, NoCall
<1>7. Placed(tty', last'.printed, Len(last'.printed))
  BY <1>2 DEF Placed
<1> QED BY <1>4, <1>6, <1>7 DEF ConsoleInv

\* The cells behind a cursor on the screen are cells of the screen.
LEMMA BackOnScreen ==
  ASSUME NEW t \in Screen, ~Outside(t), NEW m \in Nat, m >= 1, m <= Size
  PROVE  (Cursor(t) - m) % Size \in OnScreen /\ (Cursor(t) - m) % Size \in Cell
<1>1. Cursor(t) \in 0 .. Size - 1
  <2>1. Newline \in UserByte \cup {Text, Newline} /\ 0 \in Int
    OBVIOUS
  <2> QED BY <2>1, PutInside
<1>2. m \in 1 .. Size /\ Size \in Nat /\ Size > 0
  BY RowsFit, Sizes
<1>3. (Cursor(t) - m) % Size
        = IF Cursor(t) >= m THEN Cursor(t) - m ELSE Cursor(t) - m + Size
  BY <1>1, <1>2, CellBack
<1>4. (Cursor(t) - m) % Size \in 0 .. Size - 1
  BY <1>1, <1>2, <1>3
<1>5. OnScreen = 0 .. Size - 1 /\ Cell = 0 .. Size + NUM_COLUMNS
  BY Zenon DEF OnScreen, Cell, Size
<1>6. \A i \in 0 .. Size - 1 : i \in 0 .. Size + NUM_COLUMNS
  BY <1>2, Sizes
<1> QED BY <1>4, <1>5, <1>6

\* A step that changes no character but those of the clock, and not the cursor.
LEMMA PaintStep ==
  ASSUME ConsoleInv, call' = call, last' = last, calls' \in 0 .. MaxCalls,
         tty' \in Screen, tty'.x = tty.x, tty'.y = tty.y,
         \A c \in Cell : c \in ClockCells \/ tty'.screen[c].char = tty.screen[c].char
  PROVE  ConsoleInv'
<1>1. CallFits' /\ History'
  BY DEF ConsoleInv, CallFits, History, PrintsTheBuffer
<1>2. ASSUME ~last.edge
      PROVE  ~Outside(tty') /\ Placed(tty', last.printed, Len(last.printed))
  <2>1. tty \in Screen /\ ~Outside(tty) /\ Placed(tty, last.printed, Len(last.printed))
    BY <1>2 DEF ConsoleInv
  <2>2. ~Outside(tty')
    BY <2>1 DEF Outside
  <2>3. Cursor(tty') = Cursor(tty)
    BY DEF Cursor
  <2> DEFINE text == last.printed
             n == Len(text)
  <2>4. ASSUME NEW m \in 1 .. n, m <= Size, \A k \in 0 .. m - 1 : text[n - k] \notin Newlines
        PROVE  LET c == (Cursor(tty') - m) % Size
               IN  c \in ClockCells \/ tty'.screen[c].char = text[n - m + 1]
    <3> DEFINE c == (Cursor(tty) - m) % Size
    <3>1. m \in Nat /\ m >= 1
      OBVIOUS
    <3>2. c \in Cell
      BY <2>1, <2>4, <3>1, BackOnScreen
    <3>3. c \in ClockCells \/ tty.screen[c].char = text[n - m + 1]
      BY <2>1, <2>4 DEF Placed
    <3> HIDE DEF c
    <3>4. c \in ClockCells \/ tty'.screen[c].char = text[n - m + 1]
      BY <3>2, <3>3
    <3> QED BY <3>4, <2>3 DEF c
  <2>5. Placed(tty', text, n)
    <3> HIDE DEF n, text
    <3> QED BY <2>4 DEF Placed
  <2> QED BY <2>2, <2>5
<1> QED BY <1>1, <1>2 DEF ConsoleInv

LEMMA WriteStep ==
  ASSUME ConsoleInv, NEW buffer \in Pointers, NEW nbytes \in Lengths, sys_write(buffer, nbytes)
  PROVE  ConsoleInv'
<1>1. /\ nbytes \in Nat /\ nbytes <= ADDRESSES - PAGE_SIZE /\ buffer \in Char
      /\ access_ok("VERIFY_READ", buffer, nbytes)
  BY ConsoleAssumption DEF sys_write, Char
<1>2. \A k \in 0 .. nbytes - 1 : Offset(buffer, k) \in UserByte
  <2> SUFFICES ASSUME NEW k \in 0 .. nbytes - 1 PROVE Offset(buffer, k) \in UserByte
    OBVIOUS
  <2>1. k \in 0 .. nbytes
    BY <1>1
  <2> QED BY <2>1, <1>1, AccessInUserPages
<1>3. /\ call' = [active |-> TRUE, buffer |-> buffer, bytes_left |-> nbytes]
      /\ last' = [start |-> buffer, nbytes |-> nbytes, printed |-> <<>>,
                  edge |-> Outside(tty), stored |-> {}]
      /\ tty' = tty
  BY DEF sys_write
<1>4. nbytes - nbytes = 0
  BY <1>1
<1>5. CallFits'
  <2>1. Offset(buffer, 0) = buffer
    BY <1>1, OffsetNone
  <2> QED BY <2>1, <1>1, <1>2, <1>3, <1>4 DEF CallFits
<1>6. PrintsTheBuffer'
  BY <1>3, <1>4, NoBytes DEF PrintsTheBuffer
<1>7. Outside(tty) \in BOOLEAN
  BY DEF Outside
<1>8. History'
  <2>1. last' \in [start : Char, nbytes : Nat, printed : Seq(UserByte),
                   edge : BOOLEAN, stored : SUBSET UserByte]
    BY <1>1, <1>3, <1>7
  <2> QED BY <2>1, <1>1, <1>3, <1>6 DEF History
<1>9. ~last'.edge => ~Outside(tty')
  BY <1>3
<1>10. Placed(tty', last'.printed, Len(last'.printed))
  BY <1>3 DEF Placed
<1>11. tty' \in Screen /\ calls' \in 0 .. MaxCalls
  BY <1>3, ConsoleAssumption DEF ConsoleInv, sys_write, Enter
<1> QED BY <1>5, <1>8, <1>9, <1>10, <1>11 DEF ConsoleInv

LEMMA ChunkStep == ConsoleInv /\ WriteChunk => ConsoleInv'
<1> SUFFICES ASSUME ConsoleInv, WriteChunk PROVE ConsoleInv'
  OBVIOUS
<1> DEFINE left == call.bytes_left
           T == TAM_BUFFER
<1>1. /\ call \in [active : BOOLEAN, buffer : Char, bytes_left : Nat]
      /\ left \in Nat /\ last.nbytes \in Nat /\ last.start \in Char /\ left <= last.nbytes
      /\ call.buffer = Offset(last.start, last.nbytes - left) /\ call.buffer \in Char
      /\ \A k \in 0 .. left - 1 : Offset(call.buffer, k) \in UserByte
  BY DEF ConsoleInv, CallFits, History, WriteChunk
<1>2. /\ call.active /\ left > T /\ CopyAndShow(T) /\ calls' = calls
      /\ call' = [call EXCEPT !.bytes_left = @ - T, !.buffer = Offset(@, T)]
  BY DEF WriteChunk
<1>3. T \in 0 .. left /\ T \in Nat /\ T > 0 /\ last.nbytes - left \in Nat
  BY <1>1, <1>2, Sizes
<1>4. /\ call'.active /\ call'.bytes_left = left - T /\ call'.buffer = Offset(call.buffer, T)
      /\ call'.bytes_left \in Nat
  BY <1>1, <1>2, <1>3
<1>5. /\ tty' \in Screen
      /\ last' \in [start : Char, nbytes : Nat, printed : Seq(UserByte),
                    edge : BOOLEAN, stored : SUBSET UserByte]
      /\ last'.start = last.start /\ last'.nbytes = last.nbytes /\ last'.edge = last.edge
      /\ last'.printed = copy_from_user(last.start, last.nbytes - left + T)
      /\ ~last.edge => ~Outside(tty') /\ Placed(tty', last'.printed, Len(last'.printed))
  BY <1>2, <1>3, ShowChunk
<1>6. CallFits'
  <2>1. last.start \in Nat /\ call.buffer \in Nat
    BY <1>1, Sizes DEF Char
  <2>2. call'.buffer \in Char
    BY <1>3, <1>4, <2>1, OffsetChar
  <2>3. call' \in [active : BOOLEAN, buffer : Char, bytes_left : Nat]
    BY <1>1, <1>2, <1>4, <2>2
  <2>4. call'.buffer = Offset(last'.start, last'.nbytes - call'.bytes_left)
    <3>1. Offset(Offset(last.start, last.nbytes - left), T)
            = Offset(last.start, (last.nbytes - left) + T)
      BY <1>3, <2>1, OffsetTwice, ZenonT(40)
    <3>2. (last.nbytes - left) + T = last.nbytes - (left - T)
      BY <1>1, <1>3
    <3> QED BY <3>1, <3>2, <1>1, <1>4, <1>5
  <2>5. ASSUME NEW k \in 0 .. call'.bytes_left - 1
        PROVE  Offset(call'.buffer, k) \in UserByte
    <3>1. k \in Nat /\ T + k \in 0 .. left - 1
      BY <1>1, <1>3, <1>4
    <3>2. Offset(Offset(call.buffer, T), k) = Offset(call.buffer, T + k)
      BY <2>1, <3>1, <1>3, OffsetTwice
    <3> QED BY <3>1, <3>2, <1>1, <1>4
  <2> QED BY <2>3, <2>4, <2>5, <1>4 DEF CallFits
<1>7. History'
  <2>1. last'.nbytes - call'.bytes_left = last.nbytes - left + T
    BY <1>1, <1>3, <1>4, <1>5
  <2>2. PrintsTheBuffer'
    BY <2>1, <1>5 DEF PrintsTheBuffer
  <2>3. call'.bytes_left <= last'.nbytes
    BY <1>1, <1>3, <1>4, <1>5
  <2> QED BY <2>2, <2>3, <1>5 DEF History
<1> QED BY <1>2, <1>5, <1>6, <1>7 DEF ConsoleInv

LEMMA RestStep == ConsoleInv /\ WriteRest => ConsoleInv'
<1> SUFFICES ASSUME ConsoleInv, WriteRest PROVE ConsoleInv'
  OBVIOUS
<1> DEFINE left == call.bytes_left
<1>1. left \in Nat /\ last.nbytes \in Nat /\ left <= last.nbytes
  BY DEF ConsoleInv, CallFits, History
<1>2. call.active /\ CopyAndShow(left) /\ calls' = calls /\ call' = NoCall
  BY DEF WriteRest
<1>3. left \in 0 .. left /\ last.nbytes - left + left = last.nbytes - 0
  BY <1>1
<1>5. /\ tty' \in Screen
      /\ last' \in [start : Char, nbytes : Nat, printed : Seq(UserByte),
                    edge : BOOLEAN, stored : SUBSET UserByte]
      /\ last'.start = last.start /\ last'.nbytes = last.nbytes /\ last'.edge = last.edge
      /\ last'.printed = copy_from_user(last.start, last.nbytes - left + left)
      /\ ~last.edge => ~Outside(tty') /\ Placed(tty', last'.printed, Len(last'.printed))
  BY <1>2, <1>3, ShowChunk
<1>6. CallFits'
  <2>1. 0 \in Char
    BY Sizes DEF Char
  <2> QED BY <2>1, <1>2 DEF CallFits, NoCall
<1>7. History'
  BY <1>1, <1>2, <1>3, <1>5 DEF History, PrintsTheBuffer, NoCall
<1> QED BY <1>2, <1>5, <1>6, <1>7 DEF ConsoleInv
-----------------------------------------------------------------------------
LEMMA ClearStep ==
  ASSUME ConsoleInv, NEW b \in Pointers, NEW fg \in Colors, NEW bg \in Colors,
         NEW blnk \in {0, 1}, sys_clrscr(b, fg, bg, blnk)
  PROVE  ConsoleInv'
<1> DEFINE n == 4 * NUM_ROWS * NUM_COLUMNS
<1>1. /\ Quiet /\ call' = call /\ calls' \in 0 .. MaxCalls /\ last' = NoWrite
      /\ access_ok("VERIFY_READ", b, n)
      /\ tty' = IF b # 0 THEN clear_paint_screen(b, fg, bg, blnk) ELSE clear_screen
  BY ConsoleAssumption DEF sys_clrscr, Enter, ConsoleInv
<1>2. /\ n \in Nat /\ n <= ADDRESSES - PAGE_SIZE /\ b \in Char
      /\ fg \in Int /\ bg \in Int /\ blnk \in Int
  <2>1. n \in Int /\ n <= ADDRESSES - PAGE_SIZE
    BY ConsoleAssumption
  <2>2. n >= 0
    BY Sizes
  <2> QED BY <2>1, <2>2, ConsoleAssumption DEF Char
<1>3. n = 4 * Size /\ Size \in Nat /\ OnScreen = 0 .. Size - 1
  BY Sizes DEF Size, OnScreen
<1> HIDE DEF n
<1>4. tty \in Screen /\ tty.screen \in [Cell -> Word]
  BY DEF ConsoleInv, Screen
<1>5. ASSUME NEW c \in OnScreen
      PROVE  screen_matrix_format(Offset(b, 2 * c), fg, bg, blnk) \in Word
  <2>1. 2 * c \in 0 .. n
    BY <1>3
  <2>2. Offset(b, 2 * c) \in UserByte
    BY <2>1, <1>1, <1>2, AccessInUserPages
  <2>3. Offset(b, 2 * c) \in UserByte \cup {Blank, Text, Digit}
    BY <2>2
  <2> QED BY <2>3, <1>2, FormatWord
<1>6. tty' \in Screen
  <2>1. CASE b # 0
    <3> DEFINE scr == [c \in Cell |-> IF c \in OnScreen
                         THEN screen_matrix_format(Offset(b, 2 * c), fg, bg, blnk)
                         ELSE tty.screen[c]]
    <3>1. tty' = [tty EXCEPT !.screen = scr]
      BY <1>1, <2>1 DEF clear_paint_screen
    <3>2. scr \in [Cell -> Word]
      BY <1>4, <1>5
    <3> HIDE DEF scr
    <3> QED BY <3>1, <3>2, <1>4 DEF Screen
  <2>2. CASE b = 0
    <3> DEFINE scr == [c \in Cell |-> IF c \in OnScreen THEN ZeroWord ELSE tty.screen[c]]
    <3>1. tty' = [tty EXCEPT !.screen = scr]
      BY <1>1, <2>2 DEF clear_screen
    <3>2. scr \in [Cell -> Word]
      BY <1>4, ZeroIsWord
    <3> HIDE DEF scr
    <3> QED BY <3>1, <3>2, <1>4 DEF Screen
  <2> QED BY <2>1, <2>2
<1>7. /\ last' = [NoWrite EXCEPT !.edge = last'.edge, !.stored = last'.stored]
      /\ last'.edge = TRUE /\ last'.stored = {}
  BY <1>1 DEF NoWrite
<1> QED BY <1>1, <1>6, <1>7, QuietStep

LEMMA GotoStep ==
  ASSUME ConsoleInv, NEW i \in 0 .. NUM_COLUMNS, NEW j \in 0 .. NUM_ROWS, sys_gotoXY(i, j)
  PROVE  ConsoleInv'
<1>1. /\ Quiet /\ call' = call /\ calls' \in 0 .. MaxCalls /\ last' = NoWrite
      /\ tty' = [tty EXCEPT !.x = i, !.y = j]
  BY DEF sys_gotoXY, setXY, ConsoleInv
<1>2. tty' \in Screen
  BY <1>1 DEF Screen, ConsoleInv
<1>3. /\ last' = [NoWrite EXCEPT !.edge = last'.edge, !.stored = last'.stored]
      /\ last'.edge = TRUE /\ last'.stored = {}
  BY <1>1 DEF NoWrite
<1> QED BY <1>1, <1>2, <1>3, QuietStep

LEMMA MessageStep ==
  ASSUME ConsoleInv, NEW string \in Messages, KernelMessage(string)
  PROVE  ConsoleInv'
<1>1. /\ Quiet /\ call' = call /\ calls' \in 0 .. MaxCalls /\ tty' = printk(string)
      /\ last' = [NoWrite EXCEPT !.edge = Outside(tty)] /\ tty \in Screen
  BY ConsoleAssumption DEF KernelMessage, Enter, ConsoleInv
<1>2. string \in Seq(UserByte \cup {Text, Newline}) /\ Len(string) \in Nat
  <2>1. string \in Seq({Text, Newline})
    BY MessagesAssumption
  <2> QED BY <2>1
<1>3. PICK f : IsRun(f, Len(string), tty, string, Light_Gray, Green)
               /\ tty' = f[Len(string)]
  BY <1>1, <1>2, MessageRun
<1>4. tty' \in Screen /\ (~Outside(tty) => ~Outside(tty'))
  <2>1. Light_Gray \in Int /\ Green \in Int /\ Len(string) \in 0 .. Len(string)
    BY <1>2 DEF Light_Gray, Green
  <2>2. f[Len(string)] \in Screen /\ (~Outside(tty) => ~Outside(f[Len(string)]))
    BY <2>1, <1>1, <1>2, <1>3, RunInside
  <2> QED BY <2>2, <1>3 DEF Outside
<1>5. /\ last' = [NoWrite EXCEPT !.edge = last'.edge, !.stored = last'.stored]
      /\ last'.edge = Outside(tty) /\ last'.stored = {}
  BY <1>1 DEF NoWrite
<1>6. Outside(tty) \in BOOLEAN
  BY DEF Outside
<1> QED BY <1>1, <1>4, <1>5, <1>6, QuietStep

LEMMA StoreStep ==
  ASSUME ConsoleInv, NEW addr \in Pointers, NEW size \in {1, STATS_SIZE}, StoreToUser(addr, size)
  PROVE  ConsoleInv'
<1>1. /\ Quiet /\ call' = call /\ calls' \in 0 .. MaxCalls /\ tty' = tty /\ tty \in Screen
      /\ last' = [NoWrite EXCEPT !.stored = copy_to_user(addr, size)]
      /\ access_ok("VERIFY_WRITE", addr, size)
  BY DEF StoreToUser, ConsoleInv
<1>2. size \in Int /\ size <= ADDRESSES - PAGE_SIZE /\ addr \in Char
  BY ConsoleAssumption DEF Char
<1>3. copy_to_user(addr, size) \subseteq UserByte
  <2> SUFFICES ASSUME NEW k \in 0 .. size - 1 PROVE Offset(addr, k) \in UserByte
    BY DEF copy_to_user
  <2>1. size \in Nat /\ k \in 0 .. size
    BY <1>2
  <2> QED BY <2>1, <1>1, <1>2, AccessInUserPages
<1>4. /\ last' = [NoWrite EXCEPT !.edge = last'.edge, !.stored = last'.stored]
      /\ last'.edge = TRUE /\ last'.stored = copy_to_user(addr, size)
  BY <1>1 DEF NoWrite
<1> QED BY <1>1, <1>3, <1>4, QuietStep

LEMMA ColorStep ==
  ASSUME ConsoleInv, NEW fg \in Colors, NEW bg \in Colors, sys_changeColor(fg, bg)
  PROVE  ConsoleInv'
<1> DEFINE scr == [c \in Cell |-> IF c \in OnScreen
                     THEN screen_matrix_format(tty.screen[c].char, fg, bg, tty.screen[c].blink)
                     ELSE tty.screen[c]]
<1>1. /\ call' = call /\ last' = last /\ calls' \in 0 .. MaxCalls
      /\ tty' = [tty EXCEPT !.screen = scr] /\ tty \in Screen
  BY ConsoleAssumption DEF sys_changeColor, change_screen_colors, Enter, ConsoleInv
<1>2. ASSUME NEW c \in Cell
      PROVE  scr[c] \in Word /\ scr[c].char = tty.screen[c].char
  <2>1. tty.screen[c] \in Word
    BY <1>1 DEF Screen
  <2>2. /\ tty.screen[c].char \in UserByte \cup {Blank, Text, Digit}
        /\ tty.screen[c].blink \in Int
    BY <2>1 DEF Word
  <2>3. screen_matrix_format(tty.screen[c].char, fg, bg, tty.screen[c].blink) \in Word
    BY <2>2, FormatWord, ConsoleAssumption
  <2>4. screen_matrix_format(tty.screen[c].char, fg, bg, tty.screen[c].blink).char
          = tty.screen[c].char
    BY DEF screen_matrix_format
  <2> QED BY <2>1, <2>3, <2>4
<1>3. scr \in [Cell -> Word]
  BY <1>2
<1> HIDE DEF scr
<1>4. tty' \in Screen /\ tty'.x = tty.x /\ tty'.y = tty.y /\ tty'.screen = scr
  BY <1>1, <1>3 DEF Screen
<1>5. \A c \in Cell : c \in ClockCells \/ tty'.screen[c].char = tty.screen[c].char
  BY <1>2, <1>4
<1> QED BY <1>1, <1>4, <1>5, PaintStep

LEMMA ClockStep == ConsoleInv /\ zeos_show_clock => ConsoleInv'
<1> SUFFICES ASSUME ConsoleInv, zeos_show_clock PROVE ConsoleInv'
  OBVIOUS
<1> DEFINE scr == [c \in Cell |-> IF c \in ClockCells
                     THEN screen_matrix_format(Digit, Green, 0, 0) ELSE tty.screen[c]]
<1>1. /\ call' = call /\ last' = last /\ calls' \in 0 .. MaxCalls
      /\ tty' = [tty EXCEPT !.screen = scr] /\ tty \in Screen
  BY DEF zeos_show_clock, ConsoleInv
<1>2. screen_matrix_format(Digit, Green, 0, 0) \in Word
  <2>1. Digit \in UserByte \cup {Blank, Text, Digit} /\ Green \in Int /\ 0 \in Int
    BY DEF Green
  <2> QED BY <2>1, FormatWord
<1>3. scr \in [Cell -> Word] /\ \A c \in Cell : c \in ClockCells \/ scr[c] = tty.screen[c]
  BY <1>1, <1>2 DEF Screen
<1> HIDE DEF scr
<1>4. tty' \in Screen /\ tty'.x = tty.x /\ tty'.y = tty.y /\ tty'.screen = scr
  BY <1>1, <1>3 DEF Screen
<1>5. \A c \in Cell : c \in ClockCells \/ tty'.screen[c].char = tty.screen[c].char
  BY <1>3, <1>4
<1> QED BY <1>1, <1>4, <1>5, PaintStep

LEMMA InvStep == ConsoleInv /\ [Next]_vars => ConsoleInv'
<1> SUFFICES ASSUME ConsoleInv, [Next]_vars PROVE ConsoleInv'
  OBVIOUS
<1>1. ASSUME NEW p \in Pointers, NEW k \in Lengths, sys_write(p, k) PROVE ConsoleInv'
  BY <1>1, WriteStep
<1>2. CASE WriteChunk
  BY <1>2, ChunkStep
<1>3. CASE WriteRest
  BY <1>3, RestStep
<1>4. ASSUME NEW fg \in Colors, NEW bg \in Colors, sys_changeColor(fg, bg) PROVE ConsoleInv'
  BY <1>4, ColorStep
<1>5. ASSUME NEW fg \in Colors, NEW bg \in Colors, NEW p \in Pointers, NEW k \in {0, 1},
             sys_clrscr(p, fg, bg, k)
      PROVE  ConsoleInv'
  BY <1>5, ClearStep
<1>6. ASSUME NEW string \in Messages, KernelMessage(string) PROVE ConsoleInv'
  BY <1>6, MessageStep
<1>7. CASE zeos_show_clock
  BY <1>7, ClockStep
<1>8. ASSUME NEW p \in Pointers, NEW k \in {1, STATS_SIZE}, StoreToUser(p, k) PROVE ConsoleInv'
  BY <1>8, StoreStep
<1>9. ASSUME NEW i \in 0 .. NUM_COLUMNS, NEW j \in 0 .. NUM_ROWS, sys_gotoXY(i, j)
      PROVE  ConsoleInv'
  BY <1>9, GotoStep
<1>10. CASE UNCHANGED vars
  <2>1. tty' = tty /\ call' = call /\ last' = last /\ calls' = calls
    BY <1>10 DEF vars
  <2>2. tty' \in Screen /\ calls' \in 0 .. MaxCalls
    BY <2>1 DEF ConsoleInv
  <2> QED BY <2>1, <2>2, PaintStep
<1> QED
  BY <1>1, <1>2, <1>3, <1>4, <1>5, <1>6, <1>7, <1>8, <1>9, <1>10, Zenon DEF Next
-----------------------------------------------------------------------------
(* The words on the screen, the cursor and the locals of sys_write keep their
   ranges, whatever colours and positions the callers pass: the bit fields that
   color_bits fills do not run into each other. *)
THEOREM ConsoleTypes == Spec => []TypeOK
<1>1. ConsoleInv => TypeOK
  <2> SUFFICES ASSUME ConsoleInv PROVE TypeOK
    OBVIOUS
  <2>1. /\ tty.screen \in [Cell -> Word] /\ tty.x \in 0 .. NUM_COLUMNS
        /\ tty.y \in 0 .. NUM_ROWS
        /\ call \in [active : BOOLEAN, buffer : Char, bytes_left : Nat]
        /\ calls \in 0 .. MaxCalls
    BY DEF ConsoleInv, CallFits, Screen
  <2>2. Word \subseteq [char : Char \cup {Blank, Text, Digit}, fg : 0 .. 15, bg : 0 .. 7,
                        blink : {0, 1}]
    BY DEF Word, UserByte
  <2>3. tty.screen \in [Cell -> [char : Char \cup {Blank, Text, Digit}, fg : 0 .. 15,
                                 bg : 0 .. 7, blink : {0, 1}]]
    BY <2>1, <2>2
  <2> QED BY <2>1, <2>3 DEF TypeOK
<1> QED
  BY InvInit, InvStep, <1>1, PTL DEF Spec

(* For every buffer, size and TAM_BUFFER: the chunks that sys_write prints are
   the caller's bytes, each once and in order. *)
THEOREM ChunksAreTheBuffer == Spec => []PrintsTheBuffer
<1>1. ConsoleInv => PrintsTheBuffer
  BY DEF ConsoleInv, History
<1> QED
  BY InvInit, InvStep, <1>1, PTL DEF Spec

(* For every pointer and size that the callers of sys_write and sys_clrscr
   pass, only bytes of user pages and of the page behind the data are shown. *)
THEOREM NoKernelByteShown == Spec => []ShowsUserBytes
<1>1. ConsoleInv => ShowsUserBytes
  <2> SUFFICES ASSUME ConsoleInv, NEW c \in Cell, tty.screen[c].char \in Char
               PROVE  Page(tty.screen[c].char) \in USER_FIRST_PAGE .. EndOfData
    BY DEF ShowsUserBytes
  <2> DEFINE ch == tty.screen[c].char
  <2>1. tty.screen[c] \in Word
    BY DEF ConsoleInv, Screen
  <2>2. ch \in UserByte \cup {Blank, Text, Digit} /\ ch >= 0
    BY <2>1, Sizes DEF Word, Char
  <2> HIDE DEF ch
  <2>3. ch \in UserByte
    BY <2>2 DEF Blank, Text, Digit
  <2> QED BY <2>3 DEF UserByte, ch
<1> QED
  BY InvInit, InvStep, <1>1, PTL DEF Spec

\* The bytes that getKey and get_stats store are in such pages, too.
THEOREM NoKernelByteStored == Spec => []StoresInUserPages
<1>1. ConsoleInv => StoresInUserPages
  BY DEF ConsoleInv, History, StoresInUserPages, UserByte
<1> QED
  BY InvInit, InvStep, <1>1, PTL DEF Spec

(* On screens of every size, a sys_write or a message that finds the cursor on
   the screen leaves it there. *)
THEOREM CursorStaysOnScreen == Spec => []CursorStays
<1>1. ConsoleInv => CursorStays
  BY DEF ConsoleInv, CursorStays
<1> QED
  BY InvInit, InvStep, <1>1, PTL DEF Spec

(* On screens of every size, the text since the last new line stands before
   the cursor, in order, around the end of a row and of the screen. *)
THEOREM TextStandsInOrder == Spec => []TextInOrder
<1>1. ConsoleInv => TextInOrder
  BY DEF ConsoleInv, TextInOrder, Placed, Size, Cursor
<1> QED
  BY InvInit, InvStep, <1>1, PTL DEF Spec
=============================================================================
