------------------------------ MODULE Ssd1306 ------------------------------
(***************************************************************************)
(* The SSD1306 display driver ssd1306_drv.c: probe sends a table of        *)
(* commands and registers /dev/ssd1306, write(2) clears the screen and     *)
(* prints the text, remove clears it and switches the display off; one I2C *)
(* transfer at a time and without a lock.  The driver tracks the display's *)
(* cursor in cursor_page and cursor_col; the display has its own, set by   *)
(* three commands and moved on by data.  A transfer may fail, with any     *)
(* part of it done.  Writes, and remove, may be interleaved with others at *)
(* every transfer, and at putchar's look at the cursor.                    *)
(***************************************************************************)
EXTENDS Naturals, Sequences, FiniteSets

CONSTANTS
    Writers,       \* processes
    Core,          \* the process that binds and unbinds the driver
    Texts,         \* what each writes: sequences of characters and NL
    NL,            \* the newline
    Width, Pages,  \* columns and pages of the display (128 and 8)
    FontWidth,     \* columns of a glyph (5); one blank column follows it
    Nibble,        \* columns that the low column command selects among (16)
    MaxEvents,     \* bound on the probes, writes and failures, together
    MaxInside      \* bound on the processes in the driver at a time

ASSUME DisplayAssumption ==
    /\ Width \in Nat /\ Pages \in Nat \ {0} /\ FontWidth \in Nat \ {0}
    /\ FontWidth < Width
    /\ Nibble \in Nat \ {0}
    /\ MaxEvents \in Nat /\ MaxInside \in Nat
    /\ IsFiniteSet(Writers) /\ Core \notin Writers
    /\ \A w \in Writers : \A t \in Texts[w] : t \in Seq({t[n] : n \in DOMAIN t})

VARIABLES
    ram,            \* the display's memory: page and column to what is shown
    page, col,      \* the display's own cursor
    setting,        \* the display's settings, by command
    pending,        \* the command whose argument it waits for, or NoByte
    node,           \* the device node is there
    cursor,         \* dev->cursor_page, dev->cursor_col
    job,            \* each process inside write, probe or remove: where it is,
                    \* and its locals
    alone,          \* history: who wrote last, if no write or remove overlapped
    shown,          \* history: the text of that write, once it returned success
    events          \* bound

core == <<setting, pending, node>>
vars == <<ram, page, col, cursor, job, alone, shown, events, core>>

\* A probe, a write or a failure.
Event == events < MaxEvents /\ events' = events + 1

Users == Writers \cup {Core}

Cell    == FontWidth + 1
Blank   == <<>>
Columns == 0..(Width - 1)
Rows    == 0..(Pages - 1)

\* A job: text, the index of the character, set_cursor's argument and which
\* of its commands is next.
At(w) == job[w].at
NewJob(t) == [at |-> "clear", text |-> t, i |-> 1, page |-> 0, col |-> 0, k |-> 1]
NoJob     == [NewJob(<<>>) EXCEPT !.at = "idle"]
Inside == {w \in Users : At(w) # "idle"}
\* What follows the last character, or a clear: return; probe registers the
\* node, remove switches the display off.
Finish(w, j) ==
    IF w # Core THEN NoJob
    ELSE [j EXCEPT !.at = IF node THEN "off" ELSE "register"]

-----------------------------------------------------------------------------
(* Transfers.                                                              *)

\* ssd1306_write_data: the display stores the bytes at its cursor and moves
\* the column on, wrapping inside the page.  n of them arrive.
Data(bytes, n) ==
    /\ ram' = [ram EXCEPT ![page] = [c \in Columns |->
                 LET d == (c - col + Width) % Width
                 IN  IF d < n THEN bytes[d + 1] ELSE ram[page][c]]]
    /\ col' = (col + n) % Width
    /\ UNCHANGED page

\* The commands of ssd1306_set_cursor(p, c): page, low and high column.
Command(k, p, c) ==
    /\ page' = IF k = 1 THEN p ELSE page
    /\ col'  = CASE k = 1 -> col
                 [] k = 2 -> (col \div Nibble) * Nibble + (c % Nibble)
                 [] k = 3 -> (c \div Nibble) * Nibble + (col % Nibble)
    /\ UNCHANGED ram

\* The process goes on at "job", or its write returns.
Continue(w, j) ==
    /\ job' = [job EXCEPT ![w] = j]
    /\ shown' = IF j.at = "idle" /\ w \in alone THEN {job[w].text} ELSE shown
    /\ UNCHANGED <<alone, events, core>>

\* The transfer fails and so does the write, or the probe; remove goes on.
Return(w) ==
    /\ Event
    /\ job' = [job EXCEPT ![w] = IF w = Core /\ node THEN Finish(w, @) ELSE NoJob]
    /\ UNCHANGED <<cursor, alone, shown, core>>

-----------------------------------------------------------------------------
(* ssd1306_fop_write.                                                      *)

\* Trailing newlines are stripped; the screen is cleared in any case.
Write(w, t) ==
    /\ node /\ At(w) = "idle" /\ t # <<>>
    /\ Event /\ Cardinality(Inside) < MaxInside
    /\ LET last == {n \in DOMAIN t : \A m \in n..Len(t) : t[m] = NL}
       IN  job' = [job EXCEPT ![w] = NewJob(SubSeq(t, 1, Len(t) - Cardinality(last)))]
    /\ alone' = IF Inside = {} THEN {w} ELSE {}
    /\ shown' = {}
    /\ UNCHANGED <<ram, page, col, cursor, core>>

\* The character after this one, or the end of the write.
NextChar(w, j) ==
    IF j.i >= Len(j.text) THEN Finish(w, j) ELSE [j EXCEPT !.at = "char", !.i = @ + 1]

\* After set_cursor: clear's data, or after clear the first character, or the
\* next character after a newline, or the glyph.  Its locals are gone by then.
AfterCursor(w, j) ==
    LET back == [j EXCEPT !.page = 0, !.col = 0, !.k = 1]
    IN  CASE j.at = "clear" -> [j EXCEPT !.at = "zeros"]
          [] j.at = "home"  -> IF j.text = <<>> THEN Finish(w, back) ELSE [back EXCEPT !.at = "char"]
          [] j.at = "line"  -> IF j.text[j.i] = NL THEN NextChar(w, back) ELSE [back EXCEPT !.at = "glyph"]

\* ssd1306_set_cursor: the driver's cursor changes after the third command.
SetCursor(w) ==
    LET j == job[w]
    IN  /\ j.at \in {"clear", "home", "line"}
        /\ Command(j.k, j.page, j.col)
        /\ IF j.k < 3
             THEN UNCHANGED cursor /\ Continue(w, [j EXCEPT !.k = @ + 1])
             ELSE /\ cursor' = [page |-> j.page, col |-> j.col]
                  /\ Continue(w, AfterCursor(w, j))

SetCursorFails(w) ==
    /\ At(w) \in {"clear", "home", "line"}
    /\ Command(job[w].k, job[w].page, job[w].col) \/ UNCHANGED <<ram, page, col>>
    /\ Return(w)

\* Mutation: the last page is not cleared.
ClearPageShort(w) ==
    LET j == job[w]
        n == j.page + 1
    IN  /\ j.at = "zeros"
        /\ Data([c \in 1..Width |-> Blank], Width)
        /\ Continue(w, IF n < Pages - 1 THEN [j EXCEPT !.at = "clear", !.page = n, !.k = 1]
                       ELSE [j EXCEPT !.at = "home", !.page = 0, !.k = 1])
        /\ UNCHANGED cursor

\* ssd1306_clear: zeros for each page, then back to the top left.
ClearPage(w) ==
    LET j == job[w]
        n == j.page + 1
    IN  /\ j.at = "zeros"
        /\ Data([c \in 1..Width |-> Blank], Width)
        /\ Continue(w, IF n < Pages THEN [j EXCEPT !.at = "clear", !.page = n, !.k = 1]
                       ELSE [j EXCEPT !.at = "home", !.page = 0, !.k = 1])
        /\ UNCHANGED cursor

ClearPageFails(w) ==
    /\ At(w) = "zeros"
    /\ \E n \in 0..Width : Data([c \in 1..Width |-> Blank], n)
    /\ Return(w)

Fits == cursor.col + Cell <= Width

\* ssd1306_putchar: a newline, or a character that does not fit, starts the
\* next page; after the last page comes the first.
PutChar(w) ==
    LET j == job[w]
        p == (cursor.page + 1) % Pages
    IN  /\ j.at = "char"
        /\ IF j.text[j.i] = NL \/ ~Fits
             THEN /\ cursor' = [page |-> p, col |-> 0]
                  /\ Continue(w, [j EXCEPT !.at = "line", !.page = p, !.col = 0, !.k = 1])
             ELSE UNCHANGED cursor /\ Continue(w, [j EXCEPT !.at = "glyph"])
        /\ UNCHANGED <<ram, page, col>>

Glyph(ch) == [c \in 1..FontWidth |-> <<ch, c>>]

PutGlyph(w) ==
    LET j == job[w]
    IN  /\ j.at = "glyph"
        /\ Data(Glyph(j.text[j.i]), FontWidth)
        /\ Continue(w, [j EXCEPT !.at = "space"])
        /\ UNCHANGED cursor

\* Mutation: the driver's cursor forgets the blank column.
PutSpaceShort(w) ==
    /\ At(w) = "space"
    /\ Data(<<Blank>>, 1)
    /\ cursor' = [cursor EXCEPT !.col = @ + FontWidth]
    /\ Continue(w, NextChar(w, job[w]))

\* The spacing, and the driver's cursor.
PutSpace(w) ==
    /\ At(w) = "space"
    /\ Data(<<Blank>>, 1)
    /\ cursor' = [cursor EXCEPT !.col = @ + Cell]
    /\ Continue(w, NextChar(w, job[w]))

PutFails(w) ==
    /\ \/ At(w) = "glyph"
          /\ \E n \in 0..FontWidth : Data(Glyph(job[w].text[job[w].i]), n)
       \/ At(w) = "space" /\ \E n \in 0..1 : Data(<<Blank>>, n)
    /\ Return(w)

-----------------------------------------------------------------------------
(* ssd1306_probe and ssd1306_remove.                                       *)

\* ssd1306_init_cmds; the commands in WithArgument take the byte after them.
InitCmds == <<\hAE, \hD5, \h80, \hA8, \h3F, \hD3, \h00, \h40, \h8D, \h14, \h20, \h02,
              \hA1, \hC8, \hDA, \h12, \h81, \hCF, \hD9, \hF1, \hDB, \h40,
              \hA4, \hA6, \h2E, \hAF>>
WithArgument == {\hD5, \hA8, \hD3, \h8D, \h20, \hDA, \h81, \hD9, \hDB}
\* On and off are one setting.
Family(cmd) == IF cmd = \hAF THEN \hAE ELSE cmd
NoByte      == 256
Families    == WithArgument \cup {\h40, \hA1, \hC8, \hA4, \hA6, \h2E, \hAE}

\* What the display does with a command byte, or with an argument.
Receive(b) ==
    /\ setting' = IF pending # NoByte THEN [setting EXCEPT ![pending] = b]
                  ELSE IF b \in WithArgument THEN setting
                  ELSE [setting EXCEPT ![Family(b)] = b]
    /\ pending' = IF pending = NoByte /\ b \in WithArgument THEN b ELSE NoByte
    /\ UNCHANGED <<ram, page, col>>

\* The driver core goes on at "to"; the rest is as it was.
CoreGoes(from, to) ==
    /\ At(Core) = from
    /\ job' = [job EXCEPT ![Core] = to]

\* A fresh struct ssd1306_dev.
Probe ==
    /\ ~node /\ CoreGoes("idle", [NewJob(<<>>) EXCEPT !.at = "init"])
    /\ Event
    /\ cursor' = [page |-> 0, col |-> 0]
    /\ UNCHANGED <<ram, page, col, setting, pending, node, alone, shown>>

\* ssd1306_init_display: the table, byte by byte, and clear.
InitCmd ==
    LET j == job[Core]
    IN  /\ CoreGoes("init", IF j.k < Len(InitCmds) THEN [j EXCEPT !.k = @ + 1]
                            ELSE NewJob(<<>>))
        /\ Receive(InitCmds[j.k])
        /\ UNCHANGED <<cursor, node, alone, shown, events>>

\* Mutation: a byte that failed is left out.
InitCmdSkips ==
    LET j == job[Core]
    IN  /\ CoreGoes("init", IF j.k < Len(InitCmds) THEN [j EXCEPT !.k = @ + 1]
                            ELSE NewJob(<<>>))
        /\ UNCHANGED <<ram, page, col, setting, pending>>
        /\ Event
        /\ UNCHANGED <<cursor, node, alone, shown>>

InitCmdFails ==
    /\ CoreGoes("init", NoJob)
    /\ Receive(InitCmds[job[Core].k]) \/ UNCHANGED <<ram, page, col, setting, pending>>
    /\ Event
    /\ UNCHANGED <<cursor, node, alone, shown>>

\* misc_register; if it fails so does probe.
Register ==
    /\ CoreGoes("register", NoJob)
    /\ \/ node' = TRUE /\ UNCHANGED events
       \/ node' = FALSE /\ Event
    /\ UNCHANGED <<ram, page, col, cursor, setting, pending, alone, shown>>

\* ssd1306_remove begins with clear.
Remove ==
    /\ node /\ CoreGoes("idle", NewJob(<<>>))
    /\ Cardinality(Inside) < MaxInside
    /\ alone' = {} /\ shown' = {}
    /\ UNCHANGED <<ram, page, col, cursor, core, events>>

\* Display off; nobody looks at an error.
Off ==
    /\ CoreGoes("off", [job[Core] EXCEPT !.at = "deregister"])
    /\ \/ Receive(\hAE) /\ UNCHANGED events
       \/ Event
          /\ UNCHANGED <<ram, page, col, setting, pending>>
    /\ UNCHANGED <<cursor, node, alone, shown>>

\* misc_deregister; then the device structure is freed, under a write that is
\* still going on ("broken": nothing is said of what that does).
Deregister ==
    /\ CoreGoes("deregister", IF Inside # {Core} THEN [NoJob EXCEPT !.at = "broken"] ELSE NoJob)
    /\ node' = FALSE
    /\ UNCHANGED <<ram, page, col, cursor, setting, pending, alone, shown, events>>

-----------------------------------------------------------------------------
\* After power on: any pixels, and settings that no byte of the driver chose.
Junk == <<"junk">>

Init ==
    /\ ram = [p \in Rows |-> [c \in Columns |-> Junk]]
    /\ page = 0 /\ col = 0 /\ cursor = [page |-> 0, col |-> 0]
    /\ setting = [f \in Families |-> NoByte] /\ pending = NoByte /\ node = FALSE
    /\ job = [w \in Users |-> NoJob]
    /\ alone = {} /\ shown = {} /\ events = 0

Next ==
    /\ At(Core) # "broken"
    /\ \/ \E w \in Writers : \E t \in Texts[w] : Write(w, t)
       \/ \E w \in Users :
            \/ SetCursor(w) \/ ClearPage(w) \/ PutChar(w) \/ PutGlyph(w) \/ PutSpace(w)
            \/ SetCursorFails(w) \/ ClearPageFails(w) \/ PutFails(w)
       \/ Probe \/ InitCmd \/ InitCmdFails \/ Register
       \/ Remove \/ Off \/ Deregister

Spec == Init /\ [][Next]_vars

-----------------------------------------------------------------------------
(* Properties.                                                             *)

Places == {"idle", "clear", "zeros", "home", "char", "line", "glyph", "space",
           "init", "register", "off", "deregister", "broken"}

\* The type of every variable.
TypeOK ==
    /\ \A p \in Rows : DOMAIN ram[p] = Columns
    /\ page \in Rows /\ col \in Columns
    /\ cursor \in [page : Rows, col : 0..(Width + Cell * (Cardinality(Writers) - 1))]
    /\ \A w \in Users :
         /\ At(w) \in Places
         /\ At(w) \in {"char", "line", "glyph", "space"} => job[w].i \in DOMAIN job[w].text
         /\ job[w].page \in Rows /\ job[w].col \in Columns /\ job[w].k \in DOMAIN InitCmds
    /\ DOMAIN setting = Families /\ pending \in WithArgument \cup {NoByte}
    /\ node \in BOOLEAN
    /\ alone \subseteq Writers /\ Cardinality(alone) <= 1 /\ Cardinality(shown) <= 1
    /\ events \in 0..MaxEvents

\* The layout of a text, independent of cursors: a character's column is the
\* number of characters before it in its paragraph, in lines of PerLine; its
\* row counts the newlines and the full lines before it.  When the screen
\* overflows the last character at a place wins.
PerLine == Width \div Cell
Chars(t) == {n \in DOMAIN t : t[n] # NL}
InParagraph(t, n) == Cardinality({m \in Chars(t) : m < n /\ \A x \in m..n : t[x] # NL})
Breaks(t, n) == t[n] = NL \/ (InParagraph(t, n) > 0 /\ InParagraph(t, n) % PerLine = 0)
Row(t, n)  == Cardinality({m \in 1..n : Breaks(t, m)}) % Pages
Left(t, n) == (InParagraph(t, n) % PerLine) * Cell
Layout(t) ==
    [p \in Rows |-> [c \in Columns |->
        LET over == {n \in Chars(t) : Row(t, n) = p /\ Left(t, n) <= c /\ c < Left(t, n) + Cell}
            last == CHOOSE n \in over : \A m \in over : m <= n
        IN  IF over = {} \/ c = Left(t, last) + FontWidth THEN Blank
            ELSE <<t[last], c - Left(t, last) + 1>>]]

\* The settings the table asks for: a byte is an argument if the byte before it
\* is a command that takes one.
Wanted ==
    LET Arg(n) == n > 1 /\ InitCmds[n - 1] \in WithArgument
    IN  [f \in Families |->
           LET n == CHOOSE m \in DOMAIN InitCmds :
                      /\ ~Arg(m) /\ Family(InitCmds[m]) = f
                      /\ \A l \in DOMAIN InitCmds :
                           ~Arg(l) /\ Family(InitCmds[l]) = f => l <= m
           IN  IF f \in WithArgument THEN InitCmds[n + 1] ELSE InitCmds[n]]

\* Once /dev/ssd1306 is there the display is on, set up as the table says and
\* showing no junk, even if an earlier probe failed between a command and its
\* argument (ssd1306_drv.c:277-325, 385-398).
NodeMeansReady ==
    node /\ At(Core) \notin {"deregister", "broken"} =>
        /\ setting = Wanted /\ pending = NoByte
        /\ \A p \in Rows : \A c \in Columns : ram[p][c] # Junk

\* A write that no other one and no remove overlapped and that returns success
\* shows its text and nothing else, whatever failed transfers and overlapping
\* writes came before it (ssd1306_drv.c:183-270, 346-359).
SuccessShowsText ==
    \A t \in shown : ram = Layout(t)

\* The driver's idea of the cursor is the display's whenever a write that no
\* other one overlaps is about to print a character, even after failures and
\* overlapping writes (ssd1306_drv.c:202-204, 228-270).
CursorInSync ==
    \A w \in alone :
        At(w) = "char" => page = cursor.page /\ col = cursor.col % Width
=============================================================================
