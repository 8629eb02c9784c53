--------------------------- MODULE Ssd1306Proofs ---------------------------
(***************************************************************************)
(* The display driver for any number of writers, any texts and any size of *)
(* the display: a write that nothing overlaps has the cursor right and     *)
(* shows its text, and a device node stands for a display that is set up   *)
(* and cleared.                                                            *)
(***************************************************************************)
EXTENDS Ssd1306, Integers, FiniteSetTheorems, TLAPS

-----------------------------------------------------------------------------
(* Jobs.                                                                   *)

Fields       == {"at", "text", "i", "page", "col", "k"}
Moving       == {"clear", "home", "line"}
WriterPlaces == {"idle", "clear", "zeros", "home", "char", "line", "glyph", "space"}
CorePlaces   == {"idle", "init", "clear", "zeros", "home", "register", "off",
                 "deregister", "broken"}

\* What a job is like while the node is there or is not.  set_cursor's column
\* is always 0, and the driver core prints nothing.
JobOK(w, j, there) ==
    /\ DOMAIN j = Fields /\ j.col = 0 /\ j.page \in Rows
    /\ j.at \in Moving => j.k \in 1..3
    /\ w \in Writers => j.at \in WriterPlaces
    /\ w = Core => /\ j.at \in CorePlaces /\ j.text = <<>>
                   /\ j.at = "init" => j.k \in 1..26
                   /\ j.at \in {"init", "register"} => ~there
                   /\ j.at \in {"off", "deregister"} => there

JobInv ==
    /\ DOMAIN job = Users /\ node \in BOOLEAN
    /\ \A w \in Users : JobOK(w, job[w], node)
    /\ ~node /\ At(Core) # "broken" => \A w \in Writers : At(w) = "idle"
    /\ alone \subseteq Writers

\* The display and the driver's cursor.
CursorInv ==
    /\ page \in Rows /\ col \in Nat
    /\ cursor \in [page : Rows, col : Nat]
    /\ DOMAIN ram = Rows /\ \A p \in Rows : DOMAIN ram[p] = Columns

\* The process that has the driver to itself: a writer that nobody overlapped,
\* or the driver core in probe.
Probing == ~node /\ At(Core) \notin {"idle", "broken"}
Sole(w) == At(w) # "idle" /\ (w \in alone \/ (w = Core /\ Probing))
SoleInv == \A w \in Users : Sole(w) => \A u \in Users \ {w} : At(u) = "idle"

LEMMA Sizes ==
    /\ Width \in Nat /\ Pages \in Nat /\ FontWidth \in Nat /\ Nibble \in Nat
    /\ Width > 0 /\ Pages > 0 /\ FontWidth > 0 /\ FontWidth < Width /\ Nibble > 0
    /\ Core \notin Writers /\ Users = Writers \cup {Core}
    /\ Rows = 0..(Pages - 1) /\ Columns = 0..(Width - 1) /\ Cell = FontWidth + 1
    /\ 0 \in Rows
BY DisplayAssumption DEF DisplayAssumption, Users, Rows, Columns, Cell

LEMMA ModNat ==
    ASSUME NEW x \in Int, NEW n \in Nat, n > 0
    PROVE  x % n \in 0..(n - 1)
OBVIOUS

\* A number below the modulus, and one that is off by it.
LEMMA ModSmall ==
    ASSUME NEW x \in Nat, NEW n \in Nat, x < n
    PROVE  x % n = x /\ (x + n) % n = x
OBVIOUS

\* Quotient and remainder, and the successor of a remainder.
LEMMA ModOf ==
    ASSUME NEW q \in Nat, NEW n \in Nat, NEW s \in Nat, s < n
    PROVE  (q * n + s) % n = s /\ (q * n + s) \div n = q
<1>1. q * n \in Nat
  OBVIOUS
<1>2. \A k \in Nat : k * n + s \in Nat
  OBVIOUS
<1> QED
  BY <1>1, <1>2, Z3

LEMMA ModNext ==
    ASSUME NEW a \in Nat, NEW n \in Nat, n > 0
    PROVE  (a + 1) % n = ((a % n) + 1) % n
<1> DEFINE q == a \div n
           r == a % n
<1>1. q \in Nat /\ r \in 0..(n - 1) /\ a = q * n + r
  OBVIOUS
<1> HIDE DEF q, r
<1>2. CASE r + 1 < n
  <2>1. a + 1 = q * n + (r + 1)
    BY <1>1
  <2>2. (q * n + (r + 1)) % n = r + 1
    BY <1>1, <1>2, ModOf
  <2>3. (r + 1) % n = r + 1
    BY <1>1, <1>2, ModSmall
  <2> QED
    BY <2>1, <2>2, <2>3 DEF r
<1>3. CASE r = n - 1
  <2>1. (q + 1) * n = q * n + n
    BY <1>1
  <2>2. a + 1 = (q + 1) * n + 0
    BY <1>1, <1>3, <2>1
  <2>3. ((q + 1) * n + 0) % n = 0
    BY <1>1, ModOf
  <2>4. (r + 1) % n = 0
    <3>1. r + 1 = n /\ 1 * n + 0 = n
      BY <1>1, <1>3
    <3>2. (1 * n + 0) % n = 0
      BY ModOf
    <3> QED
      BY <3>1, <3>2
  <2> QED
    BY <2>2, <2>3, <2>4 DEF r
<1> QED
  BY <1>1, <1>2, <1>3

\* One field at a time.
LEMMA NewJobIs ==
    ASSUME NEW t
    PROVE  /\ DOMAIN NewJob(t) = Fields /\ NewJob(t).at = "clear" /\ NewJob(t).text = t
           /\ NewJob(t).i = 1 /\ NewJob(t).page = 0 /\ NewJob(t).col = 0 /\ NewJob(t).k = 1
BY DEF NewJob, Fields

LEMMA PutAtIs ==
    ASSUME NEW j, DOMAIN j = Fields, NEW a
    PROVE  LET e == [j EXCEPT !.at = a]
           IN  /\ DOMAIN e = Fields /\ e.at = a /\ e.text = j.text
               /\ e.i = j.i /\ e.page = j.page /\ e.col = j.col /\ e.k = j.k
BY DEF Fields

LEMMA NoJobIs ==
    /\ DOMAIN NoJob = Fields /\ NoJob.at = "idle" /\ NoJob.text = <<>>
    /\ NoJob.i = 1 /\ NoJob.page = 0 /\ NoJob.col = 0 /\ NoJob.k = 1
BY NewJobIs, PutAtIs DEF NoJob

LEMMA PutKIs ==
    ASSUME NEW j, DOMAIN j = Fields
    PROVE  LET e == [j EXCEPT !.k = @ + 1]
           IN  /\ DOMAIN e = Fields /\ e.at = j.at /\ e.text = j.text
               /\ e.i = j.i /\ e.page = j.page /\ e.col = j.col /\ e.k = j.k + 1
BY DEF Fields

LEMMA CursorJobIs ==
    ASSUME NEW j, DOMAIN j = Fields, NEW a, NEW p
    PROVE  LET e == [j EXCEPT !.at = a, !.page = p, !.k = 1]
               f == [j EXCEPT !.at = a, !.page = p, !.col = 0, !.k = 1]
           IN  /\ DOMAIN e = Fields /\ e.at = a /\ e.text = j.text
               /\ e.i = j.i /\ e.page = p /\ e.col = j.col /\ e.k = 1
               /\ DOMAIN f = Fields /\ f.at = a /\ f.text = j.text
               /\ f.i = j.i /\ f.page = p /\ f.col = 0 /\ f.k = 1
BY DEF Fields

LEMMA BackIs ==
    ASSUME NEW j, DOMAIN j = Fields
    PROVE  LET e == [j EXCEPT !.page = 0, !.col = 0, !.k = 1]
           IN  /\ DOMAIN e = Fields /\ e.at = j.at /\ e.text = j.text
               /\ e.i = j.i /\ e.page = 0 /\ e.col = 0 /\ e.k = 1
BY DEF Fields

LEMMA NextIs ==
    ASSUME NEW j, DOMAIN j = Fields, NEW a
    PROVE  LET e == [j EXCEPT !.at = a, !.i = @ + 1]
           IN  /\ DOMAIN e = Fields /\ e.at = a /\ e.text = j.text
               /\ e.i = j.i + 1 /\ e.page = j.page /\ e.col = j.col /\ e.k = j.k
BY DEF Fields

-----------------------------------------------------------------------------
(* The table of commands.                                                  *)

\* Byte n is the argument of the byte before it; byte m is the last that
\* commands setting f.
ArgAt(n) == n > 1 /\ InitCmds[n - 1] \in WithArgument
IsLast(m, f) ==
    /\ ~ArgAt(m) /\ Family(InitCmds[m]) = f
    /\ \A l \in DOMAIN InitCmds : ~ArgAt(l) /\ Family(InitCmds[l]) = f => l <= m
LastOf(f) == CHOOSE m \in DOMAIN InitCmds : IsLast(m, f)

LEMMA InitTable ==
    /\ DOMAIN InitCmds = 1..26 /\ Len(InitCmds) = 26
    /\ \A n \in 1..26 : InitCmds[n] \in 0..255
    /\ \A n \in 1..26 : ArgAt(n) => InitCmds[n] \notin WithArgument
    /\ \A n \in 1..26 : ~ArgAt(n) => Family(InitCmds[n]) \in Families
    /\ InitCmds[1] \notin WithArgument /\ InitCmds[26] \notin WithArgument
BY DEF InitCmds, ArgAt, WithArgument, Family, Families

LEMMA InitLen == Len(InitCmds) = 26
BY InitTable

LEMMA InitByte == ASSUME NEW n \in 1..26 PROVE InitCmds[n] \in 0..255
BY InitTable

LEMMA Lasts == \A f \in Families : \E m \in 2..26 : IsLast(m, f)
<1> USE DEF IsLast, ArgAt, InitCmds, Family, WithArgument
<1>1. IsLast(2, \hD5)
  OBVIOUS
<1>2. IsLast(4, \hA8)
  OBVIOUS
<1>3. IsLast(6, \hD3) /\ IsLast(9, \h8D) /\ IsLast(11, \h20)
  OBVIOUS
<1>4. IsLast(15, \hDA) /\ IsLast(17, \h81) /\ IsLast(19, \hD9) /\ IsLast(21, \hDB)
  OBVIOUS
<1>5. IsLast(8, \h40) /\ IsLast(13, \hA1) /\ IsLast(14, \hC8) /\ IsLast(23, \hA4)
  OBVIOUS
<1>6. IsLast(24, \hA6) /\ IsLast(25, \h2E) /\ IsLast(26, \hAE)
  OBVIOUS
<1> QED
  BY <1>1, <1>2, <1>3, <1>4, <1>5, <1>6 DEF Families

LEMMA WantedIs ==
    ASSUME NEW f \in Families
    PROVE  Wanted[f] = IF f \in WithArgument THEN InitCmds[LastOf(f) + 1] ELSE InitCmds[LastOf(f)]
BY DEF Wanted, LastOf, IsLast, ArgAt

LEMMA LastOfIs ==
    ASSUME NEW f \in Families
    PROVE  LastOf(f) \in 2..26 /\ IsLast(LastOf(f), f)
<1>1. \E m \in DOMAIN InitCmds : IsLast(m, f) /\ m > 1
  BY Lasts, InitTable
<1>2. LastOf(f) \in DOMAIN InitCmds /\ IsLast(LastOf(f), f)
  BY <1>1 DEF LastOf
<1> QED
  BY <1>1, <1>2, InitTable DEF IsLast

\* What the operators make of a job.
LEMMA FinishIs ==
    ASSUME NEW w, NEW j, DOMAIN j = Fields
    PROVE  /\ w # Core => Finish(w, j) = NoJob
           /\ w = Core => /\ DOMAIN Finish(w, j) = Fields
                          /\ Finish(w, j).at = IF node THEN "off" ELSE "register"
                          /\ Finish(w, j).text = j.text /\ Finish(w, j).i = j.i
                          /\ Finish(w, j).page = j.page /\ Finish(w, j).col = j.col
                          /\ Finish(w, j).k = j.k
<1>1. CASE w # Core
  BY <1>1 DEF Finish
<1>2. CASE w = Core
  <2>1. Finish(w, j) = [j EXCEPT !.at = IF node THEN "off" ELSE "register"]
    BY <1>2 DEF Finish
  <2> QED
    BY <2>1, <1>2, PutAtIs
<1> QED
  BY <1>1, <1>2

LEMMA NoJobOK ==
    ASSUME NEW w \in Users, NEW there \in BOOLEAN
    PROVE  JobOK(w, NoJob, there)
BY NoJobIs, Sizes DEF JobOK, Moving, WriterPlaces, CorePlaces

LEMMA NewJobOK ==
    ASSUME NEW w \in Users, NEW t, w = Core => t = <<>>, NEW there \in BOOLEAN
    PROVE  JobOK(w, NewJob(t), there)
BY NewJobIs, Sizes DEF JobOK, Moving, WriterPlaces, CorePlaces

LEMMA FinishOK ==
    ASSUME NEW w \in Users, NEW j, NEW there \in BOOLEAN, JobOK(w, j, there), there = node
    PROVE  JobOK(w, Finish(w, j), there)
<1>1. CASE w # Core
  BY <1>1, FinishIs, NoJobOK DEF JobOK
<1>2. CASE w = Core
  <2>1. DOMAIN j = Fields /\ j.col = 0 /\ j.page \in Rows /\ j.text = <<>>
    BY <1>2 DEF JobOK
  <2> DEFINE f == Finish(w, j)
  <2>2. /\ DOMAIN f = Fields /\ f.at = IF there THEN "off" ELSE "register"
        /\ f.text = <<>> /\ f.page \in Rows /\ f.col = 0
    BY <2>1, <1>2, FinishIs
  <2>3. f.at \in {"off", "register"}
    BY <2>2
  <2>4. w \notin Writers
    BY <1>2, Sizes
  <2> HIDE DEF f
  <2>5. JobOK(w, f, there)
    BY <2>2, <2>3, <2>4 DEF JobOK, Moving, CorePlaces
  <2> QED
    BY <2>5 DEF f
<1> QED
  BY <1>1, <1>2

LEMMA NextCharOK ==
    ASSUME NEW w \in Users, NEW j, NEW there \in BOOLEAN, JobOK(w, j, there), there = node,
           w # Core
    PROVE  JobOK(w, NextChar(w, j), there)
<1>1. CASE j.i >= Len(j.text)
  BY <1>1, FinishOK DEF NextChar
<1>2. CASE ~(j.i >= Len(j.text))
  <2> DEFINE e == [j EXCEPT !.at = "char", !.i = @ + 1]
  <2>1. DOMAIN e = Fields /\ e.at = "char" /\ e.page = j.page /\ e.col = j.col
    BY NextIs DEF JobOK
  <2>2. NextChar(w, j) = e
    BY <1>2 DEF NextChar
  <2> HIDE DEF e
  <2>3. JobOK(w, e, there)
    BY <2>1 DEF JobOK, Moving, WriterPlaces
  <2> QED
    BY <2>2, <2>3
<1> QED
  BY <1>1, <1>2

\* The three jobs that set_cursor serves.
LEMMA AfterClear ==
    ASSUME NEW w, NEW j, j.at = "clear"
    PROVE  AfterCursor(w, j) = [j EXCEPT !.at = "zeros"]
BY Zenon DEF AfterCursor

LEMMA AfterHome ==
    ASSUME NEW w, NEW j, j.at = "home"
    PROVE  AfterCursor(w, j) =
             IF j.text = <<>> THEN Finish(w, [j EXCEPT !.page = 0, !.col = 0, !.k = 1])
             ELSE [[j EXCEPT !.page = 0, !.col = 0, !.k = 1] EXCEPT !.at = "char"]
<1>1. j.at # "clear" /\ j.at # "line"
  OBVIOUS
<1> QED
  BY <1>1, Zenon DEF AfterCursor

LEMMA AfterLine ==
    ASSUME NEW w, NEW j, j.at = "line"
    PROVE  AfterCursor(w, j) =
             IF j.text[j.i] = NL THEN NextChar(w, [j EXCEPT !.page = 0, !.col = 0, !.k = 1])
             ELSE [[j EXCEPT !.page = 0, !.col = 0, !.k = 1] EXCEPT !.at = "glyph"]
<1>1. j.at # "clear" /\ j.at # "home"
  OBVIOUS
<1> QED
  BY <1>1, Zenon DEF AfterCursor

LEMMA BackOK ==
    ASSUME NEW w \in Users, NEW j, NEW there \in BOOLEAN, JobOK(w, j, there),
           j.at \in Moving
    PROVE  JobOK(w, [j EXCEPT !.page = 0, !.col = 0, !.k = 1], there)
<1> DEFINE e == [j EXCEPT !.page = 0, !.col = 0, !.k = 1]
<1>1. /\ DOMAIN e = Fields /\ e.at = j.at /\ e.text = j.text
      /\ e.page = 0 /\ e.col = 0 /\ e.k = 1
  BY BackIs DEF JobOK
<1> HIDE DEF e
<1>2. JobOK(w, e, there)
  BY <1>1, Sizes DEF JobOK, Moving
<1> QED
  BY <1>2 DEF e

\* A writer's job at another of its places.
LEMMA PutAtOK ==
    ASSUME NEW w \in Users, NEW j, NEW there \in BOOLEAN, JobOK(w, j, there),
           NEW a \in {"zeros", "char", "glyph", "space"}, w = Core => a = "zeros"
    PROVE  JobOK(w, [j EXCEPT !.at = a], there)
<1> DEFINE e == [j EXCEPT !.at = a]
<1>1. DOMAIN e = Fields /\ e.at = a /\ e.text = j.text /\ e.page = j.page /\ e.col = j.col
  BY PutAtIs DEF JobOK
<1> HIDE DEF e
<1>2. JobOK(w, e, there)
  BY <1>1 DEF JobOK, Moving, WriterPlaces, CorePlaces
<1> QED
  BY <1>2 DEF e

LEMMA AfterCursorOK ==
    ASSUME NEW w \in Users, NEW j, NEW there \in BOOLEAN, JobOK(w, j, there), there = node,
           j.at \in Moving
    PROVE  JobOK(w, AfterCursor(w, j), there)
<1> DEFINE back == [j EXCEPT !.page = 0, !.col = 0, !.k = 1]
<1>1. JobOK(w, back, there)
  BY BackOK, Zenon
<1>2. w = Core => j.text = <<>> /\ j.at # "line"
  BY DEF JobOK, CorePlaces
<1> HIDE DEF back
<1>3. CASE j.at = "clear"
  <2>1. AfterCursor(w, j) = [j EXCEPT !.at = "zeros"]
    BY <1>3, AfterClear, Zenon
  <2>2. JobOK(w, [j EXCEPT !.at = "zeros"], there)
    BY PutAtOK
  <2> QED
    BY <2>1, <2>2, Zenon
<1>4. CASE j.at = "home"
  <2>1. AfterCursor(w, j) = IF j.text = <<>> THEN Finish(w, back) ELSE [back EXCEPT !.at = "char"]
    BY <1>4, AfterHome, Zenon DEF back
  <2>2. CASE j.text = <<>>
    BY <2>1, <2>2, <1>1, FinishOK, Zenon
  <2>3. CASE j.text # <<>>
    <3>1. w # Core
      BY <2>3, <1>2
    <3>2. JobOK(w, [back EXCEPT !.at = "char"], there)
      BY <3>1, <1>1, PutAtOK
    <3> QED
      BY <2>1, <2>3, <3>2, Zenon
  <2> QED
    BY <2>2, <2>3
<1>5. CASE j.at = "line"
  <2>1. AfterCursor(w, j) = IF j.text[j.i] = NL THEN NextChar(w, back) ELSE [back EXCEPT !.at = "glyph"]
    BY <1>5, AfterLine, Zenon DEF back
  <2>2. w # Core
    BY <1>2, <1>5
  <2>3. JobOK(w, NextChar(w, back), there)
    BY <2>2, <1>1, NextCharOK
  <2>4. JobOK(w, [back EXCEPT !.at = "glyph"], there)
    BY <2>2, <1>1, PutAtOK
  <2> QED
    BY <2>1, <2>3, <2>4
<1> QED
  BY <1>3, <1>4, <1>5 DEF Moving

-----------------------------------------------------------------------------
(* A step of one process inside the driver.                                *)

Moves(u, j) ==
    /\ At(u) # "idle" /\ job' = [job EXCEPT ![u] = j]
    /\ node' = node /\ alone' = alone

Transfer(u) ==
    \/ SetCursor(u) \/ ClearPage(u) \/ PutChar(u) \/ PutGlyph(u) \/ PutSpace(u)
    \/ SetCursorFails(u) \/ ClearPageFails(u) \/ PutFails(u)

LEMMA ReturnMoves ==
    ASSUME JobInv, NEW u \in Users, Return(u), At(u) # "idle"
    PROVE  \E j : Moves(u, j) /\ JobOK(u, j, node)
<1> DEFINE j == IF u = Core /\ node THEN Finish(u, job[u]) ELSE NoJob
<1>1. job' = [job EXCEPT ![u] = j] /\ node' = node /\ alone' = alone
  BY DEF Return, core, JobInv
<1>2. JobOK(u, j, node)
  BY FinishOK, NoJobOK DEF JobInv
<1> HIDE DEF j
<1> QED
  BY <1>1, <1>2 DEF Moves

LEMMA NextRow == \A p \in Rows : (p + 1) % Pages \in Rows
BY Sizes, ModNat

LEMMA TransferMoves ==
    ASSUME JobInv, CursorInv, NEW u \in Users, Transfer(u)
    PROVE  \E j : Moves(u, j) /\ JobOK(u, j, node)
<1> DEFINE o == job[u]
<1>0. JobOK(u, o, node) /\ DOMAIN o = Fields /\ node \in BOOLEAN /\ o.at = At(u)
  BY DEF JobInv, JobOK, At
<1>c. u = Core => At(u) \in CorePlaces
  BY <1>0 DEF JobOK
<1>a. ASSUME NEW j, Continue(u, j), JobOK(u, j, node), At(u) # "idle"
      PROVE  Moves(u, j) /\ JobOK(u, j, node)
  BY <1>a DEF Continue, core, Moves
<1>1. CASE SetCursor(u)
  <2>0. o.at \in Moving /\ At(u) # "idle"
    BY <1>1, <1>0 DEF SetCursor, Moving
  <2>1. CASE o.k < 3
    <3> DEFINE e == [o EXCEPT !.k = @ + 1]
    <3>1. Continue(u, e)
      BY <1>1, <2>1 DEF SetCursor
    <3>2. /\ DOMAIN e = Fields /\ e.at = o.at /\ e.text = o.text
          /\ e.page = o.page /\ e.col = o.col /\ e.k = o.k + 1
      BY <1>0, PutKIs
    <3>3. o.k \in 1..3
      BY <2>0, <1>0 DEF JobOK
    <3> HIDE DEF e
    <3>4. e.k \in 1..3
      BY <3>2, <3>3, <2>1
    <3>5. JobOK(u, e, node)
      <4> HIDE DEF o
      <4> QED
        BY <3>2, <3>4, <1>0, <2>0 DEF JobOK, Moving
    <3> QED
      BY <1>a, <2>0, <3>1, <3>5
  <2>2. CASE ~(o.k < 3)
    <3>1. Continue(u, AfterCursor(u, o))
      BY <1>1, <2>2 DEF SetCursor
    <3>2. JobOK(u, AfterCursor(u, o), node)
      BY <2>0, <1>0, AfterCursorOK
    <3> QED
      BY <1>a, <2>0, <3>1, <3>2
  <2> QED
    BY <2>1, <2>2
<1>2. CASE ClearPage(u)
  <2> DEFINE n == o.page + 1
             e == IF n < Pages THEN [o EXCEPT !.at = "clear", !.page = n, !.k = 1]
                  ELSE [o EXCEPT !.at = "home", !.page = 0, !.k = 1]
  <2>1. Continue(u, e) /\ At(u) = "zeros"
    BY <1>2, <1>0 DEF ClearPage
  <2>2. o.page \in Rows /\ o.col = 0
    BY <1>0 DEF JobOK
  <2>3. /\ DOMAIN e = Fields /\ e.at = IF n < Pages THEN "clear" ELSE "home"
        /\ e.text = o.text /\ e.page = (IF n < Pages THEN n ELSE 0) /\ e.col = 0 /\ e.k = 1
    BY <1>0, <2>2, CursorJobIs
  <2>4. e.page \in Rows /\ e.at \in {"clear", "home"}
    BY <2>2, <2>3, Sizes
  <2>5. JobOK(u, e, node)
    <3> HIDE DEF o, e, n
    <3> QED
      BY <2>3, <2>4, <1>0 DEF JobOK, Moving, WriterPlaces, CorePlaces
  <2> QED
    BY <1>a, <2>1, <2>5
<1>3. CASE PutChar(u)
  <2> DEFINE p == (cursor.page + 1) % Pages
             e == [o EXCEPT !.at = "line", !.page = p, !.col = 0, !.k = 1]
             g == [o EXCEPT !.at = "glyph"]
  <2>1. At(u) = "char" /\ (Continue(u, e) \/ Continue(u, g))
    BY <1>3, <1>0 DEF PutChar
  <2>2. u # Core
    BY <2>1, <1>c DEF CorePlaces
  <2>3. JobOK(u, g, node)
    BY <1>0, <2>2, PutAtOK
  <2>4. CASE Continue(u, g)
    BY <1>a, <2>1, <2>3, <2>4
  <2>5. CASE Continue(u, e)
    <3>1. /\ DOMAIN e = Fields /\ e.at = "line" /\ e.text = o.text
          /\ e.page = p /\ e.col = 0 /\ e.k = 1
      BY <1>0, CursorJobIs
    <3>2. p \in Rows
      BY NextRow DEF CursorInv
    <3>3. JobOK(u, e, node)
      <4> HIDE DEF o, e, p
      <4> QED
        BY <3>1, <3>2, <2>2 DEF JobOK, Moving, WriterPlaces
    <3> QED
      BY <1>a, <2>1, <2>5, <3>3
  <2> QED
    BY <2>1, <2>4, <2>5
<1>4. CASE PutGlyph(u)
  <2>1. At(u) = "glyph" /\ Continue(u, [o EXCEPT !.at = "space"])
    BY <1>4, <1>0 DEF PutGlyph
  <2>2. u # Core
    BY <2>1, <1>c DEF CorePlaces
  <2>3. JobOK(u, [o EXCEPT !.at = "space"], node)
    BY <1>0, <2>2, PutAtOK
  <2> QED
    BY <1>a, <2>1, <2>3
<1>5. CASE PutSpace(u)
  <2>1. At(u) = "space" /\ Continue(u, NextChar(u, o))
    BY <1>5 DEF PutSpace
  <2>2. u # Core
    BY <2>1, <1>c DEF CorePlaces
  <2>3. JobOK(u, NextChar(u, o), node)
    BY <1>0, <2>2, NextCharOK
  <2> QED
    BY <1>a, <2>1, <2>3
<1>6. CASE SetCursorFails(u)
  BY <1>6, ReturnMoves DEF SetCursorFails
<1>7. CASE ClearPageFails(u)
  BY <1>7, ReturnMoves DEF ClearPageFails
<1>8. CASE PutFails(u)
  BY <1>8, ReturnMoves DEF PutFails
<1> QED
  BY <1>1, <1>2, <1>3, <1>4, <1>5, <1>6, <1>7, <1>8 DEF Transfer

\* What the transfers do to the display and to the driver's cursor.
LEMMA DataIs ==
    ASSUME CursorInv, NEW bytes, NEW n \in Nat, Data(bytes, n)
    PROVE  /\ page' = page /\ col' = (col + n) % Width /\ col' \in Nat
           /\ DOMAIN ram' = Rows /\ \A p \in Rows : DOMAIN ram'[p] = Columns
<1>1. page' = page /\ col' = (col + n) % Width
  BY DEF Data
<1>2. col' \in Nat
  BY <1>1, Sizes DEF CursorInv
<1> DEFINE row == [c \in Columns |->
                 LET d == (c - col + Width) % Width
                 IN  IF d < n THEN bytes[d + 1] ELSE ram[page][c]]
<1>3. ram' = [ram EXCEPT ![page] = row] /\ DOMAIN row = Columns
  BY DEF Data
<1> HIDE DEF row
<1> QED
  BY <1>1, <1>2, <1>3 DEF CursorInv

LEMMA CommandIs ==
    ASSUME CursorInv, NEW k \in 1..3, NEW p \in Rows, Command(k, p, 0)
    PROVE  /\ ram' = ram /\ page' \in Rows /\ col' \in Nat
           /\ k = 1 => page' = p /\ col' = col
           /\ k = 2 => page' = page /\ col' % Nibble = 0
           /\ k = 3 => page' = page /\ (col % Nibble = 0 => col' = 0)
<1>0. ram' = ram /\ page' = (IF k = 1 THEN p ELSE page) /\ page' \in Rows /\ col \in Nat
  BY DEF Command, CursorInv
<1>1. CASE k = 1
  <2>1. k # 2 /\ k # 3
    BY <1>1
  <2>2. col' = col
    BY <2>1, <1>1, Zenon DEF Command
  <2> QED
    BY <2>2, <1>0, <1>1
<1>2. CASE k = 2
  <2>1. k # 1 /\ k # 3
    BY <1>2
  <2>2. col' = (col \div Nibble) * Nibble + (0 % Nibble)
    BY <2>1, <1>2, Zenon DEF Command
  <2>3. 0 % Nibble = 0 /\ col \div Nibble \in Nat
    BY <1>0, Sizes
  <2>4. \A q \in Nat : q * Nibble \in Nat /\ (q * Nibble) % Nibble = 0
    BY Sizes
  <2>5. col' = (col \div Nibble) * Nibble
    BY <2>2, <2>3, <2>4
  <2> QED
    BY <2>5, <2>3, <2>4, <1>0, <1>2
<1>3. CASE k = 3
  <2>1. k # 1 /\ k # 2
    BY <1>3
  <2>2. col' = (0 \div Nibble) * Nibble + (col % Nibble)
    BY <2>1, <1>3, Zenon DEF Command
  <2>3. 0 \div Nibble = 0 /\ col % Nibble \in Nat
    BY <1>0, Sizes
  <2>4. col' = col % Nibble
    BY <2>2, <2>3, Sizes
  <2> QED
    BY <2>4, <2>3, <1>0, <1>3
<1> QED
  BY <1>1, <1>2, <1>3

-----------------------------------------------------------------------------
(* The jobs and the cursors, in every reachable state.                     *)

Base == JobInv /\ CursorInv

LEMMA BaseInit == Init => Base
<1> SUFFICES ASSUME Init PROVE Base
  OBVIOUS
<1>1. DOMAIN job = Users /\ node = FALSE /\ alone = {} /\ \A w \in Users : job[w] = NoJob
  BY DEF Init
<1>2. \A w \in Users : JobOK(w, job[w], node) /\ At(w) = "idle"
  BY <1>1, NoJobOK, NoJobIs DEF At
<1>3. JobInv
  BY <1>1, <1>2, Sizes DEF JobInv
<1>4. CursorInv
  BY Sizes DEF Init, CursorInv
<1> QED
  BY <1>3, <1>4 DEF Base

LEMMA TransferCursor ==
    ASSUME Base, NEW u \in Users, Transfer(u)
    PROVE  CursorInv'
<1> DEFINE o == job[u]
<1>0. JobOK(u, o, node) /\ o.at = At(u) /\ o.page \in Rows /\ o.col = 0
      /\ (At(u) \in Moving => o.k \in 1..3)
  BY DEF Base, JobInv, JobOK, At
<1>a. ASSUME NEW bytes, NEW n \in Nat, Data(bytes, n),
             cursor' \in [page : Rows, col : Nat]
      PROVE  CursorInv'
  <2>1. /\ page' = page /\ col' \in Nat
        /\ DOMAIN ram' = Rows /\ \A p \in Rows : DOMAIN ram'[p] = Columns
    BY <1>a, DataIs DEF Base
  <2> QED
    BY <2>1, <1>a DEF CursorInv, Base
<1>b. ASSUME At(u) \in Moving, Command(o.k, o.page, o.col) \/ UNCHANGED <<ram, page, col>>,
             cursor' \in [page : Rows, col : Nat]
      PROVE  CursorInv'
  <2>1. CASE Command(o.k, o.page, o.col)
    <3>1. ram' = ram /\ page' \in Rows /\ col' \in Nat
      BY <2>1, <1>b, <1>0, CommandIs DEF Base
    <3> QED
      BY <3>1, <1>b DEF CursorInv, Base
  <2>2. CASE UNCHANGED <<ram, page, col>>
    BY <2>2, <1>b DEF CursorInv, Base
  <2> QED
    BY <1>b, <2>1, <2>2
<1>c. cursor \in [page : Rows, col : Nat] /\ Width \in Nat /\ FontWidth \in Nat /\ Cell \in Nat
  BY Sizes DEF Base, CursorInv
<1>1. CASE SetCursor(u)
  <2>1. At(u) \in Moving /\ Command(o.k, o.page, o.col)
    BY <1>1, <1>0 DEF SetCursor, Moving
  <2>2. cursor' = cursor \/ cursor' = [page |-> o.page, col |-> o.col]
    BY <1>1 DEF SetCursor
  <2> QED
    BY <1>b, <1>0, <1>c, <2>1, <2>2
<1>2. CASE ClearPage(u)
  <2>1. cursor' = cursor /\ Data([c \in 1..Width |-> Blank], Width)
    BY <1>2 DEF ClearPage
  <2> QED
    BY <2>1, <1>a, <1>c
<1>3. CASE PutChar(u)
  <2>1. UNCHANGED <<ram, page, col>>
    BY <1>3 DEF PutChar
  <2>2. cursor' = cursor \/ cursor' = [page |-> (cursor.page + 1) % Pages, col |-> 0]
    BY <1>3 DEF PutChar
  <2>3. (cursor.page + 1) % Pages \in Rows
    BY <1>c, NextRow
  <2> QED
    BY <2>1, <2>2, <2>3 DEF Base, CursorInv
<1>4. CASE PutGlyph(u)
  <2>1. cursor' = cursor /\ Data(Glyph(o.text[o.i]), FontWidth)
    BY <1>4 DEF PutGlyph
  <2> QED
    BY <2>1, <1>a, <1>c
<1>5. CASE PutSpace(u)
  <2>1. cursor' = [cursor EXCEPT !.col = @ + Cell] /\ Data(<<Blank>>, 1)
    BY <1>5 DEF PutSpace
  <2> QED
    BY <2>1, <1>a, <1>c
<1>6. CASE SetCursorFails(u)
  <2>1. At(u) \in Moving /\ cursor' = cursor
        /\ (Command(o.k, o.page, o.col) \/ UNCHANGED <<ram, page, col>>)
    BY <1>6 DEF SetCursorFails, Return, Moving
  <2> QED
    BY <2>1, <1>b, <1>c
<1>7. CASE ClearPageFails(u)
  <2>1. PICK n \in 0..Width : Data([c \in 1..Width |-> Blank], n)
    BY <1>7 DEF ClearPageFails
  <2>2. cursor' = cursor /\ n \in Nat
    BY <1>7, <1>c DEF ClearPageFails, Return
  <2> QED
    BY <2>1, <2>2, <1>a, <1>c
<1>8. CASE PutFails(u)
  <2>1. cursor' = cursor
    BY <1>8 DEF PutFails, Return
  <2>2. CASE \E n \in 0..FontWidth : Data(Glyph(o.text[o.i]), n)
    <3>1. PICK n \in 0..FontWidth : Data(Glyph(o.text[o.i]), n)
      BY <2>2
    <3> QED
      BY <3>1, <2>1, <1>a, <1>c
  <2>3. CASE \E n \in 0..1 : Data(<<Blank>>, n)
    <3>1. PICK n \in 0..1 : Data(<<Blank>>, n)
      BY <2>3
    <3> QED
      BY <3>1, <2>1, <1>a, <1>c
  <2> QED
    BY <1>8, <2>2, <2>3 DEF PutFails
<1> QED
  BY <1>1, <1>2, <1>3, <1>4, <1>5, <1>6, <1>7, <1>8 DEF Transfer

LEMMA TransferJobs ==
    ASSUME Base, NEW u \in Users, Transfer(u), At(Core) # "broken"
    PROVE  JobInv'
<1>1. PICK j : Moves(u, j) /\ JobOK(u, j, node)
  BY TransferMoves DEF Base
<1>2. /\ job' = [job EXCEPT ![u] = j] /\ node' = node /\ alone' = alone /\ At(u) # "idle"
      /\ DOMAIN job = Users
  BY <1>1 DEF Moves, Base, JobInv
<1>3. \A w \in Users : JobOK(w, job'[w], node')
  BY <1>1, <1>2 DEF Base, JobInv
<1>4. ~node' => \A w \in Writers : At(w)' = "idle"
  <2> SUFFICES ASSUME ~node, NEW w \in Writers PROVE At(w)' = "idle"
    BY <1>2
  <2>1. At(w) = "idle"
    BY DEF Base, JobInv
  <2>2. w \in Users /\ w # u
    BY <2>1, <1>2, Sizes
  <2>3. job'[w] = job[w]
    BY <2>2, <1>2
  <2> QED
    BY <2>1, <2>3 DEF At
<1> QED
  BY <1>2, <1>3, <1>4 DEF JobInv, Base

\* One of the driver core's own actions.
CoreStep == Probe \/ InitCmd \/ InitCmdFails \/ Register \/ Remove \/ Off \/ Deregister

LEMMA CoreStepIs ==
    ASSUME Base, CoreStep
    PROVE  \E from, to :
             /\ At(Core) = from /\ job' = [job EXCEPT ![Core] = to]
             /\ JobOK(Core, to, node') /\ node' \in BOOLEAN
             /\ from # "idle" => alone' = alone
             /\ alone' \subseteq alone
             /\ node' # node => from \in {"register", "deregister"}
             /\ cursor' = cursor \/ (from = "idle" /\ cursor' = [page |-> 0, col |-> 0])
             /\ ram' = ram /\ page' = page /\ col' = col
             /\ to.at # "idle" => \/ ~node' /\ to.at \in {"init", "clear", "broken"}
                                  \/ node' /\ to.at \in {"clear", "deregister"}
             /\ from = "idle" =>
                  /\ node' = node
                  /\ ~node => alone' = alone /\ cursor' = [page |-> 0, col |-> 0]
                                /\ to.at = "init"
                  /\ node => alone' = {} /\ to.at = "clear"
             /\ from = "register" => to.at = "idle"
             /\ from = "init" => to.at \in {"init", "clear", "idle"}
             /\ from = "off" => to.at = "deregister"
             /\ from = "deregister" =>
                  ~node' /\ (IF Inside = {Core} THEN to.at = "idle" ELSE to.at = "broken")
             /\ from \in {"idle", "init", "register", "off", "deregister"}
             /\ to.at = "clear" => to.page = 0 /\ to.k = 1
<1>0. /\ JobOK(Core, job[Core], node) /\ DOMAIN job = Users /\ Core \in Users /\ node \in BOOLEAN
      /\ alone \subseteq Writers
  BY Sizes DEF Base, JobInv
<1>a. job[Core].at = At(Core) /\ DOMAIN job[Core] = Fields /\ job[Core].text = <<>>
      /\ job[Core].page \in Rows /\ job[Core].col = 0 /\ (At(Core) = "init" => job[Core].k \in 1..26)
  BY <1>0 DEF JobOK, At
<1>b. /\ At(Core) \in {"init", "register"} => ~node
      /\ At(Core) \in {"off", "deregister"} => node
  BY <1>0, <1>a DEF JobOK
<1>w. Core \notin Writers
  BY Sizes
<1>1. CASE Probe
  <2> DEFINE to == [NewJob(<<>>) EXCEPT !.at = "init"]
  <2>1. DOMAIN to = Fields /\ to.at = "init" /\ to.text = <<>> /\ to.page = 0 /\ to.col = 0 /\ to.k = 1
    BY PutAtIs, NewJobIs
  <2>2. /\ At(Core) = "idle" /\ job' = [job EXCEPT ![Core] = to] /\ node' = node /\ ~node
        /\ alone' = alone /\ cursor' = [page |-> 0, col |-> 0] /\ ram' = ram /\ page' = page /\ col' = col
    BY <1>1 DEF Probe, CoreGoes
  <2> HIDE DEF to
  <2>3. JobOK(Core, to, node')
    BY <2>1, <2>2, <1>w, Sizes DEF JobOK, CorePlaces, Moving
  <2> QED
    BY <2>1, <2>2, <2>3, <1>0
<1>2. CASE InitCmd
  <2> DEFINE up == [job[Core] EXCEPT !.k = @ + 1]
             to == IF job[Core].k < Len(InitCmds) THEN up ELSE NewJob(<<>>)
  <2>1. /\ At(Core) = "init" /\ job' = [job EXCEPT ![Core] = to] /\ node' = node /\ ~node
        /\ alone' = alone /\ cursor' = cursor /\ ram' = ram /\ page' = page /\ col' = col
    BY <1>2, <1>b DEF InitCmd, CoreGoes, Receive
  <2>2. CASE job[Core].k < Len(InitCmds)
    <3>1. /\ DOMAIN up = Fields /\ up.at = "init" /\ up.text = <<>>
          /\ up.page = job[Core].page /\ up.col = 0 /\ up.k = job[Core].k + 1
      BY <2>1, <1>a, PutKIs
    <3>2. to = up
      BY <2>2
    <3>n. Len(InitCmds) = 26
      BY InitTable
    <3> HIDE DEF up, to
    <3>m. job[Core].k < 26
      BY <3>n, <2>2
    <3>o. job[Core].k \in 1..26
      BY <2>1, <1>a
    <3>p. \A k \in 1..26 : k < 26 => k + 1 \in 1..26
      OBVIOUS
    <3>3. up.k \in 1..26
      BY <3>1, <3>m, <3>o, <3>p
    <3>5. JobOK(Core, to, node')
      BY <3>1, <3>2, <3>3, <2>1, <1>a, <1>w DEF JobOK, CorePlaces, Moving
    <3> QED
      BY <3>1, <3>2, <3>5, <2>1, <1>0
  <2>3. CASE ~(job[Core].k < Len(InitCmds))
    <3>1. to = NewJob(<<>>)
      BY <2>3
    <3> HIDE DEF to
    <3>2. JobOK(Core, to, node') /\ to.at = "clear" /\ to.page = 0 /\ to.k = 1
      BY <3>1, NewJobIs, NewJobOK, <1>0, <2>1
    <3> QED
      BY <3>2, <2>1, <1>0
  <2> QED
    BY <2>2, <2>3
<1>3. CASE InitCmdFails
  <2>1. /\ At(Core) = "init" /\ job' = [job EXCEPT ![Core] = NoJob] /\ node' = node
        /\ alone' = alone /\ cursor' = cursor /\ ram' = ram /\ page' = page /\ col' = col
    BY <1>3 DEF InitCmdFails, CoreGoes, Receive
  <2> QED
    BY <2>1, NoJobIs, NoJobOK, <1>0
<1>4. CASE Register
  <2>1. /\ At(Core) = "register" /\ job' = [job EXCEPT ![Core] = NoJob] /\ node' \in BOOLEAN
        /\ alone' = alone /\ cursor' = cursor /\ ram' = ram /\ page' = page /\ col' = col
    BY <1>4 DEF Register, CoreGoes
  <2> QED
    BY <2>1, NoJobIs, NoJobOK, <1>0
<1>5. CASE Remove
  <2>1. /\ At(Core) = "idle" /\ job' = [job EXCEPT ![Core] = NewJob(<<>>)] /\ node' = node /\ node
        /\ alone' = {} /\ cursor' = cursor /\ ram' = ram /\ page' = page /\ col' = col
    BY <1>5 DEF Remove, CoreGoes, core
  <2>2. JobOK(Core, NewJob(<<>>), node')
    BY <2>1, <1>0, NewJobOK
  <2>3. NewJob(<<>>).at = "clear" /\ NewJob(<<>>).page = 0 /\ NewJob(<<>>).k = 1
    BY NewJobIs
  <2> QED
    BY <2>1, <2>2, <2>3, <1>0
<1>6. CASE Off
  <2> DEFINE to == [job[Core] EXCEPT !.at = "deregister"]
  <2>1. /\ At(Core) = "off" /\ job' = [job EXCEPT ![Core] = to] /\ node' = node /\ node
        /\ alone' = alone /\ cursor' = cursor /\ ram' = ram /\ page' = page /\ col' = col
    BY <1>6, <1>b DEF Off, CoreGoes, Receive
  <2>2. DOMAIN to = Fields /\ to.at = "deregister" /\ to.text = <<>> /\ to.page = job[Core].page /\ to.col = 0
    BY <1>a, PutAtIs
  <2> HIDE DEF to
  <2>3. JobOK(Core, to, node')
    BY <2>1, <2>2, <1>a, <1>w DEF JobOK, CorePlaces, Moving
  <2> QED
    BY <2>1, <2>2, <2>3, <1>0
<1>7. CASE Deregister
  <2> DEFINE b == [NoJob EXCEPT !.at = "broken"]
             to == IF Inside # {Core} THEN b ELSE NoJob
  <2>1. /\ At(Core) = "deregister" /\ job' = [job EXCEPT ![Core] = to] /\ node' = FALSE
        /\ alone' = alone /\ cursor' = cursor /\ ram' = ram /\ page' = page /\ col' = col
    BY <1>7 DEF Deregister, CoreGoes
  <2>2. DOMAIN b = Fields /\ b.at = "broken" /\ b.text = <<>> /\ b.page = 0 /\ b.col = 0 /\ b.k = 1
    BY NoJobIs, PutAtIs
  <2>3. to = IF Inside # {Core} THEN b ELSE NoJob
    OBVIOUS
  <2> HIDE DEF to, b
  <2>4. JobOK(Core, b, FALSE)
    BY <2>2, <1>w, Sizes DEF JobOK, CorePlaces, Moving
  <2> QED
    BY <2>1, <2>2, <2>3, <2>4, NoJobIs, NoJobOK, <1>0
<1> QED
  BY <1>1, <1>2, <1>3, <1>4, <1>5, <1>6, <1>7 DEF CoreStep

LEMMA WriteIs ==
    ASSUME Base, NEW w \in Writers, NEW t, Write(w, t)
    PROVE  /\ At(w) = "idle" /\ node /\ node' = node /\ w \in Users /\ w # Core
           /\ \E s : /\ job' = [job EXCEPT ![w] = NewJob(s)]
                     /\ JobOK(w, NewJob(s), node)
           /\ alone' = IF Inside = {} THEN {w} ELSE {}
           /\ ram' = ram /\ page' = page /\ col' = col /\ cursor' = cursor
<1>1. /\ At(w) = "idle" /\ node /\ node' = node /\ w \in Users /\ w # Core
      /\ alone' = IF Inside = {} THEN {w} ELSE {}
      /\ ram' = ram /\ page' = page /\ col' = col /\ cursor' = cursor
  BY Sizes DEF Write, core
<1>2. \E s : job' = [job EXCEPT ![w] = NewJob(s)]
  BY DEF Write
<1>3. \A s : JobOK(w, NewJob(s), node)
  BY <1>1, NewJobOK DEF Base, JobInv
<1> QED
  BY <1>1, <1>2, <1>3

LEMMA BaseStep == Base /\ [Next]_vars => Base'
<1> SUFFICES ASSUME Base, [Next]_vars PROVE Base'
  OBVIOUS
<1>0. DOMAIN job = Users /\ Users = Writers \cup {Core} /\ Core \notin Writers /\ alone \subseteq Writers
  BY Sizes DEF Base, JobInv
<1>1. ASSUME NEW w \in Writers, NEW t \in Texts[w], Write(w, t)
      PROVE  Base'
  <2>1. PICK s : job' = [job EXCEPT ![w] = NewJob(s)] /\ JobOK(w, NewJob(s), node)
    BY <1>1, WriteIs
  <2>2. /\ At(w) = "idle" /\ node /\ node' = node /\ w \in Users
        /\ alone' = (IF Inside = {} THEN {w} ELSE {})
        /\ ram' = ram /\ page' = page /\ col' = col /\ cursor' = cursor
    BY <1>1, WriteIs
  <2>3. JobInv'
    BY <2>1, <2>2, <1>0 DEF JobInv, Base
  <2>4. CursorInv'
    BY <2>2 DEF CursorInv, Base
  <2> QED
    BY <2>3, <2>4 DEF Base
<1>2. ASSUME NEW u \in Users, Transfer(u), At(Core) # "broken"
      PROVE  Base'
  BY <1>2, TransferJobs, TransferCursor DEF Base
<1>3. ASSUME CoreStep, At(Core) # "broken"
      PROVE  Base'
  <2>1. PICK from, to :
             /\ At(Core) = from /\ job' = [job EXCEPT ![Core] = to]
             /\ JobOK(Core, to, node') /\ node' \in BOOLEAN
             /\ alone' \subseteq alone
             /\ node' # node => from \in {"register", "deregister"}
             /\ cursor' = cursor \/ (from = "idle" /\ cursor' = [page |-> 0, col |-> 0])
             /\ ram' = ram /\ page' = page /\ col' = col
             /\ from = "deregister" =>
                  ~node' /\ (IF Inside = {Core} THEN to.at = "idle" ELSE to.at = "broken")
    BY <1>3, CoreStepIs
  <2>2. \A w \in Writers : JobOK(w, job'[w], node') /\ At(w)' = At(w)
    BY <2>1, <1>0 DEF JobOK, Base, JobInv, At
  <2>3. \A w \in Users : JobOK(w, job'[w], node')
    BY <2>1, <2>2, <1>0
  <2>4. ~node' /\ At(Core)' # "broken" => \A w \in Writers : At(w) = "idle"
    <3>1. CASE ~node
      BY <3>1, <1>3 DEF Base, JobInv
    <3>2. CASE node /\ ~node'
      <4>1. from = "deregister"
        <5>1. from = "register" => ~node
          BY <2>1, <1>0 DEF JobOK, Base, JobInv, At
        <5> QED
          BY <5>1, <3>2, <2>1
      <4>2. CASE Inside = {Core}
        <5>1. \A w \in Writers : w \notin Inside
          BY <4>2, <1>0
        <5> QED
          BY <5>1, <1>0 DEF Inside
      <4>3. CASE Inside # {Core}
        <5>1. At(Core)' = "broken"
          BY <4>1, <4>3, <2>1, <1>0 DEF At
        <5> QED
          BY <5>1
      <4> QED
        BY <4>2, <4>3
    <3>3. node \in BOOLEAN
      BY DEF Base, JobInv
    <3> QED
      BY <3>1, <3>2, <3>3
  <2>5. JobInv'
    BY <2>1, <2>2, <2>3, <2>4, <1>0 DEF JobInv
  <2>6. CursorInv'
    BY <2>1, Sizes DEF CursorInv, Base
  <2> QED
    BY <2>5, <2>6 DEF Base
<1>4. CASE UNCHANGED vars
  <2>1. JobInv'
    BY <1>4 DEF vars, core, Base, JobInv, At
  <2>2. CursorInv'
    BY <1>4 DEF vars, Base, CursorInv
  <2> QED
    BY <2>1, <2>2 DEF Base
<1> QED
  BY <1>1, <1>2, <1>3, <1>4 DEF Next, Transfer, CoreStep

THEOREM BaseHolds == Spec => []Base
BY BaseInit, BaseStep, PTL DEF Spec

-----------------------------------------------------------------------------
(* Who has the driver to itself.                                           *)

LEMMA SoleInit == Init => SoleInv
BY NoJobIs DEF Init, SoleInv, Sole, Probing, At, Users

LEMMA SoleWrites ==
    ASSUME Base, SoleInv, NEW w \in Writers, NEW t, Write(w, t), NEW v \in Users, Sole(v)'
    PROVE  v = w /\ Inside = {}
<1>1. node' /\ alone' = (IF Inside = {} THEN {w} ELSE {})
  BY WriteIs
<1> QED
  BY <1>1 DEF Sole, Probing

LEMMA SoleMoves ==
    ASSUME Base, SoleInv, NEW u \in Users, Transfer(u), At(Core) # "broken",
           NEW v \in Users, Sole(v)'
    PROVE  v = u /\ Sole(u)
<1>0. DOMAIN job = Users
  BY DEF Base, JobInv
<1>1. PICK j : Moves(u, j)
  BY TransferMoves DEF Base
<1>2. /\ At(u) # "idle" /\ node' = node /\ alone' = alone
      /\ \A x \in Users \ {u} : At(x)' = At(x)
  BY <1>1, <1>0 DEF Moves, At
<1>3. v # u => Sole(v)
  BY <1>2 DEF Sole, Probing, Users
<1>4. v = u
  BY <1>3, <1>2 DEF SoleInv
<1> QED
  BY <1>4, <1>2 DEF Sole, Probing

\* The driver core has the driver to itself only in probe.
LEMMA SoleCore ==
    ASSUME Base, SoleInv, CoreStep, At(Core) # "broken", NEW v \in Users, Sole(v)'
    PROVE  /\ v = Core /\ ~node /\ ~node' /\ At(Core)' \in {"init", "clear"}
           /\ \A w \in Writers : At(w) = "idle"
           /\ At(Core)' = "clear" => job'[Core].k = 1 /\ job'[Core].page = 0
<1>0. DOMAIN job = Users /\ Users = Writers \cup {Core} /\ Core \notin Writers /\ alone \subseteq Writers
  BY Sizes DEF Base, JobInv
<1>1. PICK from, to :
           /\ At(Core) = from /\ job' = [job EXCEPT ![Core] = to] /\ node' \in BOOLEAN
           /\ alone' \subseteq alone
           /\ node' # node => from \in {"register", "deregister"}
           /\ from = "idle" => (node => alone' = {})
           /\ from = "register" => to.at = "idle"
           /\ from = "deregister" =>
                ~node' /\ (IF Inside = {Core} THEN to.at = "idle" ELSE to.at = "broken")
           /\ to.at # "idle" => \/ ~node' /\ to.at \in {"init", "clear", "broken"}
                                \/ node' /\ to.at \in {"clear", "deregister"}
           /\ to.at = "clear" => to.page = 0 /\ to.k = 1
  BY CoreStepIs
<1>2. At(Core)' = to.at /\ job'[Core] = to /\ \A x \in Users \ {Core} : At(x)' = At(x)
  BY <1>1, <1>0 DEF At
<1>3. node \in BOOLEAN /\ (~node => \A w \in Writers : At(w) = "idle")
  BY DEF Base, JobInv
<1>4. v \notin alone'
  <2> SUFFICES ASSUME v \in alone' PROVE FALSE
    OBVIOUS
  <2>1. v \in alone /\ v # Core /\ v \in Writers
    BY <1>1, <1>0
  <2>2. At(v) # "idle"
    BY <2>1, <1>2 DEF Sole
  <2>3. from = "idle"
    BY <2>1, <2>2, <1>1, <1>0 DEF Sole, SoleInv
  <2> QED
    BY <2>1, <2>2, <2>3, <1>1, <1>3
<1>5. v = Core /\ ~node' /\ to.at \notin {"idle", "broken"}
  BY <1>4, <1>2 DEF Sole, Probing
<1>6. node' = node
  BY <1>1, <1>5
<1> QED
  BY <1>1, <1>2, <1>3, <1>5, <1>6

LEMMA SoleStep == Base /\ SoleInv /\ [Next]_vars => SoleInv'
<1> SUFFICES ASSUME Base, SoleInv, [Next]_vars PROVE SoleInv'
  OBVIOUS
<1>0. DOMAIN job = Users /\ Users = Writers \cup {Core} /\ Core \notin Writers
  BY Sizes DEF Base, JobInv
<1>1. ASSUME NEW w \in Writers, NEW t \in Texts[w], Write(w, t)
      PROVE  SoleInv'
  <2>1. PICK s : job' = [job EXCEPT ![w] = NewJob(s)]
    BY <1>1, WriteIs
  <2>2. \A u \in Users \ {w} : At(u)' = At(u)
    BY <2>1, <1>0 DEF At
  <2>3. \A v \in Users : Sole(v)' => v = w /\ Inside = {}
    BY <1>1, SoleWrites
  <2> QED
    BY <2>2, <2>3 DEF SoleInv, Inside
<1>2. ASSUME NEW u \in Users, Transfer(u), At(Core) # "broken"
      PROVE  SoleInv'
  <2>1. \E j : job' = [job EXCEPT ![u] = j]
    BY <1>2, TransferMoves DEF Base, Moves
  <2>2. \A x \in Users \ {u} : At(x)' = At(x)
    BY <2>1, <1>0 DEF At
  <2>3. \A v \in Users : Sole(v)' => v = u /\ Sole(u)
    BY <1>2, SoleMoves
  <2> QED
    BY <2>2, <2>3 DEF SoleInv
<1>3. ASSUME CoreStep, At(Core) # "broken"
      PROVE  SoleInv'
  <2>1. \E to : job' = [job EXCEPT ![Core] = to]
    BY <1>3, CoreStepIs
  <2>2. \A x \in Users \ {Core} : At(x)' = At(x)
    BY <2>1, <1>0 DEF At
  <2>3. \A v \in Users : Sole(v)' => v = Core /\ \A w \in Writers : At(w) = "idle"
    BY <1>3, SoleCore
  <2> QED
    BY <2>2, <2>3, <1>0 DEF SoleInv
<1>4. CASE UNCHANGED vars
  BY <1>4 DEF vars, core, SoleInv, Sole, Probing, At
<1> QED
  BY <1>1, <1>2, <1>3, <1>4 DEF Next, Transfer, CoreStep

THEOREM SoleHolds == Spec => []SoleInv
BY SoleInit, SoleStep, BaseHolds, PTL DEF Spec

-----------------------------------------------------------------------------
(* The cursor of a process that has the driver to itself.                  *)

\* At the place "j" the display is at page p and column c, the driver's cursor
\* is "cur": set_cursor's commands so far hold, the column's low part is right
\* only after the second; between a glyph and its spacing the display is
\* ahead of the driver.
TrackAt(j, p, c, cur) ==
    /\ j.at \in Moving /\ j.k > 1 => p = j.page
    /\ j.at \in Moving /\ j.k > 2 => c % Nibble = 0
    /\ j.at = "zeros" => p = j.page
    /\ j.at = "char" => p = cur.page /\ c = cur.col % Width
    /\ j.at \in {"glyph", "space"} => p = cur.page /\ cur.col + Cell <= Width
    /\ j.at = "glyph" => c = cur.col
    /\ j.at = "space" => c = cur.col + FontWidth

TrackInv == \A w \in Users : Sole(w) => TrackAt(job[w], page, col, cursor)

\* Nothing is said of the other places.
LEMMA TrackElsewhere ==
    ASSUME NEW j, NEW p, NEW c, NEW cur,
           \/ j.at \in {"idle", "init", "register", "off", "deregister", "broken"}
           \/ j.at \in {"clear", "home", "line"} /\ j.k = 1
    PROVE  TrackAt(j, p, c, cur)
BY DEF TrackAt, Moving

LEMMA TrackNext ==
    ASSUME NEW u \in Users, NEW j, DOMAIN j = Fields, NEW p, NEW c, NEW cur,
           p = cur.page, c = cur.col % Width
    PROVE  TrackAt(NextChar(u, j), p, c, cur)
<1>1. CASE j.i >= Len(j.text)
  <2>1. NextChar(u, j) = Finish(u, j)
    BY <1>1 DEF NextChar
  <2>2. Finish(u, j).at \in {"idle", "off", "register"}
    BY FinishIs, NoJobIs
  <2> QED
    BY <2>1, <2>2, TrackElsewhere
<1>2. CASE ~(j.i >= Len(j.text))
  <2> DEFINE e == [j EXCEPT !.at = "char", !.i = @ + 1]
  <2>1. e.at = "char"
    BY NextIs
  <2>2. NextChar(u, j) = e
    BY <1>2 DEF NextChar
  <2> HIDE DEF e
  <2>3. TrackAt(e, p, c, cur)
    BY <2>1 DEF TrackAt, Moving
  <2> QED
    BY <2>2, <2>3
<1> QED
  BY <1>1, <1>2

\* A failed transfer ends the write, or the probe.
LEMMA ReturnLeaves ==
    ASSUME Base, NEW u \in Users, Return(u)
    PROVE  ~Sole(u)'
<1>0. DOMAIN job = Users /\ alone \subseteq Writers /\ Core \notin Writers
  BY Sizes DEF Base, JobInv
<1>1. /\ job' = [job EXCEPT ![u] = IF u = Core /\ node THEN Finish(u, @) ELSE NoJob]
      /\ node' = node /\ alone' = alone
  BY DEF Return, core
<1>2. CASE u = Core /\ node
  BY <1>0, <1>1, <1>2 DEF Sole, Probing
<1>3. CASE ~(u = Core /\ node)
  <2>1. At(u)' = "idle"
    BY <1>0, <1>1, <1>3, NoJobIs DEF At
  <2> QED
    BY <2>1 DEF Sole
<1> QED
  BY <1>2, <1>3

LEMMA TrackTransfer ==
    ASSUME Base, NEW u \in Users, Transfer(u), TrackAt(job[u], page, col, cursor), Sole(u)'
    PROVE  TrackAt(job'[u], page', col', cursor')
<1> DEFINE o == job[u]
<1>0. /\ DOMAIN job = Users /\ DOMAIN o = Fields /\ o.at = At(u) /\ o.page \in Rows /\ o.col = 0
      /\ At(u) \in Moving => o.k \in 1..3
  BY DEF Base, JobInv, JobOK, At
<1>s. /\ page \in Rows /\ col \in Nat /\ cursor.page \in Rows /\ cursor.col \in Nat
      /\ cursor = [page |-> cursor.page, col |-> cursor.col]
      /\ Width \in Nat /\ FontWidth \in Nat /\ Cell \in Nat /\ Nibble \in Nat
      /\ FontWidth < Width /\ Nibble > 0 /\ Cell = FontWidth + 1
  BY Sizes DEF Base, CursorInv
<1>1. CASE SetCursor(u)
  <2>1. At(u) \in Moving /\ Command(o.k, o.page, 0)
    BY <1>1, <1>0 DEF SetCursor, Moving
  <2>2. /\ page' \in Rows /\ col' \in Nat
        /\ o.k = 1 => page' = o.page /\ col' = col
        /\ o.k = 2 => page' = page /\ col' % Nibble = 0
        /\ o.k = 3 => page' = page /\ (col % Nibble = 0 => col' = 0)
    BY <2>1, <1>0, CommandIs DEF Base
  <2>3. /\ o.k > 1 => page = o.page
        /\ o.k > 2 => col % Nibble = 0
    BY <2>1, <1>0 DEF TrackAt
  <2>4. page' = o.page /\ (o.k = 2 => col' % Nibble = 0) /\ (o.k = 3 => col' = 0)
    BY <2>1, <2>2, <2>3, <1>0
  <2>5. CASE o.k < 3
    <3> DEFINE e == [o EXCEPT !.k = @ + 1]
    <3>1. job'[u] = e /\ cursor' = cursor
      BY <1>1, <2>5, <1>0 DEF SetCursor, Continue
    <3>2. e.at = o.at /\ e.page = o.page /\ e.k = o.k + 1
      BY <1>0, PutKIs
    <3>3. e.at \in Moving /\ (e.k > 2 => o.k = 2)
      BY <3>2, <2>1, <2>5, <1>0
    <3> HIDE DEF e
    <3>4. TrackAt(e, page', col', cursor')
      BY <3>2, <3>3, <2>4 DEF TrackAt, Moving
    <3> QED
      BY <3>1, <3>4
  <2>6. CASE ~(o.k < 3)
    <3> DEFINE back == [o EXCEPT !.page = 0, !.col = 0, !.k = 1]
               j == AfterCursor(u, o)
    <3>1. job'[u] = j /\ cursor' = [page |-> o.page, col |-> 0]
      BY <1>1, <2>6, <1>0 DEF SetCursor, Continue
    <3>2. o.k = 3
      BY <2>1, <2>6, <1>0
    <3>3. page' = cursor'.page /\ col' = cursor'.col /\ cursor'.col = 0 /\ page' = o.page
      BY <3>1, <3>2, <2>4
    <3>4. cursor'.col + Cell <= Width /\ cursor'.col % Width = 0
      <4>1. 0 % Width = 0
        BY Sizes, ModSmall
      <4>2. 0 + Cell <= Width
        BY Sizes
      <4> QED
        BY <3>3, <4>1, <4>2, Zenon
    <3>5. /\ DOMAIN back = Fields /\ back.at = o.at
      BY <1>0, BackIs
    <3>6. CASE o.at = "clear"
      <4>1. j = [o EXCEPT !.at = "zeros"]
        BY <3>6, AfterClear, Zenon
      <4>2. j.at = "zeros" /\ j.page = o.page
        BY <4>1, <1>0, PutAtIs
      <4> HIDE DEF j
      <4>3. TrackAt(j, page', col', cursor')
        BY <4>2, <3>3 DEF TrackAt, Moving
      <4> QED
        BY <4>3, <3>1
    <3> HIDE DEF back
    <3>7. CASE o.at = "home"
      <4>1. j = IF o.text = <<>> THEN Finish(u, back) ELSE [back EXCEPT !.at = "char"]
        BY <3>7, AfterHome, Zenon DEF back
      <4>2. Finish(u, back).at \in {"idle", "off", "register"}
        BY <3>5, FinishIs, NoJobIs
      <4>3. [back EXCEPT !.at = "char"].at = "char"
        BY <3>5, PutAtIs
      <4>4. j.at \in {"idle", "off", "register", "char"}
        BY <4>1, <4>2, <4>3
      <4> HIDE DEF j
      <4>5. TrackAt(j, page', col', cursor')
        BY <4>4, <3>3, <3>4 DEF TrackAt, Moving
      <4> QED
        BY <4>5, <3>1
    <3>8. CASE o.at = "line"
      <4>1. j = IF o.text[o.i] = NL THEN NextChar(u, back) ELSE [back EXCEPT !.at = "glyph"]
        BY <3>8, AfterLine, Zenon DEF back
      <4>2. TrackAt(NextChar(u, back), page', col', cursor')
        BY <3>3, <3>4, <3>5, TrackNext
      <4> DEFINE g == [back EXCEPT !.at = "glyph"]
      <4>3. g.at = "glyph"
        BY <3>5, PutAtIs
      <4> HIDE DEF j, g
      <4>4. TrackAt(g, page', col', cursor')
        BY <4>3, <3>3, <3>4 DEF TrackAt, Moving
      <4> QED
        BY <4>1, <4>2, <4>4, <3>1 DEF g
    <3> QED
      BY <3>6, <3>7, <3>8, <2>1, <1>0 DEF Moving
  <2> QED
    BY <2>5, <2>6
<1>2. CASE ClearPage(u)
  <2> DEFINE n == o.page + 1
             e == IF n < Pages THEN [o EXCEPT !.at = "clear", !.page = n, !.k = 1]
                  ELSE [o EXCEPT !.at = "home", !.page = 0, !.k = 1]
  <2>1. job'[u] = e
    BY <1>2, <1>0 DEF ClearPage, Continue
  <2>2. e.at \in {"clear", "home"} /\ e.k = 1
    BY <1>0, CursorJobIs
  <2> HIDE DEF e
  <2> QED
    BY <2>1, <2>2, TrackElsewhere
<1>3. CASE PutChar(u)
  <2> DEFINE p == (cursor.page + 1) % Pages
             e == [o EXCEPT !.at = "line", !.page = p, !.col = 0, !.k = 1]
             g == [o EXCEPT !.at = "glyph"]
  <2>1. /\ o.at = "char" /\ page' = page /\ col' = col
        /\ job'[u] = e \/ (job'[u] = g /\ cursor' = cursor /\ Fits)
    BY <1>3, <1>0 DEF PutChar, Continue
  <2>2. e.at = "line" /\ e.k = 1
    BY <1>0, CursorJobIs
  <2>3. g.at = "glyph"
    BY <1>0, PutAtIs
  <2> HIDE DEF e, g
  <2>4. TrackAt(e, page', col', cursor')
    BY <2>2, TrackElsewhere
  <2>5. CASE cursor' = cursor /\ Fits
    <3>1. cursor.col + Cell <= Width /\ page = cursor.page /\ col = cursor.col % Width
      BY <2>1, <2>5 DEF Fits, TrackAt
    <3>2. cursor.col % Width = cursor.col
      <4>1. cursor.col < Width
        BY <3>1, <1>s
      <4> QED
        BY <4>1, <1>s, ModSmall
    <3>3. TrackAt(g, page', col', cursor')
      BY <2>1, <2>3, <2>5, <3>1, <3>2 DEF TrackAt, Moving
    <3> QED
      BY <2>1, <2>4, <3>3
  <2> QED
    BY <2>1, <2>4, <2>5
<1>4. CASE PutGlyph(u)
  <2> DEFINE g == [o EXCEPT !.at = "space"]
  <2>1. o.at = "glyph" /\ job'[u] = g /\ cursor' = cursor
    BY <1>4, <1>0 DEF PutGlyph, Continue
  <2>2. page' = page /\ col' = (col + FontWidth) % Width
    <3>1. Data(Glyph(o.text[o.i]), FontWidth)
      BY <1>4 DEF PutGlyph
    <3> QED
      BY <3>1 DEF Data
  <2>3. page = cursor.page /\ col = cursor.col /\ cursor.col + Cell <= Width
    BY <2>1 DEF TrackAt
  <2>4. (col + FontWidth) % Width = cursor.col + FontWidth
    <3>1. col + FontWidth \in Nat /\ col + FontWidth < Width
      BY <2>3, <1>s
    <3> QED
      BY <3>1, <2>3, <1>s, ModSmall
  <2>5. g.at = "space"
    BY <1>0, PutAtIs
  <2> HIDE DEF g
  <2>6. TrackAt(g, page', col', cursor')
    BY <2>1, <2>2, <2>3, <2>4, <2>5 DEF TrackAt, Moving
  <2> QED
    BY <2>1, <2>6
<1>5. CASE PutSpace(u)
  <2>1. o.at = "space" /\ job'[u] = NextChar(u, o) /\ cursor' = [cursor EXCEPT !.col = @ + Cell]
    BY <1>5, <1>0 DEF PutSpace, Continue
  <2>2. page' = page /\ col' = (col + 1) % Width
    BY <1>5 DEF PutSpace, Data
  <2>3. page = cursor.page /\ col = cursor.col + FontWidth
    BY <2>1 DEF TrackAt
  <2>4. cursor'.page = cursor.page /\ cursor'.col = cursor.col + Cell
    BY <2>1, <1>s
  <2>5. col + 1 = cursor'.col
    BY <2>3, <2>4, <1>s
  <2> QED
    BY <2>1, <2>2, <2>3, <2>4, <2>5, <1>0, TrackNext
<1>6. CASE SetCursorFails(u) \/ ClearPageFails(u) \/ PutFails(u)
  BY <1>6, ReturnLeaves DEF SetCursorFails, ClearPageFails, PutFails
<1> QED
  BY <1>1, <1>2, <1>3, <1>4, <1>5, <1>6 DEF Transfer

LEMMA TrackInit == Init => TrackInv
BY NoJobIs DEF Init, TrackInv, Sole, At

LEMMA TrackStep == Base /\ SoleInv /\ TrackInv /\ [Next]_vars => TrackInv'
<1> SUFFICES ASSUME Base, SoleInv, TrackInv, [Next]_vars PROVE TrackInv'
  OBVIOUS
<1>0. DOMAIN job = Users
  BY DEF Base, JobInv
<1>1. ASSUME NEW w \in Writers, NEW t \in Texts[w], Write(w, t)
      PROVE  TrackInv'
  <2>1. PICK s : job' = [job EXCEPT ![w] = NewJob(s)]
    BY <1>1, WriteIs
  <2>2. \A v \in Users : Sole(v)' => v = w
    BY <1>1, SoleWrites
  <2>3. w \in Users
    BY DEF Users
  <2>4. job'[w].at = "clear" /\ job'[w].k = 1
    BY <2>1, <2>3, <1>0, NewJobIs
  <2>5. TrackAt(job'[w], page', col', cursor')
    BY <2>4, TrackElsewhere
  <2> QED
    BY <2>2, <2>5 DEF TrackInv
<1>2. ASSUME NEW u \in Users, Transfer(u), At(Core) # "broken"
      PROVE  TrackInv'
  <2>1. \A v \in Users : Sole(v)' => v = u /\ Sole(u)
    BY <1>2, SoleMoves
  <2>2. Sole(u)' => TrackAt(job'[u], page', col', cursor')
    BY <1>2, <2>1, TrackTransfer DEF TrackInv
  <2> QED
    BY <2>1, <2>2 DEF TrackInv
<1>3. ASSUME CoreStep, At(Core) # "broken"
      PROVE  TrackInv'
  <2>1. \A v \in Users : Sole(v)' =>
          /\ v = Core /\ At(Core)' \in {"init", "clear"}
          /\ At(Core)' = "clear" => job'[Core].k = 1
    BY <1>3, SoleCore
  <2> SUFFICES ASSUME NEW v \in Users, Sole(v)'
               PROVE  TrackAt(job'[v], page', col', cursor')
    BY DEF TrackInv
  <2>2. v = Core /\ (job'[v].at = "init" \/ (job'[v].at = "clear" /\ job'[v].k = 1))
    BY <2>1 DEF At
  <2> QED
    BY <2>2, TrackElsewhere
<1>4. CASE UNCHANGED vars
  BY <1>4 DEF vars, core, TrackInv, Sole, Probing, At
<1> QED
  BY <1>1, <1>2, <1>3, <1>4 DEF Next, Transfer, CoreStep

THEOREM TrackHolds == Spec => []TrackInv
BY TrackInit, TrackStep, BaseHolds, SoleHolds, PTL DEF Spec

\* A write that no other one overlaps and that is about to print a character
\* finds the driver's cursor where the display's is, whatever failures and
\* overlapping writes came before it (ssd1306_drv.c:202-204, 228-270).
THEOREM CursorIsInSync == Spec => []CursorInSync
<1>1. Base /\ TrackInv => CursorInSync
  BY DEF Base, JobInv, TrackInv, Sole, TrackAt, CursorInSync, At, Users
<1> QED
  BY <1>1, BaseHolds, TrackHolds, PTL

-----------------------------------------------------------------------------
(* What the display shows when the node appears.                           *)

Clear(p) == \A c \in Columns : ram[p][c] # Junk

ClearedInv ==
    /\ node => \A p \in Rows : Clear(p)
    /\ ~node /\ At(Core) \in {"clear", "zeros"} =>
         \A p \in Rows : p < job[Core].page => Clear(p)
    /\ ~node /\ At(Core) \in {"home", "register"} => \A p \in Rows : Clear(p)

LEMMA NotJunk ==
    /\ Blank # Junk
    /\ \A ch, c : <<ch, c>> # Junk
<1>1. Len(Blank) = 0 /\ Len(Junk) = 1 /\ \A ch, c : Len(<<ch, c>>) = 2
  BY DEF Blank, Junk
<1> QED
  BY <1>1

\* Data without junk leaves none where there was none, and none in a page that
\* it fills.
LEMMA DataClears ==
    ASSUME Base, NEW bytes, NEW n \in Nat, Data(bytes, n),
           \A d \in Columns : d < n => bytes[d + 1] # Junk
    PROVE  /\ \A p \in Rows : Clear(p) => Clear(p)'
           /\ n >= Width => Clear(page)'
<1>0. page \in Rows /\ col \in Nat /\ DOMAIN ram = Rows
  BY DEF Base, CursorInv
<1> DEFINE d(c) == (c - col + Width) % Width
           row == [c \in Columns |-> IF d(c) < n THEN bytes[d(c) + 1] ELSE ram[page][c]]
<1>1. ram' = [ram EXCEPT ![page] = row]
  BY DEF Data
<1>2. \A c \in Columns : d(c) \in Columns
  <2> SUFFICES ASSUME NEW c \in Columns PROVE d(c) \in Columns
    OBVIOUS
  <2>1. c - col + Width \in Int
    BY <1>0, Sizes
  <2> QED
    BY <2>1, ModNat, Sizes
<1>3. \A c \in Columns : row[c] # Junk \/ (~(d(c) < n) /\ row[c] = ram[page][c])
  <2> SUFFICES ASSUME NEW c \in Columns
               PROVE  row[c] # Junk \/ (~(d(c) < n) /\ row[c] = ram[page][c])
    OBVIOUS
  <2>1. row[c] = IF d(c) < n THEN bytes[d(c) + 1] ELSE ram[page][c]
    OBVIOUS
  <2>2. d(c) \in Columns
    BY <1>2
  <2> HIDE DEF d, row
  <2> QED
    BY <2>1, <2>2
<1>4. \A c \in Columns : n >= Width => d(c) < n
  <2> SUFFICES ASSUME NEW c \in Columns, n >= Width PROVE d(c) < n
    OBVIOUS
  <2>1. d(c) \in 0..(Width - 1)
    BY <1>2, Sizes
  <2> HIDE DEF d
  <2> QED
    BY <2>1, Sizes
<1> HIDE DEF row, d
<1>5. ram'[page] = row /\ \A p \in Rows : p # page => ram'[p] = ram[p]
  BY <1>0, <1>1
<1>6. page' = page
  BY DEF Data
<1>7. ASSUME NEW p \in Rows, Clear(p) PROVE Clear(p)'
  <2>1. CASE p = page
    BY <2>1, <1>3, <1>5, <1>7 DEF Clear
  <2>2. CASE p # page
    BY <2>2, <1>5, <1>7 DEF Clear
  <2> QED
    BY <2>1, <2>2
<1>8. ASSUME n >= Width PROVE \A c \in Columns : ram'[page][c] # Junk
  BY <1>3, <1>4, <1>5, <1>8
<1> QED
  BY <1>6, <1>7, <1>8 DEF Clear

LEMMA ZerosNotJunk == \A d \in Columns : [c \in 1..Width |-> Blank][d + 1] # Junk
<1> SUFFICES ASSUME NEW d \in Columns PROVE [c \in 1..Width |-> Blank][d + 1] # Junk
  OBVIOUS
<1>1. d + 1 \in 1..Width
  BY Sizes
<1>2. [c \in 1..Width |-> Blank][d + 1] = Blank
  BY <1>1
<1> QED
  BY <1>2, NotJunk

LEMMA GlyphNotJunk ==
    ASSUME NEW ch, NEW n \in 0..FontWidth
    PROVE  \A d \in Columns : d < n => Glyph(ch)[d + 1] # Junk
<1> SUFFICES ASSUME NEW d \in Columns, d < n PROVE Glyph(ch)[d + 1] # Junk
  OBVIOUS
<1>1. d + 1 \in 1..FontWidth
  BY Sizes
<1>2. Glyph(ch)[d + 1] = <<ch, d + 1>>
  BY <1>1 DEF Glyph
<1> QED
  BY <1>2, NotJunk

LEMMA SpaceNotJunk ==
    ASSUME NEW n \in 0..1
    PROVE  \A d \in Columns : d < n => <<Blank>>[d + 1] # Junk
<1> SUFFICES ASSUME NEW d \in Columns, d < n PROVE <<Blank>>[d + 1] # Junk
  OBVIOUS
<1>1. d + 1 = 1
  BY Sizes
<1> QED
  BY <1>1, NotJunk

LEMMA TransferKeepsClear ==
    ASSUME Base, NEW u \in Users, Transfer(u)
    PROVE  \A p \in Rows : Clear(p) => Clear(p)'
<1>0. Width \in Nat /\ FontWidth \in Nat
  BY Sizes
<1>1. CASE ram' = ram
  BY <1>1 DEF Clear
<1>2. CASE SetCursor(u) \/ PutChar(u)
  BY <1>2, <1>1 DEF SetCursor, PutChar, Command
<1>3. CASE ClearPage(u) \/ ClearPageFails(u)
  <2>1. PICK n \in 0..Width : Data([c \in 1..Width |-> Blank], n)
    BY <1>3, <1>0 DEF ClearPage, ClearPageFails
  <2> QED
    BY <2>1, <1>0, DataClears, ZerosNotJunk
<1>4. CASE PutGlyph(u)
  <2>1. Data(Glyph(job[u].text[job[u].i]), FontWidth)
    BY <1>4 DEF PutGlyph
  <2> QED
    BY <2>1, <1>0, DataClears, GlyphNotJunk
<1>5. CASE PutSpace(u)
  <2>1. Data(<<Blank>>, 1)
    BY <1>5 DEF PutSpace
  <2> QED
    BY <2>1, DataClears, SpaceNotJunk
<1>6. CASE SetCursorFails(u)
  BY <1>6, <1>1 DEF SetCursorFails, Command
<1>7. CASE PutFails(u)
  <2>1. CASE \E n \in 0..FontWidth : Data(Glyph(job[u].text[job[u].i]), n)
    <3>1. PICK n \in 0..FontWidth : Data(Glyph(job[u].text[job[u].i]), n)
      BY <2>1
    <3> QED
      BY <3>1, <1>0, DataClears, GlyphNotJunk
  <2>2. CASE \E n \in 0..1 : Data(<<Blank>>, n)
    <3>1. PICK n \in 0..1 : Data(<<Blank>>, n)
      BY <2>2
    <3> QED
      BY <3>1, DataClears, SpaceNotJunk
  <2> QED
    BY <1>7, <2>1, <2>2 DEF PutFails
<1> QED
  BY <1>2, <1>3, <1>4, <1>5, <1>6, <1>7 DEF Transfer

\* The driver core's transfers are those of clear.
LEMMA CoreTransfer ==
    ASSUME Base, Transfer(Core)
    PROVE  LET o == job[Core]
               j == job'[Core]
           IN  /\ o.at \in {"clear", "zeros", "home"}
               /\ \/ j.at = "idle"
                  \/ j.at = "off" /\ node
                  \/ j.at = "register" /\ o.at = "home"
                  \/ j.at = o.at /\ o.at \in {"clear", "home"} /\ j.page = o.page
                  \/ j.at = "zeros" /\ o.at = "clear" /\ j.page = o.page
                  \/ /\ ClearPage(Core) /\ o.at = "zeros"
                     /\ \/ j.at = "clear" /\ j.page = o.page + 1
                        \/ j.at = "home" /\ o.page + 1 >= Pages
<1> DEFINE o == job[Core]
           j == job'[Core]
<1>0. /\ DOMAIN job = Users /\ Core \in Users /\ DOMAIN o = Fields /\ o.at \in CorePlaces
      /\ o.text = <<>> /\ o.page \in Rows /\ o.at = At(Core) /\ (At(Core) \in Moving => o.k \in 1..3)
      /\ Pages \in Nat /\ node \in BOOLEAN /\ Core \notin Writers
  BY Sizes DEF Base, JobInv, JobOK, At
<1>f. ASSUME NEW x, DOMAIN x = Fields
      PROVE  Finish(Core, x).at = IF node THEN "off" ELSE "register"
  BY <1>f, FinishIs
<1>1. CASE SetCursor(Core)
  <2>1. o.at \in {"clear", "home"}
    BY <1>1, <1>0 DEF SetCursor, CorePlaces
  <2>2. CASE o.k < 3
    <3>1. j = [o EXCEPT !.k = @ + 1]
      BY <1>1, <2>2, <1>0 DEF SetCursor, Continue
    <3>2. j.at = o.at /\ j.page = o.page
      BY <3>1, <1>0, PutKIs
    <3> QED
      BY <3>2, <2>1
  <2>3. CASE ~(o.k < 3)
    <3> DEFINE back == [o EXCEPT !.page = 0, !.col = 0, !.k = 1]
    <3>1. j = AfterCursor(Core, o)
      BY <1>1, <2>3, <1>0 DEF SetCursor, Continue
    <3>2. CASE o.at = "clear"
      <4>1. AfterCursor(Core, o) = [o EXCEPT !.at = "zeros"]
        BY <3>2, AfterClear, Zenon
      <4>2. j.at = "zeros" /\ j.page = o.page
        BY <4>1, <3>1, <1>0, PutAtIs
      <4> QED
        BY <4>2, <3>2, Zenon
    <3>3. CASE o.at = "home"
      <4>1. AfterCursor(Core, o) = Finish(Core, back)
        BY <3>3, <1>0, AfterHome, Zenon
      <4>b. DOMAIN back = Fields
        BY <1>0, BackIs
      <4> HIDE DEF back, j
      <4>2. j.at = IF node THEN "off" ELSE "register"
        BY <4>1, <4>b, <3>1, <1>f
      <4> QED
        BY <4>2, <3>3, <1>0 DEF j
    <3> QED
      BY <3>2, <3>3, <2>1
  <2> QED
    BY <2>2, <2>3
<1>2. CASE ClearPage(Core)
  <2> DEFINE n == o.page + 1
             e == [o EXCEPT !.at = "clear", !.page = n, !.k = 1]
             h == [o EXCEPT !.at = "home", !.page = 0, !.k = 1]
  <2>1. j = (IF n < Pages THEN e ELSE h) /\ o.at = "zeros"
    BY <1>2, <1>0 DEF ClearPage, Continue
  <2>2. e.at = "clear" /\ e.page = n /\ h.at = "home"
    BY <1>0, CursorJobIs
  <2>3. n \in Nat
    BY <1>0, Sizes
  <2> HIDE DEF e, h
  <2> QED
    BY <1>2, <1>0, <2>1, <2>2, <2>3
<1>3. CASE SetCursorFails(Core) \/ ClearPageFails(Core)
  <2>1. o.at \in {"clear", "zeros", "home"}
    BY <1>3, <1>0 DEF SetCursorFails, ClearPageFails, CorePlaces
  <2>2. j = IF node THEN Finish(Core, o) ELSE NoJob
    BY <1>3, <1>0 DEF SetCursorFails, ClearPageFails, Return
  <2>3. j.at = IF node THEN "off" ELSE "idle"
    BY <2>2, <1>0, <1>f, NoJobIs
  <2> QED
    BY <2>1, <2>3, <1>0
<1>4. ~(PutChar(Core) \/ PutGlyph(Core) \/ PutSpace(Core) \/ PutFails(Core))
  BY <1>0 DEF PutChar, PutGlyph, PutSpace, PutFails, CorePlaces
<1> QED
  BY <1>1, <1>2, <1>3, <1>4 DEF Transfer

LEMMA ClearedInit == Init => ClearedInv
BY NoJobIs DEF Init, ClearedInv, At, Users

LEMMA ClearedStep == Base /\ SoleInv /\ TrackInv /\ ClearedInv /\ [Next]_vars => ClearedInv'
<1> SUFFICES ASSUME Base, SoleInv, TrackInv, ClearedInv, [Next]_vars PROVE ClearedInv'
  OBVIOUS
<1>0. DOMAIN job = Users /\ Users = Writers \cup {Core} /\ Core \notin Writers /\ node \in BOOLEAN
  BY Sizes DEF Base, JobInv
<1>1. ASSUME NEW w \in Writers, NEW t \in Texts[w], Write(w, t)
      PROVE  ClearedInv'
  <2>1. node /\ node' /\ ram' = ram
    BY <1>1, WriteIs
  <2> QED
    BY <2>1 DEF ClearedInv, Clear
<1>2. ASSUME NEW u \in Users, Transfer(u), At(Core) # "broken"
      PROVE  ClearedInv'
  <2>1. \A p \in Rows : Clear(p) => Clear(p)'
    BY <1>2, TransferKeepsClear
  <2>2. node' = node /\ At(u) # "idle"
    BY <1>2, TransferMoves DEF Base, Moves
  <2>3. CASE node
    BY <2>1, <2>2, <2>3 DEF ClearedInv
  <2>4. CASE ~node
    <3>1. u = Core
      <4>1. \A w \in Writers : At(w) = "idle"
        BY <2>4, <1>2 DEF Base, JobInv
      <4> QED
        BY <4>1, <2>2, <1>0
    <3> DEFINE o == job[Core]
               j == job'[Core]
    <3>2. /\ o.at \in {"clear", "zeros", "home"}
          /\ \/ j.at = "idle"
             \/ j.at = "off" /\ node
             \/ j.at = "register" /\ o.at = "home"
             \/ j.at = o.at /\ o.at \in {"clear", "home"} /\ j.page = o.page
             \/ j.at = "zeros" /\ o.at = "clear" /\ j.page = o.page
             \/ /\ ClearPage(Core) /\ o.at = "zeros"
                /\ \/ j.at = "clear" /\ j.page = o.page + 1
                   \/ j.at = "home" /\ o.page + 1 >= Pages
      BY <3>1, <1>2, CoreTransfer
    <3>3. o.at = At(Core) /\ j.at = At(Core)'
      BY DEF At
    <3>p. o.page \in Rows /\ Pages \in Nat /\ Rows = 0..(Pages - 1)
      BY <1>0, Sizes DEF Base, JobInv, JobOK
    <3>4. ASSUME ClearPage(Core), o.at = "zeros"
          PROVE  \A p \in Rows : p < o.page + 1 => Clear(p)'
      <4>1. page = o.page
        <5>1. Sole(Core)
          BY <3>3, <3>4, <2>4 DEF Sole, Probing
        <5> QED
          BY <5>1, <3>4, <1>0 DEF TrackInv, TrackAt
      <4>2. Clear(page)'
        <5>1. Data([c \in 1..Width |-> Blank], Width) /\ Width \in Nat
          BY <3>4, Sizes DEF ClearPage
        <5> QED
          BY <5>1, DataClears, ZerosNotJunk
      <4>3. page' = page
        BY <3>4 DEF ClearPage, Data
      <4>4. \A p \in Rows : p < o.page => Clear(p)
        BY <3>3, <3>4, <2>4 DEF ClearedInv
      <4>5. \A c \in Columns : ram'[o.page][c] # Junk
        BY <4>1, <4>2, <4>3 DEF Clear
      <4> HIDE DEF o
      <4>6. \A p \in Rows : p < o.page + 1 => p < o.page \/ p = o.page
        BY <3>p
      <4>7. ASSUME NEW p \in Rows, p < o.page + 1 PROVE Clear(p)'
        <5>1. CASE p < o.page
          BY <5>1, <4>4, <2>1
        <5>2. CASE p = o.page
          BY <5>2, <4>5 DEF Clear
        <5> QED
          BY <4>6, <4>7, <5>1, <5>2
      <4> QED
        BY <4>7
    <3>c. /\ o.at \in {"clear", "zeros"} => \A p \in Rows : p < o.page => Clear(p)'
          /\ o.at = "home" => \A p \in Rows : Clear(p)'
      BY <3>3, <2>1, <2>4 DEF ClearedInv
    <3> HIDE DEF o, j
    <3>5. CASE j.at \in {"idle", "off"}
      BY <3>5, <3>3, <2>2, <2>4 DEF ClearedInv
    <3>6. CASE j.at = "register" /\ o.at = "home"
      BY <3>6, <3>3, <3>c, <2>2, <2>4 DEF ClearedInv
    <3>7. CASE (j.at = o.at \/ (j.at = "zeros" /\ o.at = "clear"))
               /\ o.at \in {"clear", "home"} /\ j.page = o.page
      <4>1. CASE o.at = "clear"
        <5>1. j.at \in {"clear", "zeros"} /\ \A p \in Rows : p < j.page => Clear(p)'
          BY <4>1, <3>7, <3>c
        <5> QED
          BY <5>1, <3>3, <2>2, <2>4 DEF ClearedInv, j
      <4>2. CASE o.at = "home"
        <5>1. j.at = "home" /\ \A p \in Rows : Clear(p)'
          BY <4>2, <3>7, <3>c
        <5> QED
          BY <5>1, <3>3, <2>2, <2>4 DEF ClearedInv
      <4> QED
        BY <3>7, <4>1, <4>2
    <3>8. CASE ClearPage(Core) /\ o.at = "zeros" /\ j.at = "clear" /\ j.page = o.page + 1
      <4>1. \A p \in Rows : p < j.page => Clear(p)'
        BY <3>8, <3>4
      <4> QED
        BY <4>1, <3>8, <3>3, <2>2, <2>4 DEF ClearedInv, j
    <3>9. CASE ClearPage(Core) /\ o.at = "zeros" /\ j.at = "home" /\ o.page + 1 >= Pages
      <4>1. \A p \in Rows : p < o.page + 1
        BY <3>9, <3>p
      <4>2. \A p \in Rows : Clear(p)'
        BY <4>1, <3>9, <3>4
      <4> QED
        BY <4>2, <3>9, <3>3, <2>2, <2>4 DEF ClearedInv
    <3> QED
      BY <3>2, <3>5, <3>6, <3>7, <3>8, <3>9, <2>4
  <2> QED
    BY <2>3, <2>4
<1>3. ASSUME CoreStep, At(Core) # "broken"
      PROVE  ClearedInv'
  <2>1. PICK from, to :
             /\ At(Core) = from /\ job' = [job EXCEPT ![Core] = to] /\ node' \in BOOLEAN
             /\ node' # node => from \in {"register", "deregister"}
             /\ ram' = ram
             /\ to.at # "idle" => \/ ~node' /\ to.at \in {"init", "clear", "broken"}
                                  \/ node' /\ to.at \in {"clear", "deregister"}
             /\ from = "deregister" => ~node'
             /\ to.at = "clear" => to.page = 0 /\ to.k = 1
    BY <1>3, CoreStepIs
  <2>2. At(Core)' = to.at /\ job'[Core] = to
    BY <2>1, <1>0 DEF At
  <2>3. \A p \in Rows : Clear(p)' <=> Clear(p)
    BY <2>1 DEF Clear
  <2>4. CASE node'
    <3>1. node \/ At(Core) = "register"
      BY <2>1, <2>4, <1>0
    <3> QED
      BY <3>1, <2>3, <2>4 DEF ClearedInv
  <2>5. CASE ~node'
    <3>1. to.at \in {"idle", "init", "clear", "broken"}
      BY <2>1, <2>5
    <3>2. \A p \in Rows : ~(p < 0)
      BY Sizes
    <3> QED
      BY <3>1, <3>2, <2>1, <2>2, <2>5 DEF ClearedInv
  <2> QED
    BY <2>4, <2>5
<1>4. CASE UNCHANGED vars
  BY <1>4 DEF vars, core, ClearedInv, Clear, At
<1> QED
  BY <1>1, <1>2, <1>3, <1>4 DEF Next, Transfer, CoreStep

THEOREM ClearedHolds == Spec => []ClearedInv
BY ClearedInit, ClearedStep, BaseHolds, SoleHolds, TrackHolds, PTL DEF Spec

-----------------------------------------------------------------------------
(* What the display is set to when the node appears.                       *)

\* Byte k of the table comes next: every setting whose last byte has been sent
\* is as wanted, and the display waits for an argument if the byte before k
\* is a command that takes one.  Before the first byte nothing is known of
\* what an earlier probe left it waiting for.
Through(f) == LastOf(f) + (IF f \in WithArgument THEN 1 ELSE 0)
SetUp(k, s, p) ==
    /\ k > 1 => p = IF InitCmds[k - 1] \in WithArgument THEN InitCmds[k - 1] ELSE NoByte
    /\ \A f \in Families : Through(f) < k => s[f] = Wanted[f]

Ready == setting = Wanted /\ pending = NoByte

SetupInv ==
    /\ setting \in [Families -> 0..256] /\ pending \in WithArgument \cup {NoByte}
    /\ node /\ At(Core) \notin {"deregister", "broken"} => Ready
    /\ ~node /\ At(Core) \in {"clear", "zeros", "home", "register"} => Ready
    /\ At(Core) = "init" => SetUp(job[Core].k, setting, pending)

LEMMA Commands ==
    /\ WithArgument \subseteq Families /\ WithArgument \subseteq 0..255 /\ NoByte \notin 0..255
    /\ \hAE \in Families \ WithArgument /\ \hAF \notin WithArgument
    /\ \A b \in 0..255 : Family(b) \in WithArgument <=> b \in WithArgument
    /\ \A b \in WithArgument : Family(b) = b
BY DEF WithArgument, Families, NoByte, Family

\* A byte of the table that takes an argument is a command, and names its own
\* setting.
LEMMA Takes ==
    ASSUME NEW n \in 1..26, InitCmds[n] \in WithArgument
    PROVE  ~ArgAt(n) /\ Family(InitCmds[n]) = InitCmds[n]
<1>1. ~ArgAt(n)
  BY InitTable
<1>2. Family(InitCmds[n]) = InitCmds[n]
  BY Commands
<1> QED
  BY <1>1, <1>2

\* The byte that ends a setting: its command, or the argument after it.
LEMMA ThroughIs ==
    ASSUME NEW f \in Families
    PROVE  /\ LastOf(f) \in 2..26 /\ Through(f) \in 2..26
           /\ ~ArgAt(LastOf(f)) /\ Family(InitCmds[LastOf(f)]) = f
           /\ \A l \in 1..26 : ~ArgAt(l) /\ Family(InitCmds[l]) = f => l <= LastOf(f)
           /\ f \in WithArgument => InitCmds[LastOf(f)] = f /\ ArgAt(Through(f))
<1>1. LastOf(f) \in 2..26 /\ IsLast(LastOf(f), f)
  BY LastOfIs
<1> DEFINE m == LastOf(f)
<1>2. ~ArgAt(m) /\ Family(InitCmds[m]) = f
      /\ \A l \in 1..26 : ~ArgAt(l) /\ Family(InitCmds[l]) = f => l <= m
  BY <1>1, InitTable DEF IsLast
<1>3. InitCmds[m] \in 0..255 /\ InitCmds[26] \notin WithArgument
  BY <1>1, InitTable
<1>t. Through(f) = IF f \in WithArgument THEN m + 1 ELSE m
  BY <1>1 DEF Through
<1>m. m \in 2..26
  BY <1>1
<1> HIDE DEF m
<1>4. CASE f \in WithArgument
  <2>1. InitCmds[m] = f
    BY <1>2, <1>3, <1>4, Commands
  <2>2. m # 26
    BY <2>1, <1>3, <1>4
  <2>3. Through(f) = m + 1 /\ m + 1 \in 2..26 /\ m + 1 > 1 /\ (m + 1) - 1 = m
    BY <1>t, <1>m, <1>4, <2>2
  <2>4. ArgAt(m + 1)
    BY <2>1, <2>3, <1>4 DEF ArgAt
  <2> QED
    BY <2>1, <2>3, <2>4, <1>2, <1>m DEF m
<1>5. CASE f \notin WithArgument
  BY <1>2, <1>t, <1>m, <1>5 DEF m
<1> QED
  BY <1>4, <1>5

LEMMA ReceiveType ==
    ASSUME setting \in [Families -> 0..256], pending \in WithArgument \cup {NoByte},
           NEW b \in 0..255, Receive(b)
    PROVE  setting' \in [Families -> 0..256] /\ pending' \in WithArgument \cup {NoByte}
<1>1. pending' \in WithArgument \cup {NoByte}
  BY DEF Receive
<1>2. \A x : [setting EXCEPT ![x] = b] \in [Families -> 0..256]
  <2> TAKE x
  <2>1. b \in 0..256
    OBVIOUS
  <2> QED
    BY <2>1
<1>3. setting' = setting \/ \E x : setting' = [setting EXCEPT ![x] = b]
  BY DEF Receive
<1> QED
  BY <1>1, <1>2, <1>3

LEMMA ReceiveSets ==
    ASSUME setting \in [Families -> 0..256], NEW k \in 1..26,
           SetUp(k, setting, pending), Receive(InitCmds[k])
    PROVE  SetUp(k + 1, setting', pending')
<1> DEFINE b == InitCmds[k]
<1>0. b \in 0..255 /\ (ArgAt(k) => b \notin WithArgument) /\ (~ArgAt(k) => Family(b) \in Families)
      /\ (k = 1 => b \notin WithArgument /\ ~ArgAt(k))
  BY InitTable DEF ArgAt
<1>r. /\ setting' = IF pending # NoByte THEN [setting EXCEPT ![pending] = b]
                    ELSE IF b \in WithArgument THEN setting
                    ELSE [setting EXCEPT ![Family(b)] = b]
      /\ pending' = IF pending = NoByte /\ b \in WithArgument THEN b ELSE NoByte
  BY DEF Receive
<1>p. k > 1 => pending = IF ArgAt(k) THEN InitCmds[k - 1] ELSE NoByte
  BY DEF SetUp, ArgAt
<1>n. NoByte \notin WithArgument
  BY Commands
<1>s. \A f \in Families : Through(f) < k => setting[f] = Wanted[f]
  BY DEF SetUp
<1> HIDE DEF b
<1>1. pending' = IF b \in WithArgument THEN b ELSE NoByte
  <2>1. CASE k = 1
    BY <2>1, <1>0, <1>r
  <2>2. CASE k > 1
    BY <2>2, <1>0, <1>r, <1>p
  <2> QED
    BY <2>1, <2>2
<1>2. ASSUME NEW f \in Families, Through(f) < k + 1
      PROVE  setting'[f] = Wanted[f]
  <2> DEFINE m == LastOf(f)
  <2>1. /\ m \in 2..26 /\ Through(f) \in 2..26 /\ ~ArgAt(m) /\ Family(InitCmds[m]) = f
        /\ \A l \in 1..26 : ~ArgAt(l) /\ Family(InitCmds[l]) = f => l <= m
        /\ f \in WithArgument => InitCmds[m] = f /\ ArgAt(Through(f))
        /\ Through(f) = IF f \in WithArgument THEN m + 1 ELSE m
    <3>1. m \in 2..26
      BY ThroughIs
    <3>2. Through(f) = IF f \in WithArgument THEN m + 1 ELSE m
      BY <3>1 DEF Through
    <3> QED
      BY <3>1, <3>2, ThroughIs
  <2>w. Wanted[f] = IF f \in WithArgument THEN InitCmds[m + 1] ELSE InitCmds[m]
    BY WantedIs
  <2>k. k > 1
    BY <2>1, <1>2
  <2> HIDE DEF m
  <2>2. CASE ArgAt(k)
    <3> DEFINE g == InitCmds[k - 1]
    <3>1. g \in WithArgument /\ pending = g /\ g # NoByte
      BY <2>2, <2>k, <1>p, <1>n DEF ArgAt
    <3>2. k - 1 \in 1..26 /\ ~ArgAt(k - 1) /\ Family(g) = g
      <4>1. k - 1 \in 1..26
        BY <2>k
      <4> QED
        BY <4>1, <3>1, Takes
    <3>3. setting' = [setting EXCEPT ![g] = b]
      BY <3>1, <1>r
    <3> HIDE DEF g
    <3>4. CASE f = g
      <4>1. k - 1 <= m
        BY <3>2, <3>4, <2>1 DEF g
      <4>2. Through(f) = m + 1
        BY <3>1, <3>4, <2>1
      <4>3. m + 1 = k
        BY <4>1, <4>2, <1>2, <2>1
      <4>4. Wanted[f] = b
        BY <4>3, <2>w, <3>1, <3>4 DEF b
      <4> QED
        BY <4>4, <3>3, <3>4
    <3>5. CASE f # g
      <4>1. Through(f) # k
        <5>1. CASE f \in WithArgument
          <6>1. InitCmds[m] = f /\ Through(f) = m + 1 /\ (m + 1) - 1 = m
            BY <5>1, <2>1
          <6> QED
            BY <6>1, <3>5 DEF g
        <5>2. CASE f \notin WithArgument
          BY <5>2, <2>1, <2>2
        <5> QED
          BY <5>1, <5>2
      <4>2. Through(f) < k
        BY <4>1, <1>2, <2>1
      <4> QED
        BY <4>2, <1>s, <3>3, <3>5
    <3> QED
      BY <3>4, <3>5
  <2>3. CASE ~ArgAt(k)
    <3>1. pending = NoByte
      BY <2>3, <2>k, <1>p
    <3>2. f \in WithArgument => Through(f) < k
      BY <2>1, <2>3, <1>2
    <3>3. CASE Through(f) = k
      <4>1. f \notin WithArgument /\ m = k /\ Family(b) = f
        BY <3>2, <3>3, <2>1 DEF b
      <4>2. b \notin WithArgument
        BY <4>1, <1>0, Commands
      <4>3. setting' = [setting EXCEPT ![f] = b]
        BY <3>1, <4>1, <4>2, <1>r
      <4>4. Wanted[f] = b
        BY <4>1, <2>w DEF b
      <4> QED
        BY <4>3, <4>4
    <3>4. CASE Through(f) < k
      <4>1. setting[f] = Wanted[f]
        BY <3>4, <1>s
      <4>2. Family(b) # f \/ b \in WithArgument
        <5> SUFFICES ASSUME Family(b) = f, b \notin WithArgument PROVE FALSE
          OBVIOUS
        <5>1. f \notin WithArgument
          BY <1>0, Commands
        <5>2. k <= m
          BY <2>1, <2>3 DEF b
        <5> QED
          BY <5>1, <5>2, <3>4, <2>1
      <4> QED
        BY <4>1, <4>2, <3>1, <1>r
    <3> QED
      BY <3>3, <3>4, <1>2, <2>1
  <2> QED
    BY <2>2, <2>3
<1>3. k + 1 > 1 /\ (k + 1) - 1 = k
  OBVIOUS
<1> QED
  BY <1>1, <1>2, <1>3 DEF SetUp, b

\* After the last byte everything is as wanted.
LEMMA SetUpEnds ==
    ASSUME NEW s \in [Families -> 0..256], NEW p, SetUp(27, s, p)
    PROVE  s = Wanted /\ p = NoByte
<1>1. p = NoByte
  <2>1. InitCmds[26] \notin WithArgument /\ 27 - 1 = 26 /\ 27 > 1
    BY InitTable
  <2> QED
    BY <2>1 DEF SetUp
<1>2. \A f \in Families : s[f] = Wanted[f]
  <2> SUFFICES ASSUME NEW f \in Families PROVE s[f] = Wanted[f]
    OBVIOUS
  <2>1. Through(f) < 27
    BY ThroughIs
  <2> QED
    BY <2>1 DEF SetUp
<1>3. \E w : Wanted = [f \in Families |-> w[f]]
  <2>1. Wanted = [f \in Families |-> Wanted[f]]
    BY DEF Wanted
  <2> QED
    BY <2>1
<1> QED
  BY <1>1, <1>2, <1>3

LEMMA SetupInit == Init => SetupInv
<1> SUFFICES ASSUME Init PROVE SetupInv
  OBVIOUS
<1>1. setting \in [Families -> 0..256] /\ pending \in WithArgument \cup {NoByte}
  BY DEF Init, NoByte
<1>2. node = FALSE /\ At(Core) = "idle"
  BY NoJobIs DEF Init, At, Users
<1> QED
  BY <1>1, <1>2 DEF SetupInv

LEMMA SetupTransfer ==
    ASSUME Base, SetupInv, NEW u \in Users, Transfer(u), At(Core) # "broken"
    PROVE  SetupInv'
<1>0. DOMAIN job = Users /\ Users = Writers \cup {Core} /\ node \in BOOLEAN
  BY Sizes DEF Base, JobInv
<1>1. setting' = setting /\ pending' = pending /\ node' = node
  BY DEF Transfer, SetCursor, ClearPage, PutChar, PutGlyph, PutSpace, SetCursorFails,
         ClearPageFails, PutFails, Continue, Return, core
<1>2. CASE u # Core
  <2>1. \E j : job' = [job EXCEPT ![u] = j]
    BY TransferMoves DEF Base, Moves
  <2>2. job'[Core] = job[Core]
    BY <2>1, <1>2, <1>0
  <2> QED
    BY <1>1, <2>2 DEF SetupInv, At, Ready
<1>3. CASE u = Core
  <2>1. /\ job[Core].at \in {"clear", "zeros", "home"}
        /\ job'[Core].at \in {"idle", "off", "register", "clear", "zeros", "home"}
    BY <1>3, CoreTransfer
  <2>2. Ready
    BY <2>1, <1>0 DEF SetupInv, At
  <2> QED
    BY <1>1, <2>1, <2>2 DEF SetupInv, At, Ready
<1> QED
  BY <1>2, <1>3

LEMMA SetupCore ==
    ASSUME Base, SetupInv, CoreStep
    PROVE  SetupInv'
<1>0. /\ DOMAIN job = Users /\ Core \in Users /\ node \in BOOLEAN
      /\ setting \in [Families -> 0..256] /\ pending \in WithArgument \cup {NoByte}
  BY Sizes DEF Base, JobInv, SetupInv
<1>j. /\ DOMAIN job[Core] = Fields
      /\ At(Core) = "init" => job[Core].k \in 1..26 /\ ~node
      /\ At(Core) = "register" => ~node
  BY <1>0 DEF Base, JobInv, JobOK, At
<1>1. CASE Probe
  <2> DEFINE to == [NewJob(<<>>) EXCEPT !.at = "init"]
  <2>1. job' = [job EXCEPT ![Core] = to] /\ node' = node /\ setting' = setting /\ pending' = pending
        /\ ~node
    BY <1>1 DEF Probe, CoreGoes
  <2>2. to.at = "init" /\ to.k = 1
    BY NewJobIs, PutAtIs
  <2>3. At(Core)' = "init" /\ job'[Core].k = 1
    BY <2>1, <2>2, <1>0 DEF At
  <2>4. SetUp(1, setting, pending)
    BY ThroughIs DEF SetUp
  <2> QED
    BY <2>1, <2>3, <2>4, <1>0 DEF SetupInv
<1>2. CASE InitCmd
  <2> DEFINE k == job[Core].k
             up == [job[Core] EXCEPT !.k = @ + 1]
             to == IF k < Len(InitCmds) THEN up ELSE NewJob(<<>>)
  <2>g. CoreGoes("init", to) /\ node' = node /\ Receive(InitCmds[k])
    BY <1>2, Zenon DEF InitCmd
  <2>1. At(Core) = "init" /\ job' = [job EXCEPT ![Core] = to] /\ node' = node /\ Receive(InitCmds[k])
    BY <2>g DEF CoreGoes
  <2>i. At(Core) = "init"
    BY <2>1
  <2>2. k \in 1..26 /\ InitCmds[k] \in 0..255 /\ Len(InitCmds) = 26
    BY <2>i, <1>j, InitByte, InitLen
  <2>3. /\ setting' \in [Families -> 0..256] /\ pending' \in WithArgument \cup {NoByte}
        /\ SetUp(k + 1, setting', pending')
    BY <2>1, <2>2, <1>0, ReceiveType, ReceiveSets, Zenon DEF SetupInv
  <2>4. job'[Core] = to
    BY <2>1, <1>0
  <2>5. CASE k < 26
    <3>1. to = up
      BY <2>2, <2>5
    <3>2. up.at = "init" /\ up.k = k + 1
      BY <1>j, <2>1, PutKIs DEF At
    <3>3. At(Core)' = "init" /\ job'[Core].k = k + 1
      BY <3>1, <3>2, <2>4 DEF At
    <3> HIDE DEF k, to, up
    <3>4. SetUp(job'[Core].k, setting', pending')
      BY <3>3, <2>3
    <3> QED
      BY <3>3, <3>4, <2>1, <2>3, <1>j DEF SetupInv
  <2>6. CASE ~(k < 26)
    <3>1. k + 1 = 27 /\ to = NewJob(<<>>)
      BY <2>2, <2>6
    <3>2. At(Core)' = "clear"
      <4>1. job'[Core] = NewJob(<<>>)
        BY <3>1, <2>4
      <4> QED
        BY <4>1, NewJobIs DEF At
    <3>3. Ready'
      BY <3>1, <2>3, SetUpEnds DEF Ready
    <3> QED
      BY <3>2, <3>3, <2>3 DEF SetupInv
  <2> QED
    BY <2>5, <2>6
<1>3. CASE InitCmdFails
  <2>1. At(Core) = "init" /\ job' = [job EXCEPT ![Core] = NoJob] /\ node' = node
    BY <1>3 DEF InitCmdFails, CoreGoes
  <2>2. At(Core)' = "idle" /\ ~node'
    BY <2>1, <1>0, <1>j, NoJobIs DEF At
  <2>i. At(Core) = "init"
    BY <2>1
  <2>3. InitCmds[job[Core].k] \in 0..255
    BY <2>i, <1>j, InitByte
  <2>4. setting' \in [Families -> 0..256] /\ pending' \in WithArgument \cup {NoByte}
    <3>1. CASE Receive(InitCmds[job[Core].k])
      BY <3>1, <1>0, <2>3, ReceiveType, Zenon
    <3>2. CASE setting' = setting /\ pending' = pending
      BY <3>2, <1>0
    <3> QED
      BY <1>3, <3>1, <3>2 DEF InitCmdFails
  <2> QED
    BY <2>2, <2>4 DEF SetupInv
<1>4. CASE Register
  <2>1. At(Core) = "register" /\ job' = [job EXCEPT ![Core] = NoJob]
        /\ setting' = setting /\ pending' = pending
    BY <1>4 DEF Register, CoreGoes
  <2>2. Ready /\ At(Core)' = "idle"
    BY <2>1, <1>0, <1>j, NoJobIs DEF At, SetupInv
  <2> QED
    BY <2>1, <2>2, <1>0 DEF SetupInv, Ready
<1>5. CASE Remove
  <2>1. node /\ At(Core) = "idle" /\ setting' = setting /\ pending' = pending
    BY <1>5 DEF Remove, CoreGoes, core
  <2>2. job' = [job EXCEPT ![Core] = NewJob(<<>>)]
    BY <1>5 DEF Remove, CoreGoes
  <2>3. At(Core)' = "clear" /\ Ready
    BY <2>1, <2>2, <1>0, NewJobIs DEF At, SetupInv
  <2> QED
    BY <2>1, <2>3, <1>0 DEF SetupInv, Ready
<1>6. CASE Off
  <2>1. job' = [job EXCEPT ![Core] = [job[Core] EXCEPT !.at = "deregister"]]
    BY <1>6 DEF Off, CoreGoes
  <2>2. At(Core)' = "deregister"
    BY <2>1, <1>0, <1>j, PutAtIs DEF At
  <2>3. \hAE \in 0..255
    OBVIOUS
  <2>4. setting' \in [Families -> 0..256] /\ pending' \in WithArgument \cup {NoByte}
    <3>1. CASE Receive(\hAE)
      BY <3>1, <1>0, <2>3, ReceiveType, Zenon
    <3>2. CASE setting' = setting /\ pending' = pending
      BY <3>2, <1>0
    <3> QED
      BY <1>6, <3>1, <3>2, Zenon DEF Off
  <2> QED
    BY <2>2, <2>4 DEF SetupInv
<1>7. CASE Deregister
  <2> DEFINE b == [NoJob EXCEPT !.at = "broken"]
  <2>1. job' = [job EXCEPT ![Core] = IF Inside # {Core} THEN b ELSE NoJob]
        /\ node' = FALSE /\ setting' = setting /\ pending' = pending
    BY <1>7 DEF Deregister, CoreGoes
  <2>2. b.at = "broken"
    BY NoJobIs, PutAtIs
  <2>3. At(Core)' \in {"broken", "idle"}
    BY <2>1, <2>2, <1>0, NoJobIs DEF At
  <2> QED
    BY <2>1, <2>3, <1>0 DEF SetupInv
<1> QED
  BY <1>1, <1>2, <1>3, <1>4, <1>5, <1>6, <1>7 DEF CoreStep

LEMMA SetupStep == Base /\ SetupInv /\ [Next]_vars => SetupInv'
<1> SUFFICES ASSUME Base, SetupInv, [Next]_vars PROVE SetupInv'
  OBVIOUS
<1>1. ASSUME NEW w \in Writers, NEW t \in Texts[w], Write(w, t)
      PROVE  SetupInv'
  <2>1. setting' = setting /\ pending' = pending /\ node' = node
    BY <1>1 DEF Write, core
  <2>2. \E s : job' = [job EXCEPT ![w] = NewJob(s)]
    BY <1>1, WriteIs
  <2>3. job'[Core] = job[Core]
    BY <2>2, <1>1, WriteIs, Sizes DEF Base, JobInv
  <2> QED
    BY <2>1, <2>3 DEF SetupInv, At, Ready
<1>2. ASSUME NEW u \in Users, Transfer(u), At(Core) # "broken"
      PROVE  SetupInv'
  BY <1>2, SetupTransfer
<1>3. ASSUME CoreStep
      PROVE  SetupInv'
  BY <1>3, SetupCore
<1>4. CASE UNCHANGED vars
  BY <1>4 DEF vars, core, SetupInv, Ready, At
<1> QED
  BY <1>1, <1>2, <1>3, <1>4 DEF Next, Transfer, CoreStep

THEOREM SetupHolds == Spec => []SetupInv
BY SetupInit, SetupStep, BaseHolds, PTL DEF Spec

\* Once /dev/ssd1306 is there the display has every setting of the table, waits
\* for no argument and shows no junk, whichever probes failed before, between a
\* command and its argument too (ssd1306_drv.c:277-325, 385-398).
THEOREM NodeIsReady == Spec => []NodeMeansReady
<1>1. ClearedInv /\ SetupInv => NodeMeansReady
  BY DEF ClearedInv, Clear, SetupInv, Ready, NodeMeansReady
<1> QED
  BY <1>1, ClearedHolds, SetupHolds, PTL

-----------------------------------------------------------------------------
(* The layout of a text, one character after the other.                    *)

Text(t) == Len(t) \in Nat /\ DOMAIN t = 1..Len(t) /\ (Len(t) = 0 => t = <<>>)

\* Where the driver's cursor is once n characters are printed.
ColAfter(t, n) == IF n = 0 \/ t[n] = NL THEN 0 ELSE Left(t, n) + Cell

Paragraph(t, n) == {m \in Chars(t) : m < n /\ \A x \in m..n : t[x] # NL}
Broken(t, n) == {m \in 1..n : Breaks(t, m)}

LEMMA ParagraphIs ==
    ASSUME NEW t, Text(t), NEW n \in 1..Len(t)
    PROVE  /\ IsFiniteSet(Paragraph(t, n)) /\ InParagraph(t, n) = Cardinality(Paragraph(t, n))
           /\ InParagraph(t, n) \in Nat
           /\ n = 1 \/ t[n - 1] = NL => InParagraph(t, n) = 0
           /\ n > 1 /\ t[n] # NL /\ t[n - 1] # NL => InParagraph(t, n) = InParagraph(t, n - 1) + 1
<1>1. ASSUME NEW k \in 1..Len(t) PROVE IsFiniteSet(Paragraph(t, k))
  <2>1. Paragraph(t, k) \subseteq 1..Len(t)
    BY DEF Paragraph, Chars, Text
  <2>2. IsFiniteSet(1..Len(t))
    BY FS_Interval DEF Text
  <2> QED
    BY <2>1, <2>2, FS_Subset
<1>2. \A k : InParagraph(t, k) = Cardinality(Paragraph(t, k))
  BY DEF InParagraph, Paragraph
<1>3. InParagraph(t, n) \in Nat
  BY <1>1, <1>2, FS_CardinalityType
<1>4. ASSUME n = 1 \/ t[n - 1] = NL PROVE InParagraph(t, n) = 0
  <2>1. ASSUME NEW m \in Paragraph(t, n) PROVE FALSE
    <3>1. m \in 1..Len(t) /\ m < n /\ \A x \in m..n : t[x] # NL
      BY DEF Paragraph, Chars, Text
    <3>2. n # 1 /\ n - 1 \in m..n
      BY <3>1
    <3> QED
      BY <3>1, <3>2, <1>4
  <2>2. Paragraph(t, n) = {}
    BY <2>1
  <2> QED
    BY <2>2, <1>2, FS_EmptySet
<1>5. ASSUME n > 1, t[n] # NL, t[n - 1] # NL
      PROVE  InParagraph(t, n) = InParagraph(t, n - 1) + 1
  <2>1. n - 1 \in 1..Len(t)
    BY <1>5 DEF Text
  <2>2. Paragraph(t, n) = Paragraph(t, n - 1) \cup {n - 1}
    <3>1. ASSUME NEW m \in Paragraph(t, n) PROVE m \in Paragraph(t, n - 1) \cup {n - 1}
      <4>1. m \in Chars(t) /\ m \in 1..Len(t) /\ m < n /\ \A x \in m..n : t[x] # NL
        BY DEF Paragraph, Chars, Text
      <4>2. m = n - 1 \/ m < n - 1
        BY <4>1
      <4>3. \A x \in m..(n - 1) : x \in m..n
        BY <4>1
      <4> QED
        BY <4>1, <4>2, <4>3 DEF Paragraph
    <3>2. ASSUME NEW m \in Paragraph(t, n - 1) PROVE m \in Paragraph(t, n)
      <4>1. m \in Chars(t) /\ m \in 1..Len(t) /\ m < n - 1 /\ \A x \in m..(n - 1) : t[x] # NL
        BY DEF Paragraph, Chars, Text
      <4>2. \A x \in m..n : x \in m..(n - 1) \/ x = n
        BY <4>1
      <4>3. m < n
        BY <4>1
      <4> QED
        BY <4>1, <4>2, <4>3, <1>5 DEF Paragraph
    <3>3. n - 1 \in Paragraph(t, n)
      <4>1. \A x \in (n - 1)..n : x = n - 1 \/ x = n
        OBVIOUS
      <4>2. n - 1 \in Chars(t) /\ n - 1 < n
        BY <2>1, <1>5 DEF Chars, Text
      <4> QED
        BY <4>1, <4>2, <1>5 DEF Paragraph
    <3> QED
      BY <3>1, <3>2, <3>3
  <2>3. n - 1 \notin Paragraph(t, n - 1)
    BY DEF Paragraph
  <2> QED
    BY <2>1, <2>2, <2>3, <1>1, <1>2, FS_AddElement
<1> QED
  BY <1>1, <1>2, <1>3, <1>4, <1>5

LEMMA RowIs ==
    ASSUME NEW t, Text(t)
    PROVE  /\ Row(t, 0) = 0
           /\ \A n \in 1..Len(t) :
                /\ Row(t, n) \in Rows /\ Row(t, n - 1) \in Rows
                /\ Breaks(t, n) => Row(t, n) = (Row(t, n - 1) + 1) % Pages
                /\ ~Breaks(t, n) => Row(t, n) = Row(t, n - 1)
<1>1. \A n : Row(t, n) = Cardinality(Broken(t, n)) % Pages
  BY DEF Row, Broken
<1>2. ASSUME NEW n \in 0..Len(t) PROVE IsFiniteSet(Broken(t, n)) /\ Cardinality(Broken(t, n)) \in Nat
  <2>1. Broken(t, n) \subseteq 1..n
    BY DEF Broken
  <2>2. IsFiniteSet(1..n)
    BY FS_Interval
  <2> QED
    BY <2>1, <2>2, FS_Subset, FS_CardinalityType
<1>3. Row(t, 0) = 0
  <2>1. Broken(t, 0) = {}
    BY DEF Broken
  <2>2. 0 % Pages = 0
    BY Sizes
  <2> QED
    BY <1>1, <2>1, <2>2, FS_EmptySet
<1>4. ASSUME NEW n \in 1..Len(t)
      PROVE  /\ Row(t, n) \in Rows /\ Row(t, n - 1) \in Rows
             /\ Breaks(t, n) => Row(t, n) = (Row(t, n - 1) + 1) % Pages
             /\ ~Breaks(t, n) => Row(t, n) = Row(t, n - 1)
  <2> DEFINE a == Cardinality(Broken(t, n - 1))
             b == Cardinality(Broken(t, n))
  <2>1. n \in 0..Len(t) /\ n - 1 \in 0..Len(t)
    BY DEF Text
  <2>2. a \in Nat /\ b \in Nat /\ IsFiniteSet(Broken(t, n - 1))
    BY <2>1, <1>2
  <2>3. Row(t, n) = b % Pages /\ Row(t, n - 1) = a % Pages
    BY <1>1
  <2>4. Row(t, n) \in Rows /\ Row(t, n - 1) \in Rows
    BY <2>2, <2>3, Sizes, ModNat
  <2>5. \A m \in 1..n : m \in 1..(n - 1) \/ m = n
    OBVIOUS
  <2>6. \A m \in 1..(n - 1) : m \in 1..n /\ m # n
    OBVIOUS
  <2>7. ASSUME Breaks(t, n) PROVE Row(t, n) = (Row(t, n - 1) + 1) % Pages
    <3>1. Broken(t, n) = Broken(t, n - 1) \cup {n} /\ n \notin Broken(t, n - 1)
      BY <2>5, <2>6, <2>7 DEF Broken
    <3>2. b = a + 1
      BY <3>1, <2>2, FS_AddElement
    <3> HIDE DEF a, b
    <3>3. (a + 1) % Pages = ((a % Pages) + 1) % Pages
      BY <2>2, Sizes, ModNext
    <3> QED
      BY <3>2, <3>3, <2>3
  <2>8. ASSUME ~Breaks(t, n) PROVE Row(t, n) = Row(t, n - 1)
    <3>1. Broken(t, n) = Broken(t, n - 1)
      BY <2>5, <2>6, <2>8 DEF Broken
    <3> QED
      BY <3>1, <2>3
  <2> QED
    BY <2>4, <2>7, <2>8
<1> QED
  BY <1>3, <1>4

LEMMA LineIs ==
    /\ Cell \in Nat /\ Cell > 0 /\ PerLine \in Nat /\ PerLine > 0
    /\ PerLine * Cell \in Nat /\ PerLine * Cell <= Width /\ Width < PerLine * Cell + Cell
    /\ \A r \in Nat : r * Cell \in Nat /\ (r + 1) * Cell = r * Cell + Cell
    /\ \A r \in Nat : r < PerLine => r * Cell + Cell <= Width
<1>1. Cell \in Nat /\ Cell > 0 /\ Width \in Nat /\ Cell <= Width
  BY Sizes
<1> DEFINE q == Width \div Cell
           s == Width % Cell
<1>2. q \in Nat /\ s \in 0..(Cell - 1) /\ Width = q * Cell + s
  BY <1>1
<1>3. q * Cell \in Nat
  BY <1>1, <1>2
<1>4. q > 0
  BY <1>1, <1>2
<1>5. \A r \in Nat : r * Cell \in Nat /\ (r + 1) * Cell = r * Cell + Cell
  BY <1>1
<1>6. \A r \in Nat : r < q => r * Cell + Cell <= q * Cell
  <2> SUFFICES ASSUME NEW r \in Nat, r < q PROVE r * Cell + Cell <= q * Cell
    OBVIOUS
  <2>1. PICK d \in Nat : q = r + 1 + d
    <3>1. q - (r + 1) \in Nat /\ q = r + 1 + (q - (r + 1))
      BY <1>2
    <3> QED
      BY <3>1
  <2>2. d * Cell \in Nat /\ (r + 1 + d) * Cell = (r + 1) * Cell + d * Cell
    BY <1>1
  <2> HIDE DEF q
  <2>3. q * Cell = r * Cell + Cell + d * Cell
    BY <2>1, <2>2, <1>5
  <2> QED
    BY <2>2, <2>3, <1>5, <1>1
<1>7. PerLine = q
  BY DEF PerLine
<1> HIDE DEF q, s
<1> QED
  BY <1>1, <1>2, <1>3, <1>4, <1>5, <1>6, <1>7

\* Where a character goes: where the one before it ended, or to the next line
\* if it does not fit.
LEMMA PlaceIs ==
    ASSUME NEW t, Text(t), NEW n \in 1..Len(t), t[n] # NL
    PROVE  /\ Left(t, n) \in Nat /\ Left(t, n) + Cell <= Width
           /\ ColAfter(t, n - 1) \in Nat
           /\ Breaks(t, n) <=> ~(ColAfter(t, n - 1) + Cell <= Width)
           /\ Left(t, n) = IF Breaks(t, n) THEN 0 ELSE ColAfter(t, n - 1)
<1> DEFINE r(k) == InParagraph(t, k) % PerLine
<1>1. ASSUME NEW k \in 1..Len(t)
      PROVE  /\ InParagraph(t, k) \in Nat /\ r(k) \in Nat /\ r(k) < PerLine
             /\ Left(t, k) = r(k) * Cell /\ Left(t, k) \in Nat /\ Left(t, k) + Cell <= Width
  <2>1. InParagraph(t, k) \in Nat
    BY ParagraphIs
  <2>2. r(k) \in 0..(PerLine - 1)
    BY <2>1, LineIs, ModNat
  <2>3. Left(t, k) = r(k) * Cell
    BY DEF Left
  <2> HIDE DEF r
  <2>4. r(k) \in Nat /\ r(k) < PerLine
    BY <2>2, LineIs
  <2>5. r(k) * Cell \in Nat /\ r(k) * Cell + Cell <= Width
    BY <2>4, LineIs
  <2> QED
    BY <2>1, <2>3, <2>4, <2>5
<1>2. Breaks(t, n) <=> InParagraph(t, n) > 0 /\ r(n) = 0
  BY DEF Breaks
<1> HIDE DEF r
<1>3. CASE n = 1 \/ t[n - 1] = NL
  <2>1. InParagraph(t, n) = 0
    BY <1>3, ParagraphIs
  <2>2. r(n) = 0
    BY <2>1, LineIs DEF r
  <2>3. ~Breaks(t, n) /\ Left(t, n) = 0
    BY <1>1, <1>2, <2>1, <2>2, LineIs
  <2>4. ColAfter(t, n - 1) = 0
    BY <1>3 DEF ColAfter
  <2> QED
    BY <2>3, <2>4, <1>1, LineIs, Sizes
<1>4. CASE ~(n = 1 \/ t[n - 1] = NL)
  <2>0. n - 1 \in 1..Len(t) /\ n > 1
    BY <1>4 DEF Text
  <2> DEFINE p == InParagraph(t, n - 1)
             s == r(n - 1)
  <2>1. InParagraph(t, n) = p + 1
    BY <1>4, <2>0, ParagraphIs
  <2>2. p \in Nat /\ s = p % PerLine /\ s \in Nat /\ s < PerLine
    BY <1>1, <2>0 DEF r
  <2>3. ColAfter(t, n - 1) = s * Cell + Cell
    BY <1>1, <1>4, <2>0 DEF ColAfter
  <2>4. r(n) = (s + 1) % PerLine /\ p + 1 > 0
    <3>1. r(n) = (p + 1) % PerLine
      BY <2>1 DEF r
    <3>2. (p + 1) % PerLine = ((p % PerLine) + 1) % PerLine
      BY <2>2, LineIs, ModNext
    <3>3. p + 1 > 0
      BY <2>2
    <3> QED
      BY <3>1, <3>2, <3>3, <2>2
  <2> HIDE DEF p, s
  <2>5. Breaks(t, n) <=> r(n) = 0
    BY <1>2, <2>1, <2>4
  <2>6. CASE s + 1 < PerLine
    <3>0. s + 1 \in Nat /\ PerLine \in Nat
      BY <2>2, LineIs
    <3>1. r(n) = s + 1
      BY <3>0, <2>4, <2>6, ModSmall
    <3>2. Left(t, n) = s * Cell + Cell
      BY <1>1, <3>1, <2>2, LineIs
    <3>3. r(n) # 0
      BY <3>1, <2>2
    <3> QED
      BY <3>1, <3>2, <3>3, <2>3, <2>5, <1>1
  <2>7. CASE s + 1 = PerLine
    <3>1. PerLine % PerLine = 0
      <4>1. 1 * PerLine + 0 = PerLine
        BY LineIs
      <4>2. (1 * PerLine + 0) % PerLine = 0
        BY LineIs, ModOf
      <4> QED
        BY <4>1, <4>2
    <3>2. r(n) = 0
      BY <3>1, <2>4, <2>7
    <3>3. Left(t, n) = 0 /\ Breaks(t, n)
      BY <1>1, <3>2, <2>5, LineIs
    <3>4. s * Cell + Cell = PerLine * Cell /\ s * Cell + Cell \in Nat
      BY <2>2, <2>7, LineIs
    <3>5. ~(ColAfter(t, n - 1) + Cell <= Width) /\ ColAfter(t, n - 1) \in Nat
      BY <3>4, <2>3, LineIs, Sizes
    <3> QED
      BY <3>3, <3>5, <1>1
  <2> QED
    BY <2>2, <2>6, <2>7, LineIs
<1> QED
  BY <1>3, <1>4

\* What the display shows at a place once n characters are printed.
Over(t, n, p, c) ==
    {k \in Chars(t) : k <= n /\ Row(t, k) = p /\ Left(t, k) <= c /\ c < Left(t, k) + Cell}
LastOver(t, n, p, c) ==
    CHOOSE k \in Over(t, n, p, c) : \A m \in Over(t, n, p, c) : m <= k
Pixel(t, n, p, c) ==
    IF Over(t, n, p, c) = {} \/ c = Left(t, LastOver(t, n, p, c)) + FontWidth THEN Blank
    ELSE <<t[LastOver(t, n, p, c)], c - Left(t, LastOver(t, n, p, c)) + 1>>

\* Character n is printed at row p, over column c.
Covers(t, n, p, c) ==
    t[n] # NL /\ Row(t, n) = p /\ Left(t, n) <= c /\ c < Left(t, n) + Cell

LEMMA PixelNone == ASSUME NEW t, Text(t), NEW p, NEW c PROVE Pixel(t, 0, p, c) = Blank
<1>1. Over(t, 0, p, c) = {}
  BY DEF Over, Chars, Text
<1> QED
  BY <1>1 DEF Pixel

LEMMA PixelStep ==
    ASSUME NEW t, Text(t), NEW n \in 1..Len(t), NEW p, NEW c
    PROVE  /\ ~Covers(t, n, p, c) => Pixel(t, n, p, c) = Pixel(t, n - 1, p, c)
           /\ Covers(t, n, p, c) =>
                Pixel(t, n, p, c) = IF c = Left(t, n) + FontWidth THEN Blank
                                    ELSE <<t[n], c - Left(t, n) + 1>>
<1>1. ASSUME ~Covers(t, n, p, c) PROVE Pixel(t, n, p, c) = Pixel(t, n - 1, p, c)
  <2>1. ASSUME NEW k PROVE k \in Over(t, n, p, c) <=> k \in Over(t, n - 1, p, c)
    <3>1. k \in Over(t, n, p, c) => k \in Int /\ k # n
      BY <1>1 DEF Over, Chars, Covers, Text
    <3>2. k \in Over(t, n - 1, p, c) => k \in Int
      BY DEF Over, Chars, Text
    <3>3. k \in Int /\ k # n => (k <= n <=> k <= n - 1)
      OBVIOUS
    <3>4. k \in Int => (k <= n - 1 => k <= n)
      OBVIOUS
    <3> QED
      BY <3>1, <3>2, <3>3, <3>4 DEF Over
  <2>2. Over(t, n, p, c) = Over(t, n - 1, p, c)
    BY <2>1
  <2> QED
    BY <2>2 DEF Pixel, LastOver
<1>2. ASSUME Covers(t, n, p, c)
      PROVE  Pixel(t, n, p, c) = IF c = Left(t, n) + FontWidth THEN Blank
                                 ELSE <<t[n], c - Left(t, n) + 1>>
  <2>1. n \in Over(t, n, p, c)
    BY <1>2 DEF Covers, Over, Chars, Text
  <2>2. \A m \in Over(t, n, p, c) : m \in Int /\ m <= n
    BY DEF Over, Chars, Text
  <2>3. LastOver(t, n, p, c) \in Over(t, n, p, c)
        /\ \A m \in Over(t, n, p, c) : m <= LastOver(t, n, p, c)
    BY <2>1, <2>2 DEF LastOver
  <2>4. LastOver(t, n, p, c) = n
    BY <2>1, <2>2, <2>3
  <2> QED
    BY <2>1, <2>4 DEF Pixel
<1> QED
  BY <1>1, <1>2

\* After the last character it is the layout.
LEMMA PixelLast ==
    ASSUME NEW t, Text(t), NEW r, r = [p \in Rows |-> [c \in Columns |-> r[p][c]]],
           \A p \in Rows : \A c \in Columns : r[p][c] = Pixel(t, Len(t), p, c)
    PROVE  r = Layout(t)
<1> DEFINE over(p, c) == {n \in Chars(t) : Row(t, n) = p /\ Left(t, n) <= c /\ c < Left(t, n) + Cell}
           last(p, c) == CHOOSE n \in over(p, c) : \A m \in over(p, c) : m <= n
           value(p, c) == IF over(p, c) = {} \/ c = Left(t, last(p, c)) + FontWidth THEN Blank
                          ELSE <<t[last(p, c)], c - Left(t, last(p, c)) + 1>>
<1>1. Layout(t) = [p \in Rows |-> [c \in Columns |-> value(p, c)]]
  BY DEF Layout
<1>2. ASSUME NEW p \in Rows, NEW c \in Columns PROVE value(p, c) = Pixel(t, Len(t), p, c)
  <2>1. Over(t, Len(t), p, c) = over(p, c)
    BY DEF Over, Chars, Text
  <2> QED
    BY <2>1 DEF Pixel, LastOver
<1> HIDE DEF value
<1>3. \A p \in Rows : \A c \in Columns : r[p][c] = value(p, c)
  BY <1>2
<1> DEFINE rows == [p \in Rows |-> [c \in Columns |-> r[p][c]]]
<1>4. rows = [p \in Rows |-> [c \in Columns |-> value(p, c)]]
  BY <1>3
<1> QED
  BY <1>1, <1>4

-----------------------------------------------------------------------------
(* What the display shows while a write has the driver to itself.          *)

ScreenInv == ram = [p \in Rows |-> [c \in Columns |-> ram[p][c]]]

\* At the place "j" the screen is r and the driver's cursor is cur.
ShowAt(j, r, cur) ==
    LET t == j.text
        i == j.i
    IN  /\ Text(t)
        /\ j.at \in {"clear", "zeros", "home"} => i = 1
        /\ j.at \in {"clear", "zeros"} =>
             \A p \in Rows : p < j.page => \A c \in Columns : r[p][c] = Blank
        /\ j.at = "home" => j.page = 0 /\ \A p \in Rows : \A c \in Columns : r[p][c] = Blank
        /\ j.at \in {"char", "line", "glyph", "space"} => i \in 1..Len(t)
        /\ j.at \in {"char", "line", "glyph"} =>
             \A p \in Rows : \A c \in Columns : r[p][c] = Pixel(t, i - 1, p, c)
        /\ j.at = "char" => cur.page = Row(t, i - 1) /\ cur.col = ColAfter(t, i - 1)
        /\ j.at = "line" => j.page = Row(t, i) /\ Breaks(t, i)
        /\ j.at \in {"glyph", "space"} =>
             t[i] # NL /\ cur.page = Row(t, i) /\ cur.col = Left(t, i)
        /\ j.at = "space" =>
             \A p \in Rows : \A c \in Columns :
               r[p][c] = IF p = Row(t, i) /\ Left(t, i) <= c /\ c < Left(t, i) + FontWidth
                           THEN <<t[i], c - Left(t, i) + 1>> ELSE Pixel(t, i - 1, p, c)

ShowInv == \A w \in alone : At(w) # "idle" => ShowAt(job[w], ram, cursor)

\* Nobody is in the driver while the success of a write is remembered.
DoneInv ==
    shown # {} =>
      /\ node /\ \A u \in Users : At(u) = "idle"
      /\ \A t \in shown : ram = Layout(t)

\* Data that fits between the cursor and the edge does not wrap.
LEMMA DataPlaces ==
    ASSUME Base, NEW bytes, NEW n \in Nat, Data(bytes, n), col + n <= Width
    PROVE  \A p \in Rows : \A c \in Columns :
             ram'[p][c] = IF p = page /\ col <= c /\ c < col + n THEN bytes[c - col + 1]
                          ELSE ram[p][c]
<1>0. page \in Rows /\ col \in Nat /\ DOMAIN ram = Rows
  BY DEF Base, CursorInv
<1> DEFINE d(c) == (c - col + Width) % Width
           row == [c \in Columns |-> IF d(c) < n THEN bytes[d(c) + 1] ELSE ram[page][c]]
<1>1. ram' = [ram EXCEPT ![page] = row]
  BY DEF Data
<1>2. ASSUME NEW c \in Columns
      PROVE  /\ d(c) < n <=> col <= c /\ c < col + n
             /\ col <= c => d(c) = c - col
  <2>1. c \in Nat /\ c < Width /\ Width \in Nat
    BY Sizes
  <2>2. CASE col <= c
    <3>1. c - col \in Nat /\ c - col < Width
      BY <1>0, <2>1, <2>2
    <3>2. d(c) = c - col
      BY <3>1, <2>1, ModSmall
    <3> QED
      BY <3>2, <2>1, <2>2, <1>0
  <2>3. CASE ~(col <= c)
    <3>1. c - col + Width \in Nat /\ c - col + Width < Width
      BY <1>0, <2>1, <2>3
    <3>2. d(c) = c - col + Width
      BY <3>1, <2>1, ModSmall
    <3> QED
      BY <3>2, <2>1, <2>3, <1>0
  <2> QED
    BY <2>2, <2>3
<1>3. \A c \in Columns : row[c] = IF d(c) < n THEN bytes[d(c) + 1] ELSE ram[page][c]
  OBVIOUS
<1> HIDE DEF row, d
<1>4. ASSUME NEW p \in Rows, NEW c \in Columns
      PROVE  ram'[p][c] = IF p = page /\ col <= c /\ c < col + n THEN bytes[c - col + 1]
                          ELSE ram[p][c]
  <2>1. CASE p # page
    BY <2>1, <1>0, <1>1
  <2>2. CASE p = page
    <3>1. ram'[p][c] = row[c]
      BY <2>2, <1>0, <1>1
    <3> QED
      BY <3>1, <2>2, <1>2, <1>3
  <2> QED
    BY <2>1, <2>2
<1> QED
  BY <1>4

\* A whole page of zeros, from any column on.
LEMMA ZerosPlaces ==
    ASSUME Base, Data([c \in 1..Width |-> Blank], Width)
    PROVE  \A p \in Rows : \A c \in Columns :
             ram'[p][c] = IF p = page THEN Blank ELSE ram[p][c]
<1>0. page \in Rows /\ col \in Nat /\ DOMAIN ram = Rows
  BY DEF Base, CursorInv
<1> DEFINE d(c) == (c - col + Width) % Width
           zeros == [c \in 1..Width |-> Blank]
           row == [c \in Columns |-> IF d(c) < Width THEN zeros[d(c) + 1] ELSE ram[page][c]]
<1>1. ram' = [ram EXCEPT ![page] = row]
  BY DEF Data
<1>2. ASSUME NEW c \in Columns PROVE row[c] = Blank
  <2>1. c - col + Width \in Int /\ Width \in Nat /\ Width > 0
    BY <1>0, Sizes
  <2>2. d(c) \in 0..(Width - 1)
    BY <2>1, ModNat
  <2>3. row[c] = IF d(c) < Width THEN zeros[d(c) + 1] ELSE ram[page][c]
    OBVIOUS
  <2> HIDE DEF d
  <2>4. d(c) < Width /\ d(c) + 1 \in 1..Width
    BY <2>1, <2>2
  <2>5. zeros[d(c) + 1] = Blank
    BY <2>4
  <2> QED
    BY <2>3, <2>4, <2>5
<1> HIDE DEF row
<1>3. ASSUME NEW p \in Rows, NEW c \in Columns
      PROVE  ram'[p][c] = IF p = page THEN Blank ELSE ram[p][c]
  BY <1>0, <1>1, <1>2
<1> QED
  BY <1>3

LEMMA TransferRam ==
    ASSUME NEW u, Transfer(u)
    PROVE  ram' = ram \/ \E bytes, n : Data(bytes, n)
<1>1. CASE SetCursor(u) \/ PutChar(u) \/ SetCursorFails(u)
  BY <1>1 DEF SetCursor, PutChar, SetCursorFails, Command
<1>2. CASE ClearPage(u) \/ PutGlyph(u) \/ PutSpace(u)
  BY <1>2 DEF ClearPage, PutGlyph, PutSpace
<1>3. CASE ClearPageFails(u) \/ PutFails(u)
  BY <1>3 DEF ClearPageFails, PutFails
<1> QED
  BY <1>1, <1>2, <1>3 DEF Transfer

LEMMA ScreenInit == Init => ScreenInv
BY DEF Init, ScreenInv

LEMMA ScreenStep == Base /\ ScreenInv /\ [Next]_vars => ScreenInv'
<1> SUFFICES ASSUME Base, ScreenInv, [Next]_vars PROVE ScreenInv'
  OBVIOUS
<1>1. ASSUME ram' = ram PROVE ScreenInv'
  BY <1>1 DEF ScreenInv
<1>2. ASSUME NEW bytes, NEW n, Data(bytes, n) PROVE ScreenInv'
  <2> DEFINE row == [c \in Columns |->
                 LET d == (c - col + Width) % Width
                 IN  IF d < n THEN bytes[d + 1] ELSE ram[page][c]]
  <2>1. ram' = [ram EXCEPT ![page] = row] /\ row = [c \in Columns |-> row[c]]
    BY <1>2 DEF Data
  <2> HIDE DEF row
  <2>2. ram' = [p \in Rows |-> IF p = page THEN row ELSE ram[p]]
    BY <2>1 DEF ScreenInv
  <2>3. \A p \in Rows : ram[p] = [c \in Columns |-> ram[p][c]]
    BY DEF ScreenInv
  <2>4. \A p \in Rows : ram'[p] = [c \in Columns |-> ram'[p][c]]
    BY <2>1, <2>2, <2>3
  <2>5. ram' = [p \in Rows |-> ram'[p]]
    BY <2>2
  <2> QED
    BY <2>4, <2>5 DEF ScreenInv
<1>3. ASSUME NEW w \in Writers, NEW t \in Texts[w], Write(w, t) PROVE ram' = ram
  BY <1>3 DEF Write
<1>4. ASSUME CoreStep PROVE ram' = ram
  BY <1>4, CoreStepIs
<1>5. ASSUME NEW u \in Users, Transfer(u) PROVE ScreenInv'
  BY <1>5, <1>1, <1>2, TransferRam
<1>6. UNCHANGED vars => ram' = ram
  BY DEF vars
<1> QED
  BY <1>1, <1>3, <1>4, <1>5, <1>6 DEF Next, Transfer, CoreStep

THEOREM ScreenHolds == Spec => []ScreenInv
BY ScreenInit, ScreenStep, BaseHolds, PTL DEF Spec

LEMMA ShowSame ==
    ASSUME NEW j, NEW e, e.at = j.at, e.text = j.text, e.i = j.i, e.page = j.page,
           NEW r, NEW cur, ShowAt(j, r, cur),
           NEW cur2, j.at \in {"clear", "zeros", "home", "line"} \/ cur2 = cur
    PROVE  ShowAt(e, r, cur2)
BY DEF ShowAt

\* After a character: the next one, or the end with the whole text shown.
LEMMA ShowNext ==
    ASSUME NEW u \in Writers, NEW j, DOMAIN j = Fields, Text(j.text), j.i \in 1..Len(j.text),
           NEW r, r = [p \in Rows |-> [c \in Columns |-> r[p][c]]],
           \A p \in Rows : \A c \in Columns : r[p][c] = Pixel(j.text, j.i, p, c),
           NEW cur, cur.page = Row(j.text, j.i), cur.col = ColAfter(j.text, j.i)
    PROVE  /\ NextChar(u, j).at = "idle" => r = Layout(j.text)
           /\ NextChar(u, j).at # "idle" => ShowAt(NextChar(u, j), r, cur)
<1>0. u # Core /\ Len(j.text) \in Nat
  BY Sizes DEF Text
<1>1. CASE j.i >= Len(j.text)
  <2>1. NextChar(u, j).at = "idle"
    BY <1>0, <1>1, FinishIs, NoJobIs DEF NextChar
  <2>2. j.i = Len(j.text)
    BY <1>0, <1>1
  <2>3. \A p \in Rows : \A c \in Columns : r[p][c] = Pixel(j.text, Len(j.text), p, c)
    BY <2>2
  <2>4. r = Layout(j.text)
    BY <2>3, PixelLast
  <2> QED
    BY <2>1, <2>4
<1>2. CASE ~(j.i >= Len(j.text))
  <2> DEFINE e == [j EXCEPT !.at = "char", !.i = @ + 1]
  <2>1. e.at = "char" /\ e.text = j.text /\ e.i = j.i + 1
    BY NextIs
  <2>2. NextChar(u, j) = e
    BY <1>2 DEF NextChar
  <2>3. j.i + 1 \in 1..Len(j.text) /\ (j.i + 1) - 1 = j.i
    BY <1>0, <1>2
  <2> HIDE DEF e
  <2>4. ShowAt(e, r, cur)
    BY <2>1, <2>3 DEF ShowAt
  <2> QED
    BY <2>1, <2>2, <2>4
<1> QED
  BY <1>1, <1>2

\* A write that is alone brings the screen one step nearer to its text.
LEMMA ShowTransfer ==
    ASSUME Base, ScreenInv, ScreenInv', NEW u \in alone, At(u) # "idle", Transfer(u), shown = {},
           TrackAt(job[u], page, col, cursor), ShowAt(job[u], ram, cursor)
    PROVE  /\ job'[u].at # "idle" => ShowAt(job'[u], ram', cursor') /\ shown' = {}
           /\ job'[u].at = "idle" => \A t \in shown' : ram' = Layout(t)
<1> DEFINE o == job[u]
           t == o.text
           i == o.i
           Good == /\ job'[u].at # "idle" => ShowAt(job'[u], ram', cursor') /\ shown' = {}
                   /\ job'[u].at = "idle" => \A x \in shown' : ram' = Layout(x)
<1>0. /\ DOMAIN job = Users /\ DOMAIN o = Fields /\ o.at = At(u) /\ o.page \in Rows /\ o.col = 0
      /\ u \in Writers /\ u \in Users /\ u # Core
      /\ At(u) \in Moving => o.k \in 1..3
  BY Sizes DEF Base, JobInv, JobOK, At
<1>s. /\ page \in Rows /\ col \in Nat /\ cursor.page \in Rows /\ cursor.col \in Nat
      /\ cursor = [page |-> cursor.page, col |-> cursor.col]
  BY DEF Base, CursorInv
<1>t. Text(t)
  BY DEF ShowAt
<1>a. ASSUME NEW j, Continue(u, j), j.at # "idle" => ShowAt(j, ram', cursor'),
             j.at = "idle" => ram' = Layout(t)
      PROVE  Good
  <2>1. job'[u] = j
    BY <1>a, <1>0 DEF Continue
  <2>2. shown' = IF j.at = "idle" THEN {t} ELSE {}
    BY <1>a DEF Continue
  <2> QED
    BY <1>a, <2>1, <2>2
<1>1. CASE SetCursor(u)
  <2>1. At(u) \in Moving /\ Command(o.k, o.page, 0)
    BY <1>1, <1>0 DEF SetCursor, Moving
  <2>2. ram' = ram
    BY <2>1, <1>0, CommandIs DEF Base
  <2>3. CASE o.k < 3
    <3> DEFINE e == [o EXCEPT !.k = @ + 1]
    <3>1. Continue(u, e) /\ cursor' = cursor
      BY <1>1, <2>3 DEF SetCursor
    <3>2. e.at = o.at /\ e.text = o.text /\ e.i = o.i /\ e.page = o.page
      BY <1>0, PutKIs
    <3> HIDE DEF e
    <3>3. ShowAt(e, ram', cursor')
      BY <2>2, <3>1, <3>2, ShowSame
    <3>4. e.at # "idle"
      BY <3>2, <1>0
    <3> QED
      BY <1>a, <3>1, <3>3, <3>4
  <2>4. CASE ~(o.k < 3)
    <3> DEFINE back == [o EXCEPT !.page = 0, !.col = 0, !.k = 1]
               j == AfterCursor(u, o)
    <3>1. Continue(u, j) /\ cursor' = [page |-> o.page, col |-> 0]
      BY <1>1, <2>4, <1>0 DEF SetCursor
    <3>2. cursor'.page = o.page /\ cursor'.col = 0
      BY <3>1
    <3>3. DOMAIN back = Fields /\ back.at = o.at /\ back.text = t /\ back.i = i
      BY <1>0, BackIs
    <3>4. CASE o.at = "clear"
      <4>1. j = [o EXCEPT !.at = "zeros"]
        BY <3>4, AfterClear, Zenon
      <4>2. j.at = "zeros" /\ j.text = t /\ j.i = i /\ j.page = o.page
        BY <4>1, <1>0, PutAtIs
      <4> HIDE DEF j
      <4>3. ShowAt(j, ram', cursor')
        BY <4>2, <2>2, <3>4 DEF ShowAt
      <4> QED
        BY <4>2, <4>3, <3>1, <1>a
    <3> HIDE DEF back
    <3>5. CASE o.at = "home"
      <4>0. i = 1 /\ o.page = 0 /\ \A p \in Rows : \A c \in Columns : ram'[p][c] = Blank
        BY <3>5, <2>2 DEF ShowAt
      <4>z. \A p \in Rows : \A c \in Columns : ram'[p][c] = Pixel(t, 0, p, c)
        BY <4>0, <1>t, PixelNone
      <4>1. j = IF t = <<>> THEN Finish(u, back) ELSE [back EXCEPT !.at = "char"]
        BY <3>5, AfterHome, Zenon DEF back
      <4>2. CASE t = <<>>
        <5>1. j = NoJob
          BY <4>1, <4>2, <3>3, <1>0, FinishIs
        <5>2. Len(t) = 0
          BY <4>2
        <5>3. \A p \in Rows : \A c \in Columns : ram'[p][c] = Pixel(t, Len(t), p, c)
          BY <4>z, <5>2
        <5>4. ram' = Layout(t)
          BY <5>3, <1>t, PixelLast DEF ScreenInv
        <5>5. j.at = "idle"
          BY <5>1, NoJobIs
        <5> HIDE DEF j
        <5> QED
          BY <5>4, <5>5, <3>1, <1>a
      <4>3. CASE t # <<>>
        <5> DEFINE g == [back EXCEPT !.at = "char"]
        <5>1. j = g
          BY <4>1, <4>3
        <5>2. g.at = "char" /\ g.text = t /\ g.i = i
          BY <3>3, PutAtIs
        <5>3. i \in 1..Len(t) /\ i - 1 = 0
          BY <4>0, <4>3, <1>t DEF Text
        <5>4. cursor'.page = Row(t, 0) /\ cursor'.col = ColAfter(t, 0)
          BY <3>2, <4>0, <1>t, RowIs DEF ColAfter
        <5> HIDE DEF g, j
        <5>5. ShowAt(g, ram', cursor')
          BY <5>2, <5>3, <5>4, <4>z, <1>t DEF ShowAt
        <5> QED
          BY <5>1, <5>2, <5>5, <3>1, <1>a
      <4> QED
        BY <4>2, <4>3
    <3>6. CASE o.at = "line"
      <4>0. /\ i \in 1..Len(t) /\ o.page = Row(t, i) /\ Breaks(t, i)
            /\ \A p \in Rows : \A c \in Columns : ram'[p][c] = Pixel(t, i - 1, p, c)
        BY <3>6, <2>2 DEF ShowAt
      <4>1. j = IF t[i] = NL THEN NextChar(u, back) ELSE [back EXCEPT !.at = "glyph"]
        BY <3>6, AfterLine, Zenon DEF back
      <4>2. CASE t[i] = NL
        <5>1. \A p \in Rows : \A c \in Columns : ram'[p][c] = Pixel(t, i, p, c)
          BY <4>0, <4>2, <1>t, PixelStep DEF Covers
        <5>2. cursor'.page = Row(t, i) /\ cursor'.col = ColAfter(t, i)
          BY <3>2, <4>0, <4>2 DEF ColAfter
        <5>3. ram' = [p \in Rows |-> [c \in Columns |-> ram'[p][c]]]
          BY DEF ScreenInv
        <5>4. /\ NextChar(u, back).at = "idle" => ram' = Layout(t)
              /\ NextChar(u, back).at # "idle" => ShowAt(NextChar(u, back), ram', cursor')
          <6> HIDE DEF t, i
          <6> QED
            BY <5>1, <5>2, <5>3, <4>0, <3>3, <1>t, <1>0, ShowNext
        <5>5. j = NextChar(u, back)
          BY <4>1, <4>2
        <5> HIDE DEF j
        <5> QED
          BY <5>4, <5>5, <3>1, <1>a
      <4>3. CASE t[i] # NL
        <5> DEFINE g == [back EXCEPT !.at = "glyph"]
        <5>1. j = g
          BY <4>1, <4>3
        <5>2. g.at = "glyph" /\ g.text = t /\ g.i = i
          BY <3>3, PutAtIs
        <5>3. Left(t, i) = 0
          BY <4>0, <4>3, <1>t, PlaceIs
        <5> HIDE DEF g, j
        <5>4. ShowAt(g, ram', cursor')
          BY <5>2, <5>3, <4>0, <4>3, <3>2, <1>t DEF ShowAt
        <5> QED
          BY <5>1, <5>2, <5>4, <3>1, <1>a
      <4> QED
        BY <4>2, <4>3
    <3> QED
      BY <3>4, <3>5, <3>6, <2>1, <1>0 DEF Moving
  <2> QED
    BY <2>3, <2>4
<1>2. CASE ClearPage(u)
  <2> DEFINE n == o.page + 1
             e == [o EXCEPT !.at = "clear", !.page = n, !.k = 1]
             h == [o EXCEPT !.at = "home", !.page = 0, !.k = 1]
             j == IF n < Pages THEN e ELSE h
  <2>1. o.at = "zeros" /\ Continue(u, j) /\ Data([c \in 1..Width |-> Blank], Width)
    BY <1>2, <1>0 DEF ClearPage
  <2>2. page = o.page
    BY <2>1 DEF TrackAt
  <2>3. /\ e.at = "clear" /\ e.text = t /\ e.i = i /\ e.page = n
        /\ h.at = "home" /\ h.text = t /\ h.i = i /\ h.page = 0
    BY <1>0, CursorJobIs
  <2>4. i = 1 /\ \A p \in Rows : p < o.page => \A c \in Columns : ram[p][c] = Blank
    BY <2>1 DEF ShowAt
  <2>5. \A p \in Rows : p < n => \A c \in Columns : ram'[p][c] = Blank
    <3>1. \A p \in Rows : p < n => p < o.page \/ p = page
      BY <2>2, <1>0, Sizes
    <3> QED
      BY <3>1, <2>1, <2>4, ZerosPlaces
  <2> HIDE DEF e, h
  <2>6. CASE n < Pages
    <3>1. ShowAt(e, ram', cursor')
      BY <2>3, <2>4, <2>5, <1>t DEF ShowAt
    <3> QED
      BY <2>1, <2>3, <2>6, <3>1, <1>a
  <2>7. CASE ~(n < Pages)
    <3>1. \A p \in Rows : p < n
      BY <2>7, <1>0, Sizes
    <3>2. ShowAt(h, ram', cursor')
      BY <2>3, <2>4, <2>5, <3>1, <1>t DEF ShowAt
    <3> QED
      BY <2>1, <2>3, <2>7, <3>2, <1>a
  <2> QED
    BY <2>6, <2>7
<1>3. CASE PutChar(u)
  <2> DEFINE p == (cursor.page + 1) % Pages
             e == [o EXCEPT !.at = "line", !.page = p, !.col = 0, !.k = 1]
             g == [o EXCEPT !.at = "glyph"]
  <2>1. /\ o.at = "char" /\ ram' = ram
        /\ IF t[i] = NL \/ ~Fits THEN Continue(u, e)
           ELSE cursor' = cursor /\ Continue(u, g)
    BY <1>3, <1>0 DEF PutChar
  <2>2. /\ i \in 1..Len(t) /\ cursor.page = Row(t, i - 1) /\ cursor.col = ColAfter(t, i - 1)
        /\ \A q \in Rows : \A c \in Columns : ram'[q][c] = Pixel(t, i - 1, q, c)
    BY <2>1 DEF ShowAt
  <2>3. e.at = "line" /\ e.text = t /\ e.i = i /\ e.page = p
    BY <1>0, CursorJobIs
  <2>4. g.at = "glyph" /\ g.text = t /\ g.i = i
    BY <1>0, PutAtIs
  <2> HIDE DEF e, g
  <2>5. CASE t[i] = NL \/ ~Fits
    <3>1. Breaks(t, i)
      <4>1. CASE t[i] = NL
        BY <4>1 DEF Breaks
      <4>2. CASE t[i] # NL
        BY <4>2, <2>2, <2>5, <1>t, PlaceIs DEF Fits
      <4> QED
        BY <4>1, <4>2
    <3>2. p = Row(t, i)
      BY <3>1, <2>2, <1>t, RowIs
    <3>3. ShowAt(e, ram', cursor')
      BY <3>1, <3>2, <2>2, <2>3, <1>t DEF ShowAt
    <3> QED
      BY <2>1, <2>3, <2>5, <3>3, <1>a
  <2>6. CASE ~(t[i] = NL \/ ~Fits)
    <3>1. ~Breaks(t, i) /\ Left(t, i) = ColAfter(t, i - 1)
      BY <2>2, <2>6, <1>t, PlaceIs DEF Fits
    <3>2. Row(t, i) = Row(t, i - 1)
      BY <3>1, <2>2, <1>t, RowIs
    <3>3. ShowAt(g, ram', cursor')
      BY <3>1, <3>2, <2>1, <2>2, <2>4, <2>6, <1>t DEF ShowAt
    <3> QED
      BY <2>1, <2>4, <2>6, <3>3, <1>a
  <2> QED
    BY <2>5, <2>6
<1>4. CASE PutGlyph(u)
  <2> DEFINE g == [o EXCEPT !.at = "space"]
             a == Left(t, i)
  <2>1. /\ o.at = "glyph" /\ Continue(u, g) /\ cursor' = cursor
        /\ Data(Glyph(t[i]), FontWidth)
    BY <1>4, <1>0 DEF PutGlyph
  <2>2. page = cursor.page /\ col = cursor.col
    BY <2>1 DEF TrackAt
  <2>3. /\ i \in 1..Len(t) /\ t[i] # NL /\ cursor.page = Row(t, i) /\ cursor.col = a
        /\ \A q \in Rows : \A c \in Columns : ram[q][c] = Pixel(t, i - 1, q, c)
    BY <2>1 DEF ShowAt
  <2>4. a \in Nat /\ a + FontWidth <= Width /\ FontWidth \in Nat
    <3>1. a \in Nat /\ a + Cell <= Width
      BY <2>3, <1>t, PlaceIs
    <3> QED
      BY <3>1, Sizes
  <2>5. g.at = "space" /\ g.text = t /\ g.i = i
    BY <1>0, PutAtIs
  <2> HIDE DEF g, a
  <2>6. \A q \in Rows : \A c \in Columns :
          ram'[q][c] = IF q = page /\ col <= c /\ c < col + FontWidth THEN Glyph(t[i])[c - col + 1]
                       ELSE ram[q][c]
    BY <2>1, <2>2, <2>3, <2>4, DataPlaces
  <2>7. \A c \in Columns : a <= c /\ c < a + FontWidth => Glyph(t[i])[c - a + 1] = <<t[i], c - a + 1>>
    <3> SUFFICES ASSUME NEW c \in Columns, a <= c, c < a + FontWidth
                 PROVE  Glyph(t[i])[c - a + 1] = <<t[i], c - a + 1>>
      OBVIOUS
    <3>1. c - a + 1 \in 1..FontWidth
      BY <2>4, Sizes
    <3> QED
      BY <3>1 DEF Glyph
  <2>8. \A q \in Rows : \A c \in Columns :
          ram'[q][c] = IF q = Row(t, i) /\ a <= c /\ c < a + FontWidth THEN <<t[i], c - a + 1>>
                       ELSE Pixel(t, i - 1, q, c)
    BY <2>2, <2>3, <2>6, <2>7
  <2>9. ShowAt(g, ram', cursor')
    BY <2>1, <2>3, <2>5, <2>8, <1>t DEF ShowAt, a
  <2> QED
    BY <2>1, <2>5, <2>9, <1>a
<1>5. CASE PutSpace(u)
  <2> DEFINE a == Left(t, i)
  <2>1. /\ o.at = "space" /\ Continue(u, NextChar(u, o)) /\ cursor' = [cursor EXCEPT !.col = @ + Cell]
        /\ Data(<<Blank>>, 1)
    BY <1>5, <1>0 DEF PutSpace
  <2>2. page = cursor.page /\ col = cursor.col + FontWidth
    BY <2>1 DEF TrackAt
  <2>3. /\ i \in 1..Len(t) /\ t[i] # NL /\ cursor.page = Row(t, i) /\ cursor.col = a
        /\ \A q \in Rows : \A c \in Columns :
             ram[q][c] = IF q = Row(t, i) /\ a <= c /\ c < a + FontWidth THEN <<t[i], c - a + 1>>
                         ELSE Pixel(t, i - 1, q, c)
    BY <2>1 DEF ShowAt
  <2>4. a \in Nat /\ a + Cell <= Width /\ FontWidth \in Nat /\ Cell = FontWidth + 1
    <3>1. a \in Nat /\ a + Cell <= Width
      BY <2>3, <1>t, PlaceIs
    <3> QED
      BY <3>1, Sizes
  <2>5. cursor'.page = Row(t, i) /\ cursor'.col = ColAfter(t, i)
    <3>1. cursor'.page = cursor.page /\ cursor'.col = cursor.col + Cell
      BY <2>1, <1>s
    <3>2. ColAfter(t, i) = a + Cell
      BY <2>3 DEF ColAfter
    <3> QED
      BY <3>1, <3>2, <2>3
  <2> HIDE DEF a
  <2>6. \A q \in Rows : \A c \in Columns :
          ram'[q][c] = IF q = page /\ c = a + FontWidth THEN Blank ELSE ram[q][c]
    <3>1. col = a + FontWidth /\ col + 1 <= Width
      BY <2>2, <2>3, <2>4
    <3>2. \A q \in Rows : \A c \in Columns :
            ram'[q][c] = IF q = page /\ col <= c /\ c < col + 1 THEN <<Blank>>[c - col + 1] ELSE ram[q][c]
      BY <2>1, <3>1, DataPlaces
    <3>3. \A c \in Columns : (col <= c /\ c < col + 1) <=> c = col
      BY <1>s, Sizes
    <3>4. col - col + 1 = 1 /\ <<Blank>>[1] = Blank
      BY <1>s
    <3> QED
      BY <3>1, <3>2, <3>3, <3>4
  <2>7. \A q \in Rows : \A c \in Columns : ram'[q][c] = Pixel(t, i, q, c)
    <3> SUFFICES ASSUME NEW q \in Rows, NEW c \in Columns PROVE ram'[q][c] = Pixel(t, i, q, c)
      OBVIOUS
    <3>1. /\ ~Covers(t, i, q, c) => Pixel(t, i, q, c) = Pixel(t, i - 1, q, c)
          /\ Covers(t, i, q, c) =>
               Pixel(t, i, q, c) = IF c = a + FontWidth THEN Blank ELSE <<t[i], c - a + 1>>
      BY <2>3, <1>t, PixelStep DEF a
    <3>2. Covers(t, i, q, c) <=> q = Row(t, i) /\ a <= c /\ c < a + Cell
      BY <2>3 DEF Covers, a
    <3>3. c < a + Cell <=> c < a + FontWidth \/ c = a + FontWidth
      BY <2>4, Sizes
    <3>4. a <= a + FontWidth /\ ~(a + FontWidth < a + FontWidth)
      BY <2>4
    <3>5. ram'[q][c] = IF q = page /\ c = a + FontWidth THEN Blank ELSE ram[q][c]
      BY <2>6
    <3>6. ram[q][c] = IF q = Row(t, i) /\ a <= c /\ c < a + FontWidth THEN <<t[i], c - a + 1>>
                      ELSE Pixel(t, i - 1, q, c)
      BY <2>3
    <3>7. page = Row(t, i)
      BY <2>2, <2>3
    <3> HIDE DEF t, i
    <3>8. CASE q = page /\ c = a + FontWidth
      BY <3>1, <3>2, <3>3, <3>4, <3>5, <3>7, <3>8
    <3>9. CASE ~(q = page /\ c = a + FontWidth)
      BY <3>1, <3>2, <3>3, <3>5, <3>6, <3>7, <3>9
    <3> QED
      BY <3>8, <3>9
  <2>8. ram' = [q \in Rows |-> [c \in Columns |-> ram'[q][c]]]
    BY DEF ScreenInv
  <2>9. /\ NextChar(u, o).at = "idle" => ram' = Layout(t)
        /\ NextChar(u, o).at # "idle" => ShowAt(NextChar(u, o), ram', cursor')
    BY <2>3, <2>5, <2>7, <2>8, <1>0, <1>t, ShowNext
  <2> QED
    BY <2>1, <2>9, <1>a
<1>6. CASE SetCursorFails(u) \/ ClearPageFails(u) \/ PutFails(u)
  <2>1. Return(u)
    BY <1>6 DEF SetCursorFails, ClearPageFails, PutFails
  <2>2. job' = [job EXCEPT ![u] = NoJob] /\ shown' = {}
    BY <2>1, <1>0 DEF Return
  <2>3. job'[u].at = "idle"
    BY <2>2, <1>0, NoJobIs
  <2> QED
    BY <2>2, <2>3
<1> QED
  BY <1>1, <1>2, <1>3, <1>4, <1>5, <1>6 DEF Transfer

\* What remains when the trailing newlines are gone is a text again.
LEMMA WriteStrips ==
    ASSUME NEW w \in Writers, NEW t \in Texts[w], Write(w, t)
    PROVE  \E s : Text(s) /\ job' = [job EXCEPT ![w] = NewJob(s)] /\ shown' = {}
<1> DEFINE S == {t[n] : n \in DOMAIN t}
           last == {n \in DOMAIN t : \A m \in n..Len(t) : t[m] = NL}
           s == SubSeq(t, 1, Len(t) - Cardinality(last))
<1>1. t \in Seq(S)
  BY DisplayAssumption DEF DisplayAssumption
<1>2. Len(t) \in Nat /\ DOMAIN t = 1..Len(t)
  BY <1>1
<1>3. Cardinality(last) \in 0..Len(t)
  <2>1. last \subseteq 1..Len(t)
    BY <1>2
  <2>2. IsFiniteSet(1..Len(t)) /\ Cardinality(1..Len(t)) = Len(t)
    <3>1. \A b \in Nat : IsFiniteSet(1..b) /\ Cardinality(1..b) = b
      <4> TAKE b \in Nat
      <4>1. Cardinality(1..b) = IF 1 > b THEN 0 ELSE b - 1 + 1
        BY FS_Interval
      <4> QED
        BY <4>1, FS_Interval
    <3> QED
      BY <3>1, <1>2
  <2> HIDE DEF last
  <2>3. IsFiniteSet(last) /\ Cardinality(last) <= Cardinality(1..Len(t))
    BY <2>1, <2>2, FS_Subset
  <2> QED
    BY <2>2, <2>3, FS_CardinalityType
<1>4. job' = [job EXCEPT ![w] = NewJob(s)] /\ shown' = {}
  BY DEF Write
<1> DEFINE n == Len(t) - Cardinality(last)
<1>5. n \in 0..Len(t)
  <2> HIDE DEF last
  <2> QED
    BY <1>2, <1>3
<1>6. Text(SubSeq(t, 1, n))
  <2> HIDE DEF n, S
  <2>1. SubSeq(t, 1, n) \in Seq(S) /\ Len(SubSeq(t, 1, n)) = n
    BY <1>1, <1>5
  <2> QED
    BY <2>1 DEF Text
<1> QED
  BY <1>4, <1>6

LEMMA ShowInit == Init => ShowInv /\ DoneInv
BY DEF Init, ShowInv, DoneInv

LEMMA ShowStep ==
    Base /\ SoleInv /\ TrackInv /\ ScreenInv /\ ScreenInv' /\ ShowInv /\ DoneInv /\ [Next]_vars
        => ShowInv' /\ DoneInv'
<1> SUFFICES ASSUME Base, SoleInv, TrackInv, ScreenInv, ScreenInv', ShowInv, DoneInv, [Next]_vars
             PROVE  ShowInv' /\ DoneInv'
  OBVIOUS
<1>0. /\ DOMAIN job = Users /\ Users = Writers \cup {Core} /\ Core \notin Writers
      /\ alone \subseteq Writers /\ node \in BOOLEAN
  BY Sizes DEF Base, JobInv
<1>1. ASSUME NEW w \in Writers, NEW t \in Texts[w], Write(w, t)
      PROVE  ShowInv' /\ DoneInv'
  <2>1. PICK s : Text(s) /\ job' = [job EXCEPT ![w] = NewJob(s)] /\ shown' = {}
    BY <1>1, WriteStrips
  <2>2. alone' \subseteq {w}
    BY <1>1, WriteIs
  <2>3. job'[w] = NewJob(s)
    BY <2>1, <1>0
  <2>4. \A p \in Rows : ~(p < 0)
    BY Sizes
  <2>5. ShowAt(NewJob(s), ram', cursor')
    BY <2>1, <2>4, NewJobIs DEF ShowAt
  <2> QED
    BY <2>1, <2>2, <2>3, <2>5 DEF ShowInv, DoneInv
<1>2. ASSUME NEW u \in Users, Transfer(u), At(Core) # "broken"
      PROVE  ShowInv' /\ DoneInv'
  <2>1. PICK j : Moves(u, j)
    BY <1>2, TransferMoves DEF Base
  <2>2. /\ At(u) # "idle" /\ node' = node /\ alone' = alone
        /\ \A v \in Users \ {u} : At(v)' = At(v) /\ job'[v] = job[v]
    BY <2>1, <1>0 DEF Moves, At
  <2>3. shown = {}
    BY <2>2 DEF DoneInv
  <2>4. \A v \in Users : Sole(v)' => v = u /\ Sole(u)
    BY <1>2, SoleMoves
  <2>5. CASE u \in alone
    <3>1. Sole(u)
      BY <2>2, <2>5 DEF Sole
    <3>2. /\ job'[u].at # "idle" => ShowAt(job'[u], ram', cursor') /\ shown' = {}
          /\ job'[u].at = "idle" => \A t \in shown' : ram' = Layout(t)
      BY <3>1, <1>2, <2>2, <2>3, <2>5, ShowTransfer DEF TrackInv, ShowInv
    <3>3. At(u)' = job'[u].at
      BY DEF At
    <3>4. \A v \in Users \ {u} : At(v)' = "idle"
      BY <3>1, <2>2 DEF SoleInv
    <3>5. ShowInv'
      BY <3>2, <3>3, <3>4, <2>2, <1>0 DEF ShowInv
    <3>6. node
      BY <1>0, <1>2, <2>2, <2>5 DEF Base, JobInv
    <3>7. DoneInv'
      BY <3>2, <3>3, <3>4, <3>6, <2>2 DEF DoneInv
    <3> QED
      BY <3>5, <3>7
  <2>6. CASE u \notin alone
    <3>1. shown' = shown
      BY <1>2, <2>6 DEF Transfer, SetCursor, ClearPage, PutChar, PutGlyph, PutSpace,
         SetCursorFails, ClearPageFails, PutFails, Continue, Return
    <3>2. \A v \in alone' : ~Sole(v)'
      BY <2>2, <2>4, <2>6, <1>0
    <3>3. \A v \in alone' : At(v)' = "idle"
      BY <3>2 DEF Sole
    <3> QED
      BY <3>1, <3>3, <2>3 DEF ShowInv, DoneInv
  <2> QED
    BY <2>5, <2>6
<1>3. ASSUME CoreStep, At(Core) # "broken"
      PROVE  ShowInv' /\ DoneInv'
  <2>1. PICK from, to :
             /\ At(Core) = from /\ alone' \subseteq alone
             /\ from = "idle" => (~node => to.at = "init") /\ (node => to.at = "clear")
    BY <1>3, CoreStepIs
  <2>2. \A v \in Users : Sole(v)' => v = Core
    BY <1>3, SoleCore
  <2>3. \A v \in alone' : At(v)' = "idle"
    BY <2>1, <2>2, <1>0 DEF Sole
  <2>4. shown' = {}
    <3>1. CASE shown = {}
      BY <3>1, <1>3 DEF CoreStep, Probe, InitCmd, InitCmdFails, Register, Remove, Off, Deregister
    <3>2. CASE shown # {}
      <4>1. node /\ At(Core) = "idle"
        BY <3>2, <1>0 DEF DoneInv
      <4>2. CASE Remove
        BY <4>2 DEF Remove
      <4>3. ~(Probe \/ InitCmd \/ InitCmdFails \/ Register \/ Off \/ Deregister)
        BY <4>1 DEF Probe, InitCmd, InitCmdFails, Register, Off, Deregister, CoreGoes
      <4> QED
        BY <4>2, <4>3, <1>3 DEF CoreStep
    <3> QED
      BY <3>1, <3>2
  <2> QED
    BY <2>3, <2>4 DEF ShowInv, DoneInv
<1>4. CASE UNCHANGED vars
  <2>1. ShowInv'
    BY <1>4 DEF vars, ShowInv, At
  <2>2. DoneInv'
    BY <1>4 DEF vars, core, DoneInv, At
  <2> QED
    BY <2>1, <2>2
<1> QED
  BY <1>1, <1>2, <1>3, <1>4 DEF Next, Transfer, CoreStep

\* A write that no other one and no remove overlapped and that returns success
\* leaves its text on the screen and nothing else, for every text and every
\* size of the display, whatever failed transfers and overlapping writes came
\* before it (ssd1306_drv.c:183-270, 346-359).
THEOREM SuccessIsShown == Spec => []SuccessShowsText
<1>1. DoneInv => SuccessShowsText
  BY DEF DoneInv, SuccessShowsText
<1> QED
  BY <1>1, ShowInit, ShowStep, BaseHolds, SoleHolds, TrackHolds, ScreenHolds, PTL DEF Spec

-----------------------------------------------------------------------------
(* Types.  Any number of writers may have passed the test of ssd1306_putchar *)
(* before one of them moves the cursor: each of them may yet add a cell.     *)

Late    == {"glyph", "space"}
Ahead   == {w \in Writers : At(w) \in Late}
Load(S) == Cell * Cardinality(S)
Room    == Width + Cell * (Cardinality(Writers) - 1)

JobTyped(j) ==
    /\ j.k \in 1..26 /\ Text(j.text)
    /\ j.at \in {"clear", "zeros", "home"} => j.i = 1
    /\ j.at \in {"char", "line", "glyph", "space"} => j.i \in 1..Len(j.text)

TypeInv ==
    /\ \A w \in Users : JobTyped(job[w])
    /\ col \in Columns
    /\ cursor.col + Load(Ahead) <= Room
    /\ alone = {} \/ \E w : alone = {w}
    /\ shown = {} \/ \E t : shown = {t}
    /\ events \in 0..MaxEvents

LEMMA Times ==
    ASSUME NEW c \in Nat, NEW a \in Nat, NEW b \in Nat, a <= b
    PROVE  c * a \in Nat /\ c * b \in Nat /\ c * a <= c * b /\ c * (b - 1) = c * b - c
<1>1. b - a \in Nat /\ b = a + (b - a)
  OBVIOUS
<1> DEFINE d == b - a
<1>2. c * d \in Nat /\ c * a \in Nat /\ c * (a + d) = c * a + c * d
  BY <1>1
<1>3. c * b = c * a + c * d
  BY <1>1, <1>2
<1>4. c * (b - 1) = c * b - c
  OBVIOUS
<1> HIDE DEF d
<1> QED
  BY <1>2, <1>3, <1>4

LEMMA LoadIs ==
    ASSUME NEW S \in SUBSET Writers
    PROVE  /\ Load(S) \in Nat /\ Room \in Int /\ Load(S) + Width <= Room + Cell
           /\ Load(S) <= Room
           /\ \A v \in S : Load(S \ {v}) + Cell = Load(S)
<1>0. Cell \in Nat
  BY Sizes
<1>1. IsFiniteSet(Writers) /\ IsFiniteSet(S) /\ Cardinality(S) <= Cardinality(Writers)
  BY FS_Subset, DisplayAssumption DEF DisplayAssumption
<1>2. Cardinality(S) \in Nat /\ Cardinality(Writers) \in Nat
  BY <1>1, FS_CardinalityType
<1>3. \A a, b \in Nat : a <= b => Cell * a \in Nat /\ Cell * a <= Cell * b
                                /\ Cell * (b - 1) = Cell * b - Cell /\ Cell * b \in Nat
  BY <1>0, Times
<1> DEFINE m == Cell * Cardinality(S)
           n == Cell * Cardinality(Writers)
<1>4. /\ m \in Nat /\ n \in Nat /\ m <= n
      /\ Cell * (Cardinality(Writers) - 1) = n - Cell
  BY <1>1, <1>2, <1>3
<1>5. Load(S) = m /\ Room = Width + (n - Cell)
  BY <1>4 DEF Load, Room
<1> HIDE DEF m, n
<1>6. Width \in Nat
  BY Sizes
<1>7. Load(S) \in Nat /\ Room \in Int /\ Load(S) + Width <= Room + Cell
  BY <1>0, <1>4, <1>5, <1>6
<1>8. Load(S) <= Room
  BY <1>7, Sizes
<1>9. ASSUME NEW v \in S PROVE Load(S \ {v}) + Cell = Load(S)
  <2>1. Cardinality(S \ {v}) = Cardinality(S) - 1 /\ Cardinality(S) > 0
    <3>1. IsFiniteSet(S \ {v}) /\ v \notin S \ {v} /\ (S \ {v}) \cup {v} = S
      BY <1>1, FS_Subset
    <3>2. Cardinality(S \ {v}) \in Nat /\ Cardinality(S) = Cardinality(S \ {v}) + 1
      BY <3>1, FS_AddElement, FS_CardinalityType
    <3> QED
      BY <3>2
  <2> QED
    BY <2>1, <1>2, <1>3, Sizes DEF Load
<1> QED
  BY <1>7, <1>8, <1>9 DEF m

\* The four ways a process goes on.
LEMMA AheadMoves ==
    ASSUME Base, TypeInv, NEW u \in Users, NEW e, job' = [job EXCEPT ![u] = e],
           cursor' \in [page : Rows, col : Nat],
           \/ cursor'.col = 0
           \/ cursor' = cursor /\ (e.at \in Late => At(u) \in Late)
           \/ cursor' = cursor /\ cursor.col + Cell <= Width
           \/ /\ cursor'.col = cursor.col + Cell
              /\ u \in Writers /\ At(u) \in Late /\ e.at \notin Late
    PROVE  cursor'.col + Load(Ahead') <= Room
<1>0. DOMAIN job = Users /\ cursor.col \in Nat /\ cursor'.col \in Nat
      /\ Writers \subseteq Users
  BY Sizes DEF Base, JobInv, CursorInv
<1>1. \A w \in Writers : At(w)' = IF w = u THEN e.at ELSE At(w)
  BY <1>0 DEF At
<1> DEFINE A == Ahead
           B == Ahead'
<1>2. A \in SUBSET Writers /\ B \in SUBSET Writers
  BY DEF Ahead
<1>3. /\ (e.at \in Late => At(u) \in Late) => B = A \/ (u \in A /\ B = A \ {u})
      /\ u \in Writers /\ At(u) \in Late /\ e.at \notin Late => u \in A /\ B = A \ {u}
  BY <1>1 DEF Ahead
<1>4. cursor.col + Load(A) <= Room
  BY DEF TypeInv
<1>5. /\ Load(A) \in Nat /\ Load(B) \in Nat /\ Room \in Int
      /\ Load(B) <= Room /\ Load(B) + Width <= Room + Cell
      /\ \A v \in A : Load(A \ {v}) + Cell = Load(A)
  BY <1>2, LoadIs
<1>6. Width \in Nat /\ Cell \in Nat
  BY Sizes
<1> SUFFICES cursor'.col + Load(B) <= Room
  OBVIOUS
<1> HIDE DEF A, B
<1>7. CASE cursor'.col = 0
  BY <1>5, <1>7
<1>8. CASE cursor' = cursor /\ (e.at \in Late => At(u) \in Late)
  <2>1. Load(B) <= Load(A)
    BY <1>8, <1>3, <1>5, <1>6
  <2> QED
    BY <2>1, <1>8, <1>4, <1>5, <1>0
<1>9. CASE cursor' = cursor /\ cursor.col + Cell <= Width
  BY <1>9, <1>5, <1>0, <1>6
<1>10. CASE /\ cursor'.col = cursor.col + Cell
            /\ u \in Writers /\ At(u) \in Late /\ e.at \notin Late
  <2>1. Load(B) + Cell = Load(A)
    BY <1>10, <1>3, <1>5
  <2> QED
    BY <2>1, <1>10, <1>4, <1>5, <1>0, <1>6
<1> QED
  BY <1>7, <1>8, <1>9, <1>10

LEMMA NoJobTyped == JobTyped(NoJob) /\ NoJob.at \notin Late
<1>1. Text(<<>>)
  BY DEF Text
<1> QED
  BY <1>1, NoJobIs DEF JobTyped, Late

LEMMA NewJobTyped ==
    ASSUME NEW t, Text(t)
    PROVE  JobTyped(NewJob(t)) /\ NewJob(t).at \notin Late
BY NewJobIs DEF JobTyped, Late

LEMMA FinishTyped ==
    ASSUME NEW u, NEW j, DOMAIN j = Fields, JobTyped(j)
    PROVE  JobTyped(Finish(u, j)) /\ Finish(u, j).at \notin Late
<1>1. CASE u # Core
  BY <1>1, NoJobTyped DEF Finish
<1>2. CASE u = Core
  <2> DEFINE a == IF node THEN "off" ELSE "register"
             e == [j EXCEPT !.at = a]
  <2>1. /\ e.at = a /\ e.text = j.text /\ e.i = j.i /\ e.k = j.k
    BY PutAtIs
  <2>2. Finish(u, j) = e
    BY <1>2 DEF Finish
  <2> HIDE DEF e
  <2>3. JobTyped(e) /\ e.at \notin Late
    BY <2>1 DEF JobTyped, Late
  <2> QED
    BY <2>2, <2>3
<1> QED
  BY <1>1, <1>2

LEMMA NextTyped ==
    ASSUME NEW u, NEW j, DOMAIN j = Fields, JobTyped(j), j.i \in 1..Len(j.text)
    PROVE  JobTyped(NextChar(u, j)) /\ NextChar(u, j).at \notin Late
<1>1. CASE j.i >= Len(j.text)
  BY <1>1, FinishTyped DEF NextChar
<1>2. CASE ~(j.i >= Len(j.text))
  <2> DEFINE e == [j EXCEPT !.at = "char", !.i = @ + 1]
  <2>1. e.at = "char" /\ e.text = j.text /\ e.i = j.i + 1 /\ e.k = j.k
    BY NextIs
  <2>2. NextChar(u, j) = e
    BY <1>2 DEF NextChar
  <2>3. Len(j.text) \in Nat
    BY DEF JobTyped, Text
  <2> HIDE DEF e
  <2>4. JobTyped(e) /\ e.at \notin Late
    BY <2>1, <2>3, <1>2 DEF JobTyped, Late
  <2> QED
    BY <2>2, <2>4
<1> QED
  BY <1>1, <1>2

\* The job at another place, where the same is asked of its index.
LEMMA PutAtTyped ==
    ASSUME NEW j, DOMAIN j = Fields, JobTyped(j), NEW a,
           a \in {"clear", "zeros", "home"} => j.i = 1,
           a \in {"char", "line", "glyph", "space"} => j.i \in 1..Len(j.text)
    PROVE  JobTyped([j EXCEPT !.at = a]) /\ [j EXCEPT !.at = a].at = a
<1> DEFINE e == [j EXCEPT !.at = a]
<1>1. e.at = a /\ e.text = j.text /\ e.i = j.i /\ e.k = j.k
  BY PutAtIs
<1> HIDE DEF e
<1>2. JobTyped(e) /\ e.at = a
  BY <1>1 DEF JobTyped
<1> QED
  BY <1>2 DEF e

LEMMA AfterCursorTyped ==
    ASSUME NEW u, NEW j, DOMAIN j = Fields, JobTyped(j), j.at \in Moving
    PROVE  JobTyped(AfterCursor(u, j))
<1> DEFINE back == [j EXCEPT !.page = 0, !.col = 0, !.k = 1]
<1>1. DOMAIN back = Fields /\ back.at = j.at /\ back.text = j.text /\ back.i = j.i /\ back.k = 1
  BY BackIs
<1>2. CASE j.at = "clear"
  <2>1. AfterCursor(u, j) = [j EXCEPT !.at = "zeros"]
    BY <1>2, AfterClear, Zenon
  <2>2. JobTyped([j EXCEPT !.at = "zeros"])
    BY <1>2, PutAtTyped DEF JobTyped
  <2> QED
    BY <2>1, <2>2
<1>3. CASE j.at = "home"
  <2>1. AfterCursor(u, j) = IF j.text = <<>> THEN Finish(u, back) ELSE [back EXCEPT !.at = "char"]
    BY <1>3, AfterHome, Zenon DEF back
  <2> HIDE DEF back
  <2>2. JobTyped(back)
    BY <1>1 DEF JobTyped
  <2>3. j.text # <<>> => back.i \in 1..Len(back.text)
    BY <1>1, <1>3 DEF JobTyped, Text
  <2>4. JobTyped(Finish(u, back))
    BY <2>2, <1>1, FinishTyped
  <2>5. j.text # <<>> => JobTyped([back EXCEPT !.at = "char"])
    BY <2>2, <2>3, <1>1, PutAtTyped
  <2> QED
    BY <2>1, <2>4, <2>5
<1>4. CASE j.at = "line"
  <2>1. AfterCursor(u, j) =
          IF j.text[j.i] = NL THEN NextChar(u, back) ELSE [back EXCEPT !.at = "glyph"]
    BY <1>4, AfterLine, Zenon DEF back
  <2> HIDE DEF back
  <2>2. JobTyped(back) /\ back.i \in 1..Len(back.text)
    BY <1>1, <1>4 DEF JobTyped
  <2>3. JobTyped(NextChar(u, back))
    BY <2>2, <1>1, NextTyped
  <2>4. JobTyped([back EXCEPT !.at = "glyph"])
    BY <2>2, <1>1, PutAtTyped
  <2> QED
    BY <2>1, <2>3, <2>4
<1> QED
  BY <1>2, <1>3, <1>4 DEF Moving

\* The display's column stays on the display.
LEMMA CommandColumn ==
    ASSUME col \in Columns, NEW k \in 1..3, NEW p, Command(k, p, 0)
    PROVE  col' \in Columns
<1>0. col \in Nat /\ col < Width /\ Nibble \in Nat /\ Nibble > 0
  BY Sizes
<1>1. CASE k = 1
  <2>1. k # 2 /\ k # 3
    BY <1>1
  <2>2. col' = col
    BY <2>1, <1>1, Zenon DEF Command
  <2> QED
    BY <2>2
<1>2. CASE k = 2
  <2>1. k # 1 /\ k # 3
    BY <1>2
  <2>2. col' = (col \div Nibble) * Nibble + (0 % Nibble)
    BY <2>1, <1>2, Zenon DEF Command
  <2>3. 0 % Nibble = 0
    BY <1>0, ModSmall
  <2>4. (col \div Nibble) * Nibble \in Nat /\ (col \div Nibble) * Nibble <= col
    BY <1>0
  <2> QED
    BY <2>2, <2>3, <2>4, <1>0, Sizes
<1>3. CASE k = 3
  <2>1. k # 1 /\ k # 2
    BY <1>3
  <2>2. col' = (0 \div Nibble) * Nibble + (col % Nibble)
    BY <2>1, <1>3, Zenon DEF Command
  <2>3. 0 \div Nibble = 0 /\ 0 * Nibble = 0
    BY <1>0
  <2>4. col % Nibble \in Nat /\ col % Nibble <= col
    BY <1>0
  <2> QED
    BY <2>2, <2>3, <2>4, <1>0, Sizes
<1> QED
  BY <1>1, <1>2, <1>3

\* What a transfer leaves: the job, the two cursors.
Leaves(u, e) ==
    /\ job' = [job EXCEPT ![u] = e] /\ JobTyped(e) /\ col' \in Columns
    /\ \/ cursor'.col = 0
       \/ cursor' = cursor /\ (e.at \in Late => At(u) \in Late)
       \/ cursor' = cursor /\ cursor.col + Cell <= Width
       \/ /\ cursor'.col = cursor.col + Cell
          /\ u \in Writers /\ At(u) \in Late /\ e.at \notin Late

LEMMA ReturnKeeps ==
    ASSUME Base, TypeInv, NEW u \in Users, Return(u), col' \in Columns
    PROVE  \E e : Leaves(u, e)
<1> DEFINE e == IF u = Core /\ node THEN Finish(u, job[u]) ELSE NoJob
<1>1. job' = [job EXCEPT ![u] = e] /\ cursor' = cursor
  BY DEF Return, Base, JobInv
<1>2. DOMAIN job[u] = Fields /\ JobTyped(job[u])
  BY DEF Base, JobInv, JobOK, TypeInv
<1>3. JobTyped(e) /\ e.at \notin Late
  BY <1>2, FinishTyped, NoJobTyped
<1> HIDE DEF e
<1> QED
  BY <1>1, <1>3 DEF Leaves

LEMMA TransferLeaves ==
    ASSUME Base, TypeInv, NEW u \in Users, Transfer(u)
    PROVE  \E e : Leaves(u, e)
<1> DEFINE o == job[u]
<1>0. /\ DOMAIN o = Fields /\ JobTyped(o) /\ o.at = At(u) /\ o.col = 0
      /\ (o.at \in Moving => o.k \in 1..3)
      /\ (u = Core => At(u) \in CorePlaces)
  BY DEF Base, JobInv, JobOK, TypeInv, At
<1>w. u \in Writers \/ u = Core
  BY Sizes
<1>c. cursor \in [page : Rows, col : Nat] /\ col \in Columns
  BY DEF Base, CursorInv, TypeInv
<1>d. ASSUME NEW bytes, NEW n \in Nat, Data(bytes, n)
      PROVE  col' \in Columns
  <2>1. col' = (col + n) % Width
    BY <1>d DEF Data
  <2>2. col + n \in Int
    BY <1>c, Sizes
  <2> QED
    BY <2>1, <2>2, ModNat, Sizes
<1>m. ASSUME At(u) \in Moving, Command(o.k, o.page, o.col) \/ UNCHANGED <<ram, page, col>>
      PROVE  col' \in Columns
  <2>1. CASE Command(o.k, o.page, o.col)
    <3>1. Command(o.k, o.page, 0) /\ o.k \in 1..3
      BY <2>1, <1>0, <1>m
    <3> QED
      BY <3>1, <1>c, CommandColumn
  <2> QED
    BY <2>1, <1>m, <1>c
<1>1. CASE SetCursor(u)
  <2>1. At(u) \in Moving /\ Command(o.k, o.page, o.col)
    BY <1>1, <1>0 DEF SetCursor, Moving
  <2>2. col' \in Columns
    BY <2>1, <1>m
  <2>3. CASE o.k < 3
    <3> DEFINE e == [o EXCEPT !.k = @ + 1]
    <3>1. job' = [job EXCEPT ![u] = e] /\ cursor' = cursor
      BY <1>1, <2>3 DEF SetCursor, Continue
    <3>2. e.at = o.at /\ e.text = o.text /\ e.i = o.i /\ e.k = o.k + 1
      BY <1>0, PutKIs
    <3>3. o.k \in 1..3
      BY <2>1, <1>0
    <3> HIDE DEF e
    <3>4. JobTyped(e)
      <4>1. JobTyped(o) /\ o.at \notin {"char", "glyph", "space"} /\ e.k \in 1..26
        BY <3>2, <3>3, <1>0, <2>1 DEF Moving
      <4> HIDE DEF o
      <4> QED
        BY <4>1, <3>2 DEF JobTyped
    <3> QED
      BY <3>1, <3>2, <3>4, <2>2, <1>0 DEF Leaves
  <2>4. CASE ~(o.k < 3)
    <3> DEFINE e == AfterCursor(u, o)
    <3>1. job' = [job EXCEPT ![u] = e] /\ cursor' = [page |-> o.page, col |-> o.col]
      BY <1>1, <2>4 DEF SetCursor, Continue
    <3>2. JobTyped(e)
      BY <2>1, <1>0, AfterCursorTyped
    <3> HIDE DEF e
    <3>3. cursor'.col = 0
      BY <3>1, <1>0
    <3> QED
      BY <3>1, <3>2, <3>3, <2>2 DEF Leaves
  <2> QED
    BY <2>3, <2>4
<1>2. CASE ClearPage(u)
  <2> DEFINE n == o.page + 1
             e == IF n < Pages THEN [o EXCEPT !.at = "clear", !.page = n, !.k = 1]
                  ELSE [o EXCEPT !.at = "home", !.page = 0, !.k = 1]
  <2>1. job' = [job EXCEPT ![u] = e] /\ cursor' = cursor /\ o.at = "zeros"
        /\ Data([c \in 1..Width |-> Blank], Width)
    BY <1>2 DEF ClearPage, Continue
  <2>2. col' \in Columns
    BY <2>1, <1>d, Sizes
  <2>3. e.at \in {"clear", "home"} /\ e.text = o.text /\ e.i = o.i /\ e.k = 1
    BY <1>0, CursorJobIs
  <2> HIDE DEF e
  <2>4. JobTyped(e) /\ e.at \notin Late
    BY <2>1, <2>3, <1>0 DEF JobTyped, Late
  <2> QED
    BY <2>1, <2>2, <2>4 DEF Leaves
<1>3. CASE PutChar(u)
  <2> DEFINE p == (cursor.page + 1) % Pages
             e == [o EXCEPT !.at = "line", !.page = p, !.col = 0, !.k = 1]
             g == [o EXCEPT !.at = "glyph"]
  <2>1. o.at = "char" /\ col' = col
    BY <1>3 DEF PutChar
  <2>2. \/ job' = [job EXCEPT ![u] = e] /\ cursor' = [page |-> p, col |-> 0]
        \/ job' = [job EXCEPT ![u] = g] /\ cursor' = cursor /\ Fits
    BY <1>3 DEF PutChar, Continue
  <2>3. JobTyped(g)
    BY <2>1, <1>0, PutAtTyped DEF JobTyped
  <2>4. e.at = "line" /\ e.text = o.text /\ e.i = o.i /\ e.k = 1
    BY <1>0, CursorJobIs
  <2> HIDE DEF e, g, p
  <2>5. JobTyped(e)
    BY <2>1, <2>4, <1>0 DEF JobTyped
  <2>6. CASE job' = [job EXCEPT ![u] = e] /\ cursor' = [page |-> p, col |-> 0]
    BY <2>1, <2>5, <2>6, <1>c DEF Leaves
  <2>7. CASE job' = [job EXCEPT ![u] = g] /\ cursor' = cursor /\ Fits
    BY <2>1, <2>3, <2>7, <1>c DEF Leaves, Fits
  <2> QED
    BY <2>2, <2>6, <2>7
<1>4. CASE PutGlyph(u)
  <2> DEFINE e == [o EXCEPT !.at = "space"]
  <2>1. o.at = "glyph" /\ job' = [job EXCEPT ![u] = e] /\ cursor' = cursor
        /\ Data(Glyph(o.text[o.i]), FontWidth)
    BY <1>4 DEF PutGlyph, Continue
  <2>2. JobTyped(e)
    BY <2>1, <1>0, PutAtTyped DEF JobTyped
  <2>3. col' \in Columns
    BY <2>1, <1>d, Sizes
  <2>4. At(u) \in Late
    BY <2>1, <1>0 DEF Late
  <2> HIDE DEF e
  <2> QED
    BY <2>1, <2>2, <2>3, <2>4 DEF Leaves
<1>5. CASE PutSpace(u)
  <2> DEFINE e == NextChar(u, o)
  <2>1. o.at = "space" /\ job' = [job EXCEPT ![u] = e] /\ Data(<<Blank>>, 1)
        /\ cursor' = [cursor EXCEPT !.col = @ + Cell]
    BY <1>5, <1>0 DEF PutSpace, Continue
  <2>2. JobTyped(e) /\ e.at \notin Late
    BY <2>1, <1>0, NextTyped DEF JobTyped
  <2>3. col' \in Columns
    BY <2>1, <1>d
  <2>4. u \in Writers /\ At(u) \in Late
    BY <2>1, <1>0, <1>w DEF Late, CorePlaces
  <2>5. cursor'.col = cursor.col + Cell
    BY <2>1, <1>c
  <2> HIDE DEF e
  <2> QED
    BY <2>1, <2>2, <2>3, <2>4, <2>5 DEF Leaves
<1>6. CASE SetCursorFails(u)
  <2>1. At(u) \in Moving /\ Return(u)
        /\ (Command(o.k, o.page, o.col) \/ UNCHANGED <<ram, page, col>>)
    BY <1>6 DEF SetCursorFails, Moving
  <2>2. col' \in Columns
    BY <2>1, <1>m
  <2> QED
    BY <2>1, <2>2, ReturnKeeps
<1>7. CASE ClearPageFails(u)
  <2>1. PICK n \in 0..Width : Data([c \in 1..Width |-> Blank], n)
    BY <1>7 DEF ClearPageFails
  <2>2. n \in Nat /\ Return(u)
    BY <1>7, Sizes DEF ClearPageFails
  <2>3. col' \in Columns
    BY <2>1, <2>2, <1>d
  <2> QED
    BY <2>2, <2>3, ReturnKeeps
<1>8. CASE PutFails(u)
  <2>1. Return(u)
    BY <1>8 DEF PutFails
  <2>2. CASE \E n \in 0..FontWidth : Data(Glyph(o.text[o.i]), n)
    <3>1. PICK n \in 0..FontWidth : Data(Glyph(o.text[o.i]), n)
      BY <2>2
    <3>2. n \in Nat
      BY Sizes
    <3>3. col' \in Columns
      BY <3>1, <3>2, <1>d
    <3> QED
      BY <3>3, <2>1, ReturnKeeps
  <2>3. CASE \E n \in 0..1 : Data(<<Blank>>, n)
    <3>1. PICK n \in 0..1 : Data(<<Blank>>, n)
      BY <2>3
    <3>2. col' \in Columns
      BY <3>1, <1>d
    <3> QED
      BY <3>2, <2>1, ReturnKeeps
  <2> QED
    BY <1>8, <2>2, <2>3 DEF PutFails
<1> QED
  BY <1>1, <1>2, <1>3, <1>4, <1>5, <1>6, <1>7, <1>8 DEF Transfer

\* What an action does to the history and to the count of events.
Keeps ==
    /\ alone' = alone \/ alone' = {} \/ \E w : alone' = {w}
    /\ shown' = shown \/ shown' = {} \/ \E t : shown' = {t}
    /\ events' = events \/ Event

LEMMA NextKeeps == Next => Keeps
<1>1. ASSUME NEW w \in Writers, NEW t \in Texts[w], Write(w, t) PROVE Keeps
  BY <1>1 DEF Write, Keeps
<1>2. ASSUME NEW w, Return(w) PROVE Keeps
  BY <1>2 DEF Return, Keeps
<1>3. ASSUME NEW w, NEW j, Continue(w, j) PROVE Keeps
  BY <1>3 DEF Continue, Keeps
<1>4. ASSUME NEW u \in Users, Transfer(u) PROVE Keeps
  BY <1>4, <1>2, <1>3 DEF Transfer, SetCursor, ClearPage, PutChar, PutGlyph, PutSpace,
     SetCursorFails, ClearPageFails, PutFails
<1>5. ASSUME CoreStep PROVE Keeps
  BY <1>5 DEF CoreStep, Probe, InitCmd, InitCmdFails, Register, Remove, Off, Deregister, Keeps
<1> QED
  BY <1>1, <1>4, <1>5 DEF Next, Transfer, CoreStep

LEMMA CoreLeaves ==
    ASSUME Base, TypeInv, CoreStep
    PROVE  \E e : Leaves(Core, e)
<1>0. /\ JobTyped(job[Core]) /\ DOMAIN job[Core] = Fields /\ Core \in Users
      /\ (At(Core) = "init" => job[Core].k \in 1..26)
      /\ job[Core].at = At(Core) /\ col \in Columns
  BY Sizes DEF Base, JobInv, JobOK, TypeInv, At
<1>t. Text(<<>>)
  BY DEF Text
<1>1. CASE Probe
  <2> DEFINE e == [NewJob(<<>>) EXCEPT !.at = "init"]
  <2>1. /\ job' = [job EXCEPT ![Core] = e] /\ cursor' = [page |-> 0, col |-> 0]
        /\ col' = col
    BY <1>1 DEF Probe, CoreGoes
  <2>2. JobTyped(e)
    BY <1>t, NewJobTyped, NewJobIs, PutAtTyped
  <2> HIDE DEF e
  <2> QED
    BY <2>1, <2>2, <1>0 DEF Leaves
<1>2. CASE InitCmd
  <2> DEFINE up == [job[Core] EXCEPT !.k = @ + 1]
             e  == IF job[Core].k < Len(InitCmds) THEN up ELSE NewJob(<<>>)
  <2>1. /\ At(Core) = "init" /\ job' = [job EXCEPT ![Core] = e]
        /\ cursor' = cursor /\ col' = col
    BY <1>2 DEF InitCmd, CoreGoes, Receive
  <2>2. /\ up.at = "init" /\ up.text = job[Core].text /\ up.i = job[Core].i
        /\ up.k = job[Core].k + 1
    BY <2>1, <1>0, PutKIs
  <2>3. JobTyped(NewJob(<<>>)) /\ NewJob(<<>>).at \notin Late
    BY <1>t, NewJobTyped
  <2>4. /\ job[Core].k < 26 => e = up
        /\ ~(job[Core].k < 26) => e = NewJob(<<>>)
    BY InitLen
  <2> HIDE DEF up, e
  <2>5. job[Core].k < 26 => JobTyped(up) /\ up.at \notin Late
    BY <2>1, <2>2, <1>0 DEF JobTyped, Late
  <2>6. JobTyped(e) /\ e.at \notin Late
    BY <2>3, <2>4, <2>5
  <2> QED
    BY <2>1, <2>6, <1>0 DEF Leaves
<1>3. CASE InitCmdFails \/ Register
  <2>1. job' = [job EXCEPT ![Core] = NoJob] /\ cursor' = cursor /\ col' = col
    BY <1>3 DEF InitCmdFails, Register, CoreGoes, Receive
  <2> QED
    BY <2>1, NoJobTyped, <1>0 DEF Leaves
<1>4. CASE Remove
  <2>1. job' = [job EXCEPT ![Core] = NewJob(<<>>)] /\ cursor' = cursor /\ col' = col
    BY <1>4 DEF Remove, CoreGoes
  <2> QED
    BY <2>1, <1>t, NewJobTyped, <1>0 DEF Leaves
<1>5. CASE Off
  <2> DEFINE e == [job[Core] EXCEPT !.at = "deregister"]
  <2>1. job' = [job EXCEPT ![Core] = e] /\ cursor' = cursor /\ col' = col
    BY <1>5 DEF Off, CoreGoes, Receive
  <2>2. JobTyped(e) /\ e.at = "deregister"
    BY <1>0, PutAtTyped
  <2> HIDE DEF e
  <2> QED
    BY <2>1, <2>2, <1>0 DEF Leaves, Late
<1>6. CASE Deregister
  <2> DEFINE b == [NoJob EXCEPT !.at = "broken"]
             e == IF Inside # {Core} THEN b ELSE NoJob
  <2>1. job' = [job EXCEPT ![Core] = e] /\ cursor' = cursor /\ col' = col
    BY <1>6 DEF Deregister, CoreGoes
  <2>2. JobTyped(b) /\ b.at = "broken"
    BY NoJobTyped, NoJobIs, PutAtTyped
  <2>3. e = b \/ e = NoJob
    OBVIOUS
  <2> HIDE DEF b, e
  <2>4. JobTyped(e) /\ e.at \notin Late
    BY <2>2, <2>3, NoJobTyped DEF Late
  <2> QED
    BY <2>1, <2>4, <1>0 DEF Leaves
<1> QED
  BY <1>1, <1>2, <1>3, <1>4, <1>5, <1>6 DEF CoreStep

LEMMA WriteLeaves ==
    ASSUME Base, TypeInv, NEW w \in Writers, NEW t \in Texts[w], Write(w, t)
    PROVE  \E e : Leaves(w, e)
<1>1. PICK s : Text(s) /\ job' = [job EXCEPT ![w] = NewJob(s)]
  BY WriteStrips
<1>2. cursor' = cursor /\ col' = col /\ col \in Columns
  BY DEF Write, TypeInv
<1> QED
  BY <1>1, <1>2, NewJobTyped DEF Leaves

LEMMA TypeInit == Init => TypeInv
<1> SUFFICES ASSUME Init PROVE TypeInv
  OBVIOUS
<1>1. \A w \in Users : job[w] = NoJob
  BY DEF Init
<1>2. \A w \in Users : JobTyped(job[w]) /\ At(w) \notin Late
  BY <1>1, NoJobTyped DEF At
<1>3. Ahead = {}
  BY <1>2, Sizes DEF Ahead
<1>4. col = 0 /\ cursor.col = 0 /\ alone = {} /\ shown = {} /\ events = 0
  BY DEF Init
<1>5. Load(Ahead) \in Nat /\ Load(Ahead) <= Room
  BY <1>3, LoadIs
<1>6. cursor.col + Load(Ahead) <= Room
  BY <1>4, <1>5
<1>7. 0 \in Columns /\ 0 \in 0..MaxEvents
  BY Sizes, DisplayAssumption DEF DisplayAssumption
<1> QED
  BY <1>2, <1>4, <1>6, <1>7 DEF TypeInv

LEMMA TypeStep == Base /\ Base' /\ TypeInv /\ [Next]_vars => TypeInv'
<1> SUFFICES ASSUME Base, Base', TypeInv, [Next]_vars PROVE TypeInv'
  OBVIOUS
<1>1. CASE UNCHANGED vars
  <2>1. Ahead' = Ahead
    BY <1>1 DEF Ahead, At, vars
  <2> QED
    BY <1>1, <2>1 DEF vars, TypeInv, Load
<1>2. CASE Next
  <2>1. PICK u \in Users : \E e : Leaves(u, e)
    BY <1>2, WriteLeaves, TransferLeaves, CoreLeaves, Sizes DEF Next, Transfer, CoreStep
  <2>2. PICK e : Leaves(u, e)
    BY <2>1
  <2>3. \A w \in Users : JobTyped(job[w])'
    BY <2>2 DEF Leaves, TypeInv, Base, JobInv
  <2>4. (cursor.col + Load(Ahead) <= Room)'
    <3>1. cursor' \in [page : Rows, col : Nat]
      BY DEF Base, CursorInv
    <3>2. cursor'.col + Load(Ahead') <= Room
      BY <3>1, <2>2, AheadMoves DEF Leaves
    <3> QED
      BY <3>2 DEF Load
  <2>5. (alone = {} \/ \E w : alone = {w})' /\ (shown = {} \/ \E t : shown = {t})'
    BY <1>2, NextKeeps DEF Keeps, TypeInv
  <2>6. events' \in 0..MaxEvents
    BY <1>2, NextKeeps, DisplayAssumption DEF Keeps, TypeInv, Event, DisplayAssumption
  <2>7. col' \in Columns
    BY <2>2 DEF Leaves
  <2> QED
    BY <2>3, <2>4, <2>5, <2>6, <2>7 DEF TypeInv
<1> QED
  BY <1>1, <1>2 DEF Next

THEOREM TypesHold == Spec => []TypeInv
BY TypeInit, TypeStep, BaseHolds, PTL DEF Spec

\* Every variable has its type.  The bound that is not obvious: the driver's
\* column passes the width by one cell at most for every writer but one, since
\* every writer that overlaps may have found room before another one took it
\* (ssd1306_drv.c:228-256).
THEOREM TypeCorrect == Spec => []TypeOK
<1>1. Base /\ TypeInv /\ SetupInv => TypeOK
  <2> SUFFICES ASSUME Base, TypeInv, SetupInv PROVE TypeOK
    OBVIOUS
  <2>1. cursor \in [page : Rows, col : 0..Room]
    <3>1. Ahead \in SUBSET Writers
      BY DEF Ahead
    <3>2. cursor.col + Load(Ahead) <= Room /\ Load(Ahead) \in Nat /\ Room \in Int
      BY <3>1, LoadIs DEF TypeInv
    <3>3. cursor \in [page : Rows, col : Nat]
      BY DEF Base, CursorInv
    <3>4. cursor.col \in 0..Room
      BY <3>2, <3>3
    <3> QED
      BY <3>3, <3>4
  <2>2. ASSUME NEW w \in Users
        PROVE  /\ At(w) \in Places
               /\ At(w) \in {"char", "line", "glyph", "space"} => job[w].i \in DOMAIN job[w].text
               /\ job[w].page \in Rows /\ job[w].col \in Columns /\ job[w].k \in DOMAIN InitCmds
    <3>1. JobOK(w, job[w], node) /\ JobTyped(job[w]) /\ At(w) = job[w].at
      BY DEF Base, JobInv, TypeInv, At
    <3>2. At(w) \in Places
      BY <3>1, Sizes DEF JobOK, WriterPlaces, CorePlaces, Places
    <3>3. DOMAIN InitCmds = 1..26
      BY DEF InitCmds
    <3>4. job[w].page \in Rows /\ job[w].col \in Columns
      BY <3>1, Sizes DEF JobOK
    <3> QED
      BY <3>1, <3>2, <3>3, <3>4 DEF JobTyped, Text
  <2>3. Cardinality(alone) <= 1 /\ Cardinality(shown) <= 1
    <3>1. Cardinality({}) = 0
      BY FS_EmptySet, Zenon
    <3>2. \A x : Cardinality({x}) = 1
      BY FS_Singleton
    <3>3. Cardinality(alone) \in {0, 1}
      BY <3>1, <3>2, Zenon DEF TypeInv
    <3>4. Cardinality(shown) \in {0, 1}
      BY <3>1, <3>2, Zenon DEF TypeInv
    <3> QED
      BY <3>3, <3>4
  <2>4. /\ \A p \in Rows : DOMAIN ram[p] = Columns
        /\ page \in Rows /\ col \in Columns /\ node \in BOOLEAN /\ alone \subseteq Writers
        /\ events \in 0..MaxEvents
    BY DEF Base, CursorInv, JobInv, TypeInv
  <2>5. DOMAIN setting = Families /\ pending \in WithArgument \cup {NoByte}
    BY DEF SetupInv
  <2> QED
    BY <2>1, <2>2, <2>3, <2>4, <2>5 DEF TypeOK, Room
<1> QED
  BY <1>1, BaseHolds, TypesHold, SetupHolds, PTL

=============================================================================
