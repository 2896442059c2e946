--------------------------- MODULE RenderingProofs ---------------------------
(***************************************************************************)
(* What a row of a stacked cache reads is its own: adding a row, removing  *)
(* one or writing a column changes nothing of what any other row reads.    *)
(* From there, layer by layer, frame by frame, what a text read in a batch *)
(* gives is what the same text gives alone; and the stacks stay bounded.   *)
(***************************************************************************)
EXTENDS Rendering, BatcherProofs, Recursion, SequenceTheorems

(* usize::next_power_of_two *)

Powers(n) == CHOOSE f : f = [i \in 0..n |-> IF i = 0 THEN 1 ELSE 2 * f[i - 1]]

LEMMA PowersAre ==
    ASSUME NEW n \in Nat
    PROVE  \A i \in 0..n : Powers(n)[i] \in Nat /\ Powers(n)[i] >= i
  <1> DEFINE S == [i \in 0..n |-> {m \in Nat : m >= i + 1}]
             G == [q \in (1..n) \X Nat |-> 2 * q[2]]
             f == Powers(n)
  <1>0. /\ \A i \in 0..n : \A m : m \in S[i] <=> m \in Nat /\ m >= i + 1
        /\ \A i \in 1..n : i \in 0..n /\ i # 0 /\ i - 1 \in 0..n
        /\ 0 \in 0..n
    OBVIOUS
  <1>1. \A i \in 1..n, m \in Nat : G[<<i, m>>] = 2 * m
    OBVIOUS
  <1> HIDE DEF S, G
  <1>2. PICK g : Solves(n, S, 1, G, g)
    <2>1. 1 \in S[0]
      BY <1>0
    <2>2. ASSUME NEW i \in 1..n, NEW m \in S[i - 1] PROVE G[<<i, m>>] \in S[i]
      <3>1. m \in Nat /\ m >= (i - 1) + 1
        BY <1>0
      <3>2. 2 * m \in Nat /\ 2 * m >= i + 1
        BY <3>1
      <3> QED
        BY <1>0, <1>1, <3>1, <3>2
    <2> QED
      BY <2>1, <2>2, RecursionExists DEF StaysIn
  <1>3. g = [i \in 0..n |-> IF i = 0 THEN 1 ELSE 2 * g[i - 1]]
    <2>1. \A i \in 1..n : g[i] = 2 * g[i - 1]
      BY <1>0, <1>1, <1>2 DEF Solves
    <2>2. \A i \in 0..n : i # 0 => i \in 1..n
      OBVIOUS
    <2> QED
      BY <1>2, <2>1, <2>2 DEF Solves
  <1>4. f = [i \in 0..n |-> IF i = 0 THEN 1 ELSE 2 * f[i - 1]]
    BY <1>3 DEF Powers
  <1> HIDE DEF f
  <1>5. f[0] = 1 /\ \A i \in 1..n : f[i] = 2 * f[i - 1]
    BY <1>0, <1>4
  <1>6. \A i \in 0..n : f[i] \in S[i]
    <2>1. f[0] \in S[0]
      BY <1>0, <1>5
    <2>2. ASSUME NEW i \in 1..n, f[i - 1] \in S[i - 1] PROVE f[i] \in S[i]
      <3>1. f[i - 1] \in Nat /\ f[i - 1] >= (i - 1) + 1
        BY <1>0, <2>2
      <3>2. 2 * f[i - 1] \in Nat /\ 2 * f[i - 1] >= i + 1
        BY <3>1
      <3> QED
        BY <1>0, <1>5, <3>2
    <2> QED
      BY <2>1, <2>2, RecursionStays
  <1> QED
    BY <1>0, <1>6 DEF f

\* A power of two no smaller than n is there to be found.
LEMMA NextPowerCovers ==
    ASSUME NEW n \in Nat
    PROVE  NextPowerOfTwo(n) \in Nat /\ NextPowerOfTwo(n) >= n
  <1> DEFINE enough == {p \in {Powers(n)[i] : i \in 0..n} : p >= n}
  <1>1. NextPowerOfTwo(n) = CHOOSE p \in enough : \A q \in enough : p <= q
    BY DEF NextPowerOfTwo, Powers
  <1>2. enough \subseteq Nat /\ \A p \in enough : p >= n
    BY PowersAre
  <1>3. enough # {}
    <2>1. Powers(n)[n] \in enough
      BY PowersAre
    <2> QED
      BY <2>1
  <1> HIDE DEF enough
  <1>4. \E p \in enough : \A q \in enough : p <= q
    BY <1>2, <1>3, Least
  <1> QED
    BY <1>1, <1>2, <1>4

-----------------------------------------------------------------------------
(* The stacked caches *)

\* A function on 1..n is a sequence of what it gives.
LEMMA FunctionIsSeq ==
    ASSUME NEW S, NEW n \in Nat, NEW f, f = [i \in 1..n |-> f[i]],
           \A i \in 1..n : f[i] \in S
    PROVE  f \in Seq(S) /\ Len(f) = n
  <1>1. f \in [1..n -> S]
    OBVIOUS
  <1> QED
    BY <1>1

LEMMA ZerosType ==
    ASSUME NEW n \in Nat
    PROVE  Zeros(n) \in Seq(Cell) /\ Len(Zeros(n)) = n
  BY DEF Zeros, Zero, Cell

LEMMA PlacedRow ==
    ASSUME NEW row \in Seq(Cell), NEW left \in Nat, NEW width \in Nat,
           left + Len(row) <= width
    PROVE  /\ Placed(row, left, width) \in Seq(Cell)
           /\ Len(Placed(row, left, width)) = width
           /\ \A j \in 1..Len(row) : Placed(row, left, width)[left + j] = row[j]
  <1>1. Zeros(left) \in Seq(Cell) /\ Len(Zeros(left)) = left
    BY ZerosType
  <1> DEFINE right == width - left - Len(row)
  <1>2. right \in Nat
    OBVIOUS
  <1>3. Zeros(right) \in Seq(Cell) /\ Len(Zeros(right)) = right
    BY <1>2, ZerosType
  <1> DEFINE head == Zeros(left) \o row
  <1>4. /\ head \in Seq(Cell) /\ Len(head) = left + Len(row)
        /\ \A j \in 1..Len(row) : head[left + j] = row[j]
    BY <1>1
  <1>5. Placed(row, left, width) = head \o Zeros(right)
    BY DEF Placed
  <1> HIDE DEF head, right
  <1>6. \A j \in 1..Len(row) : (head \o Zeros(right))[left + j] = head[left + j]
    BY <1>3, <1>4
  <1>7. Len(head \o Zeros(right)) = width /\ head \o Zeros(right) \in Seq(Cell)
    BY <1>3, <1>4 DEF right
  <1> QED
    BY <1>4, <1>5, <1>6, <1>7

-----------------------------------------------------------------------------
(* push: one column for every row *)

LEMMA SliceSetOne ==
    ASSUME NEW row \in Seq(Cell), NEW at \in Nat, NEW cell \in Cell, at < Len(row)
    PROVE  /\ SliceSet(row, at, <<cell>>) \in Seq(Cell)
           /\ Len(SliceSet(row, at, <<cell>>)) = Len(row)
           /\ SliceSet(row, at, <<cell>>)[at + 1] = cell
           /\ \A j \in 1..Len(row) : j # at + 1 => SliceSet(row, at, <<cell>>)[j] = row[j]
  <1>1. Len(<<cell>>) = 1 /\ <<cell>>[1] = cell
    OBVIOUS
  <1> DEFINE new == [i \in 1..Len(row) |->
                       IF i \in (at + 1)..(at + 1) THEN <<cell>>[i - at] ELSE row[i]]
  <1>2. SliceSet(row, at, <<cell>>) = new
    BY <1>1 DEF SliceSet
  <1>3. \A i \in 1..Len(row) : new[i] = IF i = at + 1 THEN cell ELSE row[i]
    BY <1>1
  <1>4. \A i \in 1..Len(row) : new[i] \in Cell
    BY <1>3
  <1>5. new \in Seq(Cell) /\ Len(new) = Len(row)
    BY <1>4
  <1> HIDE DEF new
  <1> QED
    BY <1>2, <1>3, <1>5

LEMMA Widened ==
    ASSUME NEW row \in Seq(Cell), NEW n \in Nat
    PROVE  /\ row \o Zeros(n) \in Seq(Cell)
           /\ Len(row \o Zeros(n)) = Len(row) + n
           /\ \A j \in 1..Len(row) : (row \o Zeros(n))[j] = row[j]
  BY ZerosType

-----------------------------------------------------------------------------
(* What a row reads, by its buffer *)

\* The columns of a row that end before column `cur`.
LEMMA LastCells ==
    ASSUME NEW row \in Seq(Cell), NEW cur \in Nat, NEW len \in Nat, len <= cur, cur <= Len(row)
    PROVE  /\ SubSeq(row, cur - len + 1, cur) \in Seq(Cell)
           /\ Len(SubSeq(row, cur - len + 1, cur)) = len
           /\ \A j \in 1..len : SubSeq(row, cur - len + 1, cur)[j] = row[(cur - len) + j]
  <1> DEFINE first == cur - len + 1
  <1>1. first \in Int /\ first - 1 = cur - len /\ cur - first + 1 = len
    OBVIOUS
  <1>2. \A i \in first..cur : row[i] \in Cell
    BY <1>1
  <1>3. \A j \in 1..len : first + j - 1 = (cur - len) + j
    BY <1>1
  <1> HIDE DEF first
  <1>4. /\ SubSeq(row, first, cur) \in Seq(Cell)
        /\ Len(SubSeq(row, first, cur)) = IF first <= cur THEN cur - first + 1 ELSE 0
        /\ \A j \in 1..(cur - first + 1) : SubSeq(row, first, cur)[j] = row[first + j - 1]
    BY <1>1, <1>2, SubSeqProperties
  <1>5. Len(SubSeq(row, first, cur)) = len
    BY <1>1, <1>4
  <1>6. \A j \in 1..len : SubSeq(row, first, cur)[j] = row[(cur - len) + j]
    BY <1>1, <1>3, <1>4
  <1> QED
    BY <1>4, <1>5, <1>6 DEF first

\* As long as the columns it reads are the same ones, moved right by `shift`.
LEMMA SameRead ==
    ASSUME NEW row \in Seq(Cell), NEW new \in Seq(Cell),
           NEW cur \in Nat, NEW len \in Nat, NEW shift \in Nat,
           len <= cur, cur <= Len(row), shift + cur <= Len(new),
           \A j \in 1..cur : new[shift + j] = row[j]
    PROVE  SubSeq(new, (shift + cur) - len + 1, shift + cur) = SubSeq(row, cur - len + 1, cur)
  <1> DEFINE s == SubSeq(new, (shift + cur) - len + 1, shift + cur)
             t == SubSeq(row, cur - len + 1, cur)
  <1>1. /\ s \in Seq(Cell) /\ Len(s) = len
        /\ \A j \in 1..len : s[j] = new[((shift + cur) - len) + j]
    BY LastCells
  <1>2. \A j \in 1..len : ((shift + cur) - len) + j = shift + ((cur - len) + j)
    OBVIOUS
  <1>3. /\ t \in Seq(Cell) /\ Len(t) = len
        /\ \A j \in 1..len : t[j] = row[(cur - len) + j]
    BY LastCells
  <1>5. \A j \in 1..len : (cur - len) + j \in 1..cur
    OBVIOUS
  <1> HIDE DEF s, t
  <1>6. \A j \in 1..len : s[j] = t[j]
    BY <1>1, <1>2, <1>3, <1>5
  <1> HIDE DEF s, t
  <1>7. s = t
    BY <1>1, <1>3, <1>6, SeqEqual
  <1> QED
    BY <1>7 DEF s, t

LEMMA OneMoreRead ==
    ASSUME NEW row \in Seq(Cell), NEW new \in Seq(Cell), NEW cell \in Cell,
           NEW cur \in Nat, NEW len \in Nat,
           len <= cur, cur <= Len(row), cur < Len(new),
           \A j \in 1..cur : new[j] = row[j],
           new[cur + 1] = cell
    PROVE  SubSeq(new, (cur + 1) - (len + 1) + 1, cur + 1)
             = Append(SubSeq(row, cur - len + 1, cur), cell)
  <1> DEFINE s == SubSeq(new, (cur + 1) - (len + 1) + 1, cur + 1)
             t == SubSeq(row, cur - len + 1, cur)
  <1>0. /\ s \in Seq(Cell) /\ Len(s) = len + 1
        /\ \A j \in 1..(len + 1) : s[j] = new[((cur + 1) - (len + 1)) + j]
    BY LastCells
  <1>1. s \in Seq(Cell) /\ Len(s) = len + 1
    BY <1>0
  <1>2. \A j \in 1..(len + 1) : s[j] = new[(cur - len) + j]
    <2>1. (cur + 1) - (len + 1) = cur - len
      OBVIOUS
    <2> QED
      BY <1>0, <2>1
  <1>3. t \in Seq(Cell) /\ Len(t) = len
    BY LastCells
  <1>4. \A j \in 1..len : t[j] = row[(cur - len) + j]
    BY LastCells
  <1>5. \A j \in 1..len : (cur - len) + j \in 1..cur
    OBVIOUS
  <1> HIDE DEF s, t
  <1>6. \A j \in 1..len : s[j] = t[j]
    BY <1>2, <1>4, <1>5
  <1>7. s[len + 1] = cell
    <2>1. len + 1 \in 1..(len + 1) /\ (cur - len) + (len + 1) = cur + 1
      OBVIOUS
    <2> QED
      BY <1>2, <2>1
  <1>8. /\ Append(t, cell) \in Seq(Cell) /\ Len(Append(t, cell)) = len + 1
        /\ \A j \in 1..(len + 1) : Append(t, cell)[j] = IF j <= len THEN t[j] ELSE cell
    BY <1>3
  <1>9. \A j \in 1..(len + 1) : s[j] = Append(t, cell)[j]
    BY <1>6, <1>7, <1>8
  <1>10. s = Append(t, cell)
    BY <1>1, <1>8, <1>9, SeqEqual
  <1> QED
    BY <1>10 DEF s, t

-----------------------------------------------------------------------------
(* The stack of well-formed rows *)

LEMMA GoodFields ==
    ASSUME NEW c, GoodStack(c)
    PROVE  /\ c.cur \in Nat /\ c.len \in Seq(Nat) /\ c.pos \in Seq(Nat)
           /\ c.k \in Seq(Seq(Cell)) /\ Len(c.k) = Len(c.len) /\ Len(c.pos) = Len(c.len)
           /\ Capacity(c) \in Nat
           /\ \A i \in 1..Len(c.len) :
                /\ c.k[i] \in Seq(Cell) /\ Len(c.k[i]) = Capacity(c)
                /\ c.len[i] \in Nat /\ c.len[i] <= c.cur /\ c.cur <= Capacity(c)
  <1>1. /\ c.cur \in Nat /\ c.len \in Seq(Nat) /\ c.pos \in Seq(Nat)
        /\ c.k \in Seq(Seq(Cell)) /\ Len(c.k) = Len(c.len) /\ Len(c.pos) = Len(c.len)
    BY DEF GoodStack, Rows
  <1>2. \A i \in 1..Len(c.len) : c.k[i] \in Seq(Cell) /\ c.len[i] \in Nat
    BY <1>1
  <1>3. \A i \in 1..Len(c.len) :
          Len(c.k[i]) = Capacity(c) /\ c.len[i] <= c.cur /\ c.cur <= Capacity(c)
    BY DEF GoodStack, Rows
  <1>4. Capacity(c) \in Nat
    <2>1. CASE Len(c.len) > 0
      BY <2>1, <1>1, <1>2 DEF Capacity, Rows
    <2>2. CASE ~ (Len(c.len) > 0)
      BY <2>2 DEF Capacity, Rows
    <2> QED
      BY <2>1, <2>2
  <1> QED
    BY <1>1, <1>2, <1>3, <1>4

\* A stack is good whose rows are all of one capacity and hold what they read.
LEMMA GoodByFields ==
    ASSUME NEW k \in Seq(Seq(Cell)), NEW cur \in Nat, NEW len \in Seq(Nat),
           NEW pos \in Seq(Nat), NEW cap \in Nat,
           Len(k) = Len(len), Len(pos) = Len(len),
           \A i \in 1..Len(len) : Len(k[i]) = cap /\ len[i] <= cur /\ cur <= cap
    PROVE  GoodStack([k |-> k, cur |-> cur, len |-> len, pos |-> pos])
  <1> DEFINE c == [k |-> k, cur |-> cur, len |-> len, pos |-> pos]
  <1>1. Rows(c) = Len(len)
    BY DEF Rows
  <1>2. \A i \in 1..Len(len) : Capacity(c) = cap
    BY <1>1 DEF Capacity
  <1> QED
    BY <1>1, <1>2 DEF GoodStack

-----------------------------------------------------------------------------
(* The operations *)

\* push writes one column of every row, and a row reads what it read before and
\* the entry written for it.
THEOREM PushKeepsRows ==
    ASSUME NEW c, GoodStack(c), NEW cells \in Seq(Cell), Len(cells) = Rows(c)
    PROVE  /\ GoodStack(Pushed(c, cells))
           /\ \A i \in 1..Rows(c) :
                RowOf(Pushed(c, cells), i) = Append(RowOf(c, i), cells[i])
  <1> DEFINE n == Len(c.len)
             rows == c.k
             cur == c.cur
             size == c.len
             at == c.pos
             width == Capacity(c)
             more == Greater(width, GrowBy)
             full == cur >= width
             cap == IF full THEN width + more ELSE width
             Wide(row) == IF full THEN row \o Zeros(more) ELSE row
             k == [i \in 1..n |-> SliceSet(Wide(rows[i]), cur, <<cells[i]>>)]
             len == [i \in 1..n |-> size[i] + 1]
             pos == [i \in 1..n |-> at[i] + 1]
  <1>1. /\ cur \in Nat /\ size \in Seq(Nat) /\ at \in Seq(Nat)
        /\ rows \in Seq(Seq(Cell)) /\ Len(rows) = n /\ Len(at) = n
        /\ width \in Nat
        /\ \A i \in 1..n :
             /\ rows[i] \in Seq(Cell) /\ Len(rows[i]) = width
             /\ size[i] \in Nat /\ size[i] <= cur /\ cur <= width
    BY GoodFields
  <1>2. n \in Nat /\ Rows(c) = n /\ Len(size) = n
    BY <1>1 DEF Rows
  <1>3. DOMAIN c.k = 1..n /\ DOMAIN c.len = 1..n /\ DOMAIN c.pos = 1..n
    BY <1>1, <1>2
  <1>4. Pushed(c, cells) = [k |-> k, cur |-> cur + 1, len |-> len, pos |-> pos]
    BY <1>3 DEF Pushed
  <1>5. \A i : RowOf(c, i) = SubSeq(rows[i], cur - size[i] + 1, cur)
    BY DEF RowOf
  <1>6. more \in Nat /\ more > 0
    BY <1>1, GrowByAssumption DEF Greater
  <1> HIDE DEF n, rows, cur, size, at, width, more
  <1>7. cap \in Nat /\ \A i \in 1..n : cur < cap
    BY <1>1, <1>6
  <1>8. \A i \in 1..n : /\ Wide(rows[i]) \in Seq(Cell) /\ Len(Wide(rows[i])) = cap
                        /\ \A j \in 1..cur : Wide(rows[i])[j] = rows[i][j]
    <2> SUFFICES ASSUME NEW i \in 1..n
                 PROVE  /\ Wide(rows[i]) \in Seq(Cell) /\ Len(Wide(rows[i])) = cap
                        /\ \A j \in 1..cur : Wide(rows[i])[j] = rows[i][j]
      OBVIOUS
    <2> DEFINE row == rows[i]
    <2>1. row \in Seq(Cell) /\ Len(row) = width /\ cur <= width
      BY <1>1
    <2> HIDE DEF row
    <2>2. /\ row \o Zeros(more) \in Seq(Cell) /\ Len(row \o Zeros(more)) = width + more
          /\ \A j \in 1..width : (row \o Zeros(more))[j] = row[j]
      BY <2>1, <1>6, Widened
    <2>3. Wide(row) \in Seq(Cell) /\ Len(Wide(row)) = cap
      BY <2>1, <2>2
    <2>4. \A j \in 1..cur : j \in 1..width
      BY <2>1, <1>1
    <2>5. \A j \in 1..cur : Wide(row)[j] = row[j]
      BY <2>2, <2>4
    <2> QED
      BY <2>3, <2>5 DEF row
  <1> HIDE DEF Wide, cap, full
  <1>9. \A i \in 1..n : k[i] = SliceSet(Wide(rows[i]), cur, <<cells[i]>>)
    OBVIOUS
  <1>10. \A i \in 1..n : cells[i] \in Cell
    BY <1>2
  <1>11. \A i \in 1..n : len[i] = size[i] + 1
    OBVIOUS
  <1>12. /\ len \in Seq(Nat) /\ Len(len) = n /\ pos \in Seq(Nat) /\ Len(pos) = n
    BY <1>1, <1>2
  <1>13. DOMAIN k = 1..n /\ k = [i \in 1..n |-> k[i]]
    OBVIOUS
  <1> HIDE DEF k, len, pos
  <1>14. \A i \in 1..n : /\ k[i] \in Seq(Cell) /\ Len(k[i]) = cap
                         /\ k[i][cur + 1] = cells[i]
                         /\ \A j \in 1..cur : k[i][j] = rows[i][j]
    <2> SUFFICES ASSUME NEW i \in 1..n
                 PROVE  /\ k[i] \in Seq(Cell) /\ Len(k[i]) = cap
                        /\ k[i][cur + 1] = cells[i]
                        /\ \A j \in 1..cur : k[i][j] = rows[i][j]
      OBVIOUS
    <2> DEFINE wide == Wide(rows[i])
               cell == cells[i]
               old == rows[i]
               new == SliceSet(wide, cur, <<cell>>)
    <2>1. k[i] = new
      BY <1>9
    <2>2. cell \in Cell /\ wide \in Seq(Cell) /\ Len(wide) = cap /\ cur < cap
      BY <1>7, <1>8, <1>10
    <2>3. \A j \in 1..cur : wide[j] = old[j]
      BY <1>8
    <2> HIDE DEF wide, cell, old
    <2>4. /\ new \in Seq(Cell) /\ Len(new) = cap /\ new[cur + 1] = cell
          /\ \A j \in 1..cap : j # cur + 1 => new[j] = wide[j]
      BY <2>2, <1>1, SliceSetOne
    <2> HIDE DEF new
    <2>5. \A j \in 1..cur : j \in 1..cap /\ j # cur + 1
      BY <2>2, <1>1, <1>7
    <2>6. \A j \in 1..cur : new[j] = old[j]
      BY <2>3, <2>4, <2>5
    <2> QED
      BY <2>1, <2>4, <2>6 DEF cell, old
  <1>15. k \in Seq(Seq(Cell)) /\ Len(k) = n
    <2>1. n \in Nat /\ k = [i \in 1..n |-> k[i]]
      BY <1>2, <1>13
    <2>2. \A i \in 1..n : k[i] \in Seq(Cell)
      BY <1>14
    <2> QED
      BY <2>1, <2>2, FunctionIsSeq
  <1>16. \A i \in 1..n : Len(k[i]) = cap /\ len[i] <= cur + 1 /\ cur + 1 <= cap
    <2> SUFFICES ASSUME NEW i \in 1..n
                 PROVE  Len(k[i]) = cap /\ len[i] <= cur + 1 /\ cur + 1 <= cap
      OBVIOUS
    <2>1. Len(k[i]) = cap
      BY <1>14
    <2>2. len[i] = size[i] + 1
      BY <1>11
    <2>3. size[i] \in Nat /\ size[i] <= cur /\ cur \in Nat
      BY <1>1
    <2>4. cap \in Nat /\ cur < cap
      BY <1>7
    <2> QED
      BY <2>1, <2>2, <2>3, <2>4
  <1>17. GoodStack(Pushed(c, cells))
    <2>1. cur + 1 \in Nat
      BY <1>1
    <2> QED
      BY <2>1, <1>4, <1>7, <1>12, <1>15, <1>16, GoodByFields
  <1>18. \A i \in 1..n : RowOf(Pushed(c, cells), i) = Append(RowOf(c, i), cells[i])
    <2> SUFFICES ASSUME NEW i \in 1..n
                 PROVE  RowOf(Pushed(c, cells), i) = Append(RowOf(c, i), cells[i])
      OBVIOUS
    <2> DEFINE old == rows[i]
               new == k[i]
               cell == cells[i]
               held == size[i]
    <2>1. RowOf(Pushed(c, cells), i)
            = SubSeq(new, (cur + 1) - (held + 1) + 1, cur + 1)
      <3>1. /\ Pushed(c, cells).k = k /\ Pushed(c, cells).cur = cur + 1
            /\ Pushed(c, cells).len = len
        BY <1>4
      <3>2. len[i] = held + 1
        BY <1>11
      <3>3. RowOf(Pushed(c, cells), i) = SubSeq(k[i], (cur + 1) - len[i] + 1, cur + 1)
        BY <3>1 DEF RowOf
      <3> QED
        BY <3>2, <3>3
    <2>2. RowOf(c, i) = SubSeq(old, cur - held + 1, cur)
      BY <1>5
    <2>3. /\ old \in Seq(Cell) /\ new \in Seq(Cell) /\ cell \in Cell
          /\ cur \in Nat /\ held \in Nat /\ held <= cur /\ cur <= Len(old)
          /\ cur < Len(new) /\ new[cur + 1] = cell
          /\ \A j \in 1..cur : new[j] = old[j]
      <3>1. /\ old \in Seq(Cell) /\ cur \in Nat /\ held \in Nat /\ held <= cur
            /\ Len(old) = width /\ cur <= width
        BY <1>1
      <3>2. /\ new \in Seq(Cell) /\ Len(new) = cap /\ new[cur + 1] = cell
            /\ \A j \in 1..cur : new[j] = old[j]
        BY <1>14
      <3>3. cell \in Cell
        BY <1>10
      <3>4. cur < cap
        BY <1>7
      <3> HIDE DEF old, new, cell, held
      <3> QED
        BY <3>1, <3>2, <3>3, <3>4
    <2> HIDE DEF old, new, cell, held
    <2>4. SubSeq(new, (cur + 1) - (held + 1) + 1, cur + 1)
            = Append(SubSeq(old, cur - held + 1, cur), cell)
      BY <2>3, OneMoreRead, SMTT(60)
    <2>5. RowOf(Pushed(c, cells), i) = Append(RowOf(c, i), cell)
      BY <2>1, <2>2, <2>4
    <2> QED
      BY <2>5 DEF cell
  <1> QED
    BY <1>2, <1>17, <1>18

\* add_row grows and shifts every row; what each reads is what it was, and the
\* new row reads the cells it was given.
THEOREM AddRowKeepsRows ==
    ASSUME NEW c, GoodStack(c), NEW cells \in Seq(Cell), NEW start \in Nat
    PROVE  /\ GoodStack(RowAdded(c, cells, start))
           /\ \A i \in 1..Rows(c) : RowOf(RowAdded(c, cells, start), i) = RowOf(c, i)
           /\ RowOf(RowAdded(c, cells, start), Rows(c) + 1) = cells
  <1> DEFINE n == Len(c.len)
             rows == c.k
             before == c.cur
             size == c.len
             at == c.pos
             width == Capacity(c)
             given == Len(cells)
             cur == ColumnFor(c, Len(cells))
             shift == cur - before
             cap == NextPowerOfTwo(Greater(cur + 1, width + shift))
             moved == [i \in 1..n |-> Placed(rows[i], shift, cap)]
             new == Placed(cells, cur - given, cap)
             k == Append(moved, new)
             len == Append(size, given)
             pos == Append(at, start)
  <1>1. /\ before \in Nat /\ size \in Seq(Nat) /\ at \in Seq(Nat)
        /\ rows \in Seq(Seq(Cell)) /\ Len(rows) = n /\ Len(at) = n
        /\ width \in Nat
        /\ \A i \in 1..n :
             /\ rows[i] \in Seq(Cell) /\ Len(rows[i]) = width
             /\ size[i] \in Nat /\ size[i] <= before /\ before <= width
    BY GoodFields
  <1>2. n \in Nat /\ Rows(c) = n /\ Len(size) = n
    BY <1>1 DEF Rows
  <1>3. RowAdded(c, cells, start) = [k |-> k, cur |-> cur, len |-> len, pos |-> pos]
    BY <1>2 DEF RowAdded
  <1>4. \A i : RowOf(c, i) = SubSeq(rows[i], before - size[i] + 1, before)
    BY DEF RowOf
  <1>5. given \in Nat
    OBVIOUS
  <1>6. cur = Greater(before, given)
    BY DEF ColumnFor
  <1> HIDE DEF n, rows, before, size, at, width, given, cur
  <1>7. cur \in Nat /\ before <= cur /\ given <= cur
    BY <1>1, <1>5, <1>6 DEF Greater
  <1>8. shift \in Nat /\ shift + before = cur
    BY <1>1, <1>7
  <1> HIDE DEF shift
  <1>9. cap \in Nat /\ cur + 1 <= cap /\ width + shift <= cap
    <2> DEFINE need == Greater(cur + 1, width + shift)
    <2>1. need \in Nat /\ cur + 1 <= need /\ width + shift <= need
      BY <1>1, <1>7, <1>8 DEF Greater
    <2>2. cap = NextPowerOfTwo(need)
      OBVIOUS
    <2> HIDE DEF need, cap
    <2>3. cap \in Nat /\ cap >= need
      BY <2>1, <2>2, NextPowerCovers
    <2> QED
      BY <2>1, <2>3, <1>1, <1>7, <1>8
  <1> HIDE DEF cap
  <1>10. \A i \in 1..n : /\ moved[i] \in Seq(Cell) /\ Len(moved[i]) = cap
                         /\ \A j \in 1..before : moved[i][shift + j] = rows[i][j]
    <2> SUFFICES ASSUME NEW i \in 1..n
                 PROVE  /\ moved[i] \in Seq(Cell) /\ Len(moved[i]) = cap
                        /\ \A j \in 1..before : moved[i][shift + j] = rows[i][j]
      OBVIOUS
    <2> DEFINE old == rows[i]
               laid == Placed(old, shift, cap)
    <2>1. moved[i] = laid
      OBVIOUS
    <2>2. old \in Seq(Cell) /\ Len(old) = width /\ before <= width
      BY <1>1
    <2> HIDE DEF old, moved
    <2>3. shift + Len(old) <= cap
      BY <2>2, <1>1, <1>8, <1>9
    <2>4. /\ laid \in Seq(Cell) /\ Len(laid) = cap
          /\ \A j \in 1..Len(old) : laid[shift + j] = old[j]
      BY <2>2, <2>3, <1>8, <1>9, PlacedRow
    <2> HIDE DEF laid
    <2>5. \A j \in 1..before : j \in 1..Len(old)
      BY <2>2, <1>1
    <2>6. \A j \in 1..before : laid[shift + j] = old[j]
      BY <2>4, <2>5
    <2> QED
      BY <2>1, <2>4, <2>6 DEF old
  <1>11. /\ new \in Seq(Cell) /\ Len(new) = cap
         /\ \A j \in 1..given : new[(cur - given) + j] = cells[j]
    <2>1. cur - given \in Nat /\ (cur - given) + Len(cells) <= cap
      BY <1>5, <1>7, <1>9 DEF given
    <2>2. /\ new \in Seq(Cell) /\ Len(new) = cap
          /\ \A j \in 1..Len(cells) : new[(cur - given) + j] = cells[j]
      BY <2>1, <1>9, PlacedRow
    <2> QED
      BY <2>2 DEF given
  <1>12. moved = [i \in 1..n |-> moved[i]]
    OBVIOUS
  <1> HIDE DEF new, moved
  <1>13. moved \in Seq(Seq(Cell)) /\ Len(moved) = n
    <2>1. n \in Nat /\ moved = [i \in 1..n |-> moved[i]]
      BY <1>2, <1>12
    <2>2. \A i \in 1..n : moved[i] \in Seq(Cell)
      BY <1>10
    <2> QED
      BY <2>1, <2>2, FunctionIsSeq
  <1>14. /\ k \in Seq(Seq(Cell)) /\ Len(k) = n + 1
         /\ \A i \in 1..n : k[i] = moved[i]
         /\ k[n + 1] = new
    BY <1>2, <1>11, <1>13
  <1>15. /\ len \in Seq(Nat) /\ Len(len) = n + 1
         /\ \A i \in 1..n : len[i] = size[i]
         /\ len[n + 1] = given
    BY <1>1, <1>2, <1>5
  <1>16. pos \in Seq(Nat) /\ Len(pos) = n + 1
    BY <1>1, <1>2
  <1> HIDE DEF k, len, pos
  <1>17. \A i \in 1..(n + 1) : Len(k[i]) = cap /\ len[i] <= cur /\ cur <= cap
    <2> SUFFICES ASSUME NEW i \in 1..(n + 1)
                 PROVE  Len(k[i]) = cap /\ len[i] <= cur /\ cur <= cap
      OBVIOUS
    <2>1. cur <= cap
      BY <1>7, <1>9
    <2>2. CASE i = n + 1
      BY <2>1, <2>2, <1>7, <1>11, <1>14, <1>15
    <2>3. CASE i # n + 1
      <3>1. i \in 1..n
        BY <2>3, <1>2
      <3>2. Len(k[i]) = cap
        BY <3>1, <1>10, <1>14
      <3>3. len[i] = size[i] /\ size[i] \in Nat /\ size[i] <= before
        BY <3>1, <1>1, <1>15
      <3>4. len[i] <= cur
        BY <3>3, <1>1, <1>7
      <3> QED
        BY <2>1, <3>2, <3>4
    <2> QED
      BY <2>2, <2>3
  <1>18. GoodStack(RowAdded(c, cells, start))
    BY <1>3, <1>7, <1>9, <1>14, <1>15, <1>16, <1>17, GoodByFields
  <1>19. \A i : RowOf(RowAdded(c, cells, start), i) = SubSeq(k[i], cur - len[i] + 1, cur)
    <2>1. /\ RowAdded(c, cells, start).k = k /\ RowAdded(c, cells, start).cur = cur
          /\ RowAdded(c, cells, start).len = len
      BY <1>3
    <2> QED
      BY <2>1 DEF RowOf
  <1>20. \A i \in 1..n : RowOf(RowAdded(c, cells, start), i) = RowOf(c, i)
    <2> SUFFICES ASSUME NEW i \in 1..n
                 PROVE  RowOf(RowAdded(c, cells, start), i) = RowOf(c, i)
      OBVIOUS
    <2> DEFINE old == rows[i]
               laid == moved[i]
               held == size[i]
    <2>1. RowOf(RowAdded(c, cells, start), i)
            = SubSeq(laid, (shift + before) - held + 1, shift + before)
      <3>1. k[i] = laid /\ len[i] = held
        BY <1>14, <1>15
      <3> QED
        BY <3>1, <1>8, <1>19
    <2>2. RowOf(c, i) = SubSeq(old, before - held + 1, before)
      BY <1>4
    <2>3. /\ old \in Seq(Cell) /\ laid \in Seq(Cell) /\ Len(laid) = cap
          /\ held \in Nat /\ held <= before /\ before <= Len(old)
          /\ \A j \in 1..before : laid[shift + j] = old[j]
      BY <1>1, <1>10
    <2> HIDE DEF old, laid, held
    <2>4. shift + before <= Len(laid)
      BY <2>3, <1>7, <1>8, <1>9
    <2>5. SubSeq(laid, (shift + before) - held + 1, shift + before)
            = SubSeq(old, before - held + 1, before)
      BY <2>3, <2>4, <1>1, <1>8, SameRead
    <2> QED
      BY <2>1, <2>2, <2>5
  <1>21. RowOf(RowAdded(c, cells, start), n + 1) = cells
    <2> DEFINE left == cur - given
               s == SubSeq(new, cur - given + 1, cur)
    <2>1. RowOf(RowAdded(c, cells, start), n + 1) = s
      BY <1>14, <1>15, <1>19
    <2>2. left \in Nat /\ left + given = cur /\ cur <= Len(new)
      BY <1>5, <1>7, <1>9, <1>11
    <2>3. s \in Seq(Cell) /\ Len(s) = given
      BY <2>2, <1>5, <1>7, <1>11, SubSeqProperties
    <2>4. \A j \in 1..given : s[j] = new[left + j]
      BY <2>2, <1>5, <1>7, <1>11, SubSeqProperties
    <2>5. \A j \in 1..given : s[j] = cells[j]
      BY <2>4, <1>11
    <2> HIDE DEF s
    <2>6. s = cells
      BY <2>3, <2>5, SeqEqual DEF given
    <2> QED
      BY <2>1, <2>6
  <1> QED
    BY <1>2, <1>18, <1>20, <1>21

-----------------------------------------------------------------------------
(* remove_row *)

LEMMA WithoutOne ==
    ASSUME NEW S, NEW s \in Seq(S), NEW i \in 1..Len(s)
    PROVE  /\ Without(s, i) \in Seq(S) /\ Len(Without(s, i)) = Len(s) - 1
           /\ \A j \in 1..(Len(s) - 1) : Without(s, i)[j] = IF j < i THEN s[j] ELSE s[j + 1]
  <1> DEFINE n == Len(s)
             low == SubSeq(s, 1, i - 1)
             high == SubSeq(s, i + 1, Len(s))
  <1>1. n \in Nat /\ i \in Nat /\ 1 <= i /\ i <= n
    OBVIOUS
  <1>2. /\ low \in Seq(S) /\ Len(low) = i - 1
        /\ \A j \in 1..(i - 1) : low[j] = s[j]
    BY <1>1, SubSeqProperties
  <1>3. /\ high \in Seq(S) /\ Len(high) = n - i
        /\ \A j \in 1..(n - i) : high[j] = s[i + j]
    BY <1>1, SubSeqProperties
  <1>4. Without(s, i) = low \o high
    BY DEF Without
  <1> HIDE DEF n, low, high
  <1>5. low \o high \in Seq(S) /\ Len(low \o high) = n - 1
    <2>1. low \o high \in Seq(S) /\ Len(low \o high) = Len(low) + Len(high)
      BY <1>2, <1>3, ConcatProperties
    <2>2. Len(low) + Len(high) = n - 1
      BY <1>1, <1>2, <1>3
    <2> QED
      BY <2>1, <2>2
  <1>6. \A j \in 1..(n - 1) : (low \o high)[j] = IF j < i THEN s[j] ELSE s[j + 1]
    <2> SUFFICES ASSUME NEW j \in 1..(n - 1)
                 PROVE  (low \o high)[j] = IF j < i THEN s[j] ELSE s[j + 1]
      OBVIOUS
    <2>1. CASE j < i
      <3>1. j \in 1..(i - 1)
        BY <2>1, <1>1
      <3>2. (low \o high)[j] = low[j]
        BY <3>1, <1>1, <1>2, <1>3
      <3> QED
        BY <2>1, <3>1, <3>2, <1>2
    <2>2. CASE ~ (j < i)
      <3>1. j - (i - 1) \in 1..(n - i) /\ i + (j - (i - 1)) = j + 1
        BY <2>2, <1>1
      <3>2. (low \o high)[j] = high[j - (i - 1)]
        BY <3>1, <2>2, <1>1, <1>2, <1>3
      <3> QED
        BY <2>2, <3>1, <3>2, <1>3
    <2> QED
      BY <2>1, <2>2
  <1> QED
    BY <1>4, <1>5, <1>6 DEF n

\* remove_row takes one row out and leaves the columns of all others, and cur,
\* where they are: each reads what it read, one place lower if it came after.
THEOREM RemoveRowKeepsRows ==
    ASSUME NEW c, GoodStack(c), NEW i \in 1..Rows(c)
    PROVE  /\ GoodStack(RowRemoved(c, i))
           /\ \A j \in 1..(Rows(c) - 1) :
                RowOf(RowRemoved(c, i), j) = RowOf(c, IF j < i THEN j ELSE j + 1)
  <1> DEFINE n == Len(c.len)
             rows == c.k
             cur == c.cur
             size == c.len
             at == c.pos
             width == Capacity(c)
             k == Without(rows, i)
             len == Without(size, i)
             pos == Without(at, i)
             Old(j) == IF j < i THEN j ELSE j + 1
  <1>1. /\ cur \in Nat /\ size \in Seq(Nat) /\ at \in Seq(Nat)
        /\ rows \in Seq(Seq(Cell)) /\ Len(rows) = n /\ Len(at) = n
        /\ width \in Nat
        /\ \A j \in 1..n :
             /\ rows[j] \in Seq(Cell) /\ Len(rows[j]) = width
             /\ size[j] \in Nat /\ size[j] <= cur /\ cur <= width
    BY GoodFields
  <1>2. n \in Nat /\ Rows(c) = n /\ Len(size) = n /\ i \in 1..n
    BY <1>1 DEF Rows
  <1>3. RowRemoved(c, i) = [k |-> k, cur |-> cur, len |-> len, pos |-> pos]
    BY DEF RowRemoved
  <1>4. \A j : RowOf(c, j) = SubSeq(rows[j], cur - size[j] + 1, cur)
    BY DEF RowOf
  <1> HIDE DEF n, rows, cur, size, at, width
  <1>5. /\ k \in Seq(Seq(Cell)) /\ Len(k) = n - 1
        /\ \A j \in 1..(n - 1) : k[j] = IF j < i THEN rows[j] ELSE rows[j + 1]
    <2>1. rows \in Seq(Seq(Cell)) /\ Len(rows) = n /\ i \in 1..Len(rows)
      BY <1>1, <1>2
    <2>2. /\ k \in Seq(Seq(Cell)) /\ Len(k) = Len(rows) - 1
          /\ \A j \in 1..(Len(rows) - 1) : k[j] = IF j < i THEN rows[j] ELSE rows[j + 1]
      BY <2>1, WithoutOne
    <2> HIDE DEF k
    <2> QED
      BY <2>1, <2>2
  <1>6. /\ len \in Seq(Nat) /\ Len(len) = n - 1
        /\ \A j \in 1..(n - 1) : len[j] = IF j < i THEN size[j] ELSE size[j + 1]
    <2>1. size \in Seq(Nat) /\ Len(size) = n /\ i \in 1..Len(size)
      BY <1>1, <1>2
    <2>2. /\ len \in Seq(Nat) /\ Len(len) = Len(size) - 1
          /\ \A j \in 1..(Len(size) - 1) : len[j] = IF j < i THEN size[j] ELSE size[j + 1]
      BY <2>1, WithoutOne
    <2> HIDE DEF len
    <2> QED
      BY <2>1, <2>2
  <1>7. pos \in Seq(Nat) /\ Len(pos) = n - 1
    BY <1>1, <1>2, WithoutOne
  <1> HIDE DEF k, len, pos
  <1>8. \A j \in 1..(n - 1) : Old(j) \in 1..n /\ k[j] = rows[Old(j)] /\ len[j] = size[Old(j)]
    BY <1>2, <1>5, <1>6
  <1>9. \A j \in 1..(n - 1) : Len(k[j]) = width /\ len[j] <= cur /\ cur <= width
    <2> SUFFICES ASSUME NEW j \in 1..(n - 1)
                 PROVE  Len(k[j]) = width /\ len[j] <= cur /\ cur <= width
      OBVIOUS
    <2> DEFINE o == Old(j)
    <2>1. o \in 1..n /\ k[j] = rows[o] /\ len[j] = size[o]
      BY <1>8
    <2> HIDE DEF o
    <2> QED
      BY <1>1, <2>1
  <1>10. GoodStack(RowRemoved(c, i))
    <2>1. /\ k \in Seq(Seq(Cell)) /\ cur \in Nat /\ width \in Nat
          /\ len \in Seq(Nat) /\ pos \in Seq(Nat)
      BY <1>1, <1>5, <1>6, <1>7
    <2>2. Len(k) = Len(len) /\ Len(pos) = Len(len)
      BY <1>5, <1>6, <1>7
    <2>3. \A j \in 1..Len(len) : Len(k[j]) = width /\ len[j] <= cur /\ cur <= width
      BY <1>6, <1>9
    <2> QED
      BY <1>3, <2>1, <2>2, <2>3, GoodByFields
  <1>11. \A j : RowOf(RowRemoved(c, i), j) = SubSeq(k[j], cur - len[j] + 1, cur)
    <2>1. /\ RowRemoved(c, i).k = k /\ RowRemoved(c, i).cur = cur
          /\ RowRemoved(c, i).len = len
      BY <1>3
    <2> QED
      BY <2>1 DEF RowOf
  <1>12. \A j \in 1..(n - 1) : RowOf(RowRemoved(c, i), j) = RowOf(c, Old(j))
    <2> HIDE DEF Old
    <2> QED
      BY <1>4, <1>8, <1>11
  <1> QED
    BY <1>2, <1>10, <1>12

-----------------------------------------------------------------------------
(* The places of the streams in the order of their ids *)

Upto(ids, id) == {j \in ids : j <= id}

LEMMA IndexType ==
    ASSUME NEW ids, IsFiniteSet(ids), ids \subseteq Nat, NEW id \in ids
    PROVE  /\ IndexOf(ids, id) \in 1..Cardinality(ids) /\ Cardinality(ids) \in Nat
           /\ IndexOf(ids, id) \in Nat
           /\ IsFiniteSet(Upto(ids, id)) /\ IndexOf(ids, id) = Cardinality(Upto(ids, id))
  <1>1. IndexOf(ids, id) = Cardinality(Upto(ids, id))
    BY DEF IndexOf, Upto
  <1>2. Upto(ids, id) \in SUBSET ids /\ id \in Upto(ids, id)
    BY DEF Upto
  <1>3. /\ IsFiniteSet(Upto(ids, id))
        /\ Cardinality(Upto(ids, id)) <= Cardinality(ids)
    BY <1>2, FS_Subset
  <1>4. Cardinality(Upto(ids, id)) \in Nat /\ Cardinality(ids) \in Nat
    BY <1>3, FS_CardinalityType
  <1>5. Cardinality(Upto(ids, id)) # 0
    BY <1>2, <1>3, FS_EmptySet
  <1> QED
    BY <1>1, <1>3, <1>4, <1>5

LEMMA IndexLess ==
    ASSUME NEW ids, IsFiniteSet(ids), ids \subseteq Nat, NEW a \in ids, NEW b \in ids, a < b
    PROVE  IndexOf(ids, a) < IndexOf(ids, b)
  <1>0. a \in Nat /\ b \in Nat
    OBVIOUS
  <1>1. b \notin Upto(ids, a) /\ Upto(ids, a) \cup {b} \in SUBSET Upto(ids, b)
    <2>1. \A j \in ids : j <= a => j <= b
      BY <1>0
    <2>2. ~ (b <= a) /\ b <= b
      BY <1>0
    <2> QED
      BY <2>1, <2>2, Zenon DEF Upto
  <1>2. IsFiniteSet(Upto(ids, a)) /\ IsFiniteSet(Upto(ids, b))
    BY IndexType
  <1>3. Cardinality(Upto(ids, a) \cup {b}) = Cardinality(Upto(ids, a)) + 1
    BY <1>1, <1>2, FS_AddElement
  <1>4. Cardinality(Upto(ids, a) \cup {b}) <= Cardinality(Upto(ids, b))
    BY <1>1, <1>2, FS_Subset
  <1>5. /\ IndexOf(ids, a) = Cardinality(Upto(ids, a))
        /\ IndexOf(ids, b) = Cardinality(Upto(ids, b))
        /\ IndexOf(ids, a) \in Nat /\ IndexOf(ids, b) \in Nat
    BY IndexType
  <1> QED
    BY <1>3, <1>4, <1>5

LEMMA IndexOnce ==
    ASSUME NEW ids, IsFiniteSet(ids), ids \subseteq Nat, NEW a \in ids, NEW b \in ids,
           IndexOf(ids, a) = IndexOf(ids, b)
    PROVE  a = b
  <1>1. a \in Nat /\ b \in Nat
    OBVIOUS
  <1>2. IndexOf(ids, a) \in Nat /\ IndexOf(ids, b) \in Nat
    BY IndexType
  <1>3. ASSUME a < b PROVE FALSE
    <2>1. IndexOf(ids, a) < IndexOf(ids, b)
      BY <1>3, IndexLess
    <2> QED
      BY <1>2, <2>1
  <1>4. ASSUME b < a PROVE FALSE
    <2>1. IndexOf(ids, b) < IndexOf(ids, a)
      BY <1>4, IndexLess
    <2> QED
      BY <1>2, <2>1
  <1> QED
    BY <1>1, <1>3, <1>4

LEMMA IndexOnto ==
    ASSUME NEW ids, IsFiniteSet(ids), ids \subseteq Nat, NEW p \in 1..Cardinality(ids)
    PROVE  \E id \in ids : IndexOf(ids, id) = p
  <1> DEFINE f == [id \in ids |-> IndexOf(ids, id)]
             places == 1..Cardinality(ids)
  <1>1. Cardinality(ids) \in Nat
    BY FS_CardinalityType
  <1>2. f \in [ids -> places]
    BY IndexType
  <1>3. \A a, b \in ids : f[a] = f[b] => a = b
    BY IndexOnce
  <1>4. f \in Injection(ids, places)
    BY <1>2, <1>3 DEF Injection, IsInjective
  <1>5. IsFiniteSet(places) /\ Cardinality(places) = Cardinality(ids)
    BY <1>1, FS_Interval
  <1>6. f \in Surjection(ids, places)
    BY <1>4, <1>5, FS_Injection
  <1>7. \E id \in ids : f[id] = p
    BY <1>6 DEF Surjection
  <1> QED
    BY <1>7

LEMMA InOrderIs ==
    ASSUME NEW ids, IsFiniteSet(ids), ids \subseteq Nat
    PROVE  /\ DOMAIN InOrder(ids) = 1..Cardinality(ids)
           /\ \A id \in ids : InOrder(ids)[IndexOf(ids, id)] = id
           /\ \A p \in 1..Cardinality(ids) : InOrder(ids)[p] \in ids
  <1>1. ASSUME NEW p \in 1..Cardinality(ids), NEW id \in ids, IndexOf(ids, id) = p
        PROVE  InOrder(ids)[p] = id
    <2>1. InOrder(ids)[p] = CHOOSE j \in ids : IndexOf(ids, j) = p
      BY DEF InOrder, IndexOf
    <2>2. \A j \in ids : IndexOf(ids, j) = p => j = id
      BY <1>1, IndexOnce
    <2> QED
      BY <1>1, <2>1, <2>2
  <1>2. DOMAIN InOrder(ids) = 1..Cardinality(ids)
    BY DEF InOrder
  <1>3. \A id \in ids : InOrder(ids)[IndexOf(ids, id)] = id
    BY <1>1, IndexType
  <1>4. \A p \in 1..Cardinality(ids) : InOrder(ids)[p] \in ids
    BY <1>1, IndexOnto
  <1> QED
    BY <1>2, <1>3, <1>4

\* A stream that goes: those after it come one place forward.
LEMMA IndexWithout ==
    ASSUME NEW ids, IsFiniteSet(ids), ids \subseteq Nat, NEW g \in ids, NEW id \in ids \ {g}
    PROVE  IndexOf(ids \ {g}, id) = IF id < g THEN IndexOf(ids, id) ELSE IndexOf(ids, id) - 1
  <1>0. IndexOf(ids, id) = Cardinality(Upto(ids, id)) /\ IsFiniteSet(Upto(ids, id))
    BY IndexType
  <1>1. IndexOf(ids \ {g}, id) = Cardinality(Upto(ids, id) \ {g})
    <2>1. {j \in ids \ {g} : j <= id} = Upto(ids, id) \ {g}
      BY DEF Upto
    <2> QED
      BY <2>1 DEF IndexOf
  <1>2. CASE id < g
    <2>1. Upto(ids, id) \ {g} = Upto(ids, id)
      BY <1>2 DEF Upto
    <2> QED
      BY <1>0, <1>1, <1>2, <2>1
  <1>3. CASE ~ (id < g)
    <2>1. g \in Upto(ids, id)
      BY <1>3 DEF Upto
    <2> QED
      BY <1>0, <1>1, <1>3, <2>1, FS_RemoveElement
  <1> QED
    BY <1>2, <1>3

\* A stream that comes: it is the last.
LEMMA IndexWith ==
    ASSUME NEW ids, IsFiniteSet(ids), ids \subseteq Nat, NEW next \in Nat,
           \A id \in ids : id < next
    PROVE  /\ \A id \in ids : IndexOf(ids \cup {next}, id) = IndexOf(ids, id)
           /\ IndexOf(ids \cup {next}, next) = Cardinality(ids) + 1
  <1>1. ASSUME NEW id \in ids PROVE IndexOf(ids \cup {next}, id) = IndexOf(ids, id)
    <2>1. {j \in ids \cup {next} : j <= id} = {j \in ids : j <= id}
      OBVIOUS
    <2> QED
      BY <2>1 DEF IndexOf
  <1>2. IndexOf(ids \cup {next}, next) = Cardinality(ids) + 1
    <2>1. {j \in ids \cup {next} : j <= next} = ids \cup {next} /\ next \notin ids
      <3>1. \A j \in ids \cup {next} : j <= next
        OBVIOUS
      <3>2. next \notin ids
        OBVIOUS
      <3>3. {j \in ids \cup {next} : j <= next} = ids \cup {next}
        BY <3>1, Zenon
      <3> QED
        BY <3>2, <3>3
    <2>2. Cardinality(ids \cup {next}) = Cardinality(ids) + 1
      BY <2>1, FS_AddElement
    <2> QED
      BY <2>1, <2>2 DEF IndexOf
  <1> QED
    BY <1>1, <1>2

StackSet == [k : Seq(Seq(Cell)), cur : Nat, len : Seq(Nat), pos : Seq(Nat)]

LEMMA GoodIsStack ==
    ASSUME NEW c, GoodStack(c)
    PROVE  c \in StackSet /\ Rows(c) \in Nat
  <1>1. /\ c = [k |-> c.k, cur |-> c.cur, len |-> c.len, pos |-> c.pos]
        /\ c.k \in Seq(Seq(Cell)) /\ c.cur \in Nat /\ c.len \in Seq(Nat) /\ c.pos \in Seq(Nat)
    BY DEF GoodStack
  <1>2. Len(c.len) \in Nat
    BY <1>1
  <1> HIDE DEF Cell
  <1> QED
    BY <1>1, <1>2 DEF StackSet, Rows

LEMMA RemovedFields ==
    ASSUME NEW c, GoodStack(c), NEW i \in 1..Rows(c)
    PROVE  /\ Rows(RowRemoved(c, i)) = Rows(c) - 1
           /\ RowRemoved(c, i).cur = c.cur
           /\ \A j \in 1..(Rows(c) - 1) :
                RowRemoved(c, i).pos[j] = c.pos[IF j < i THEN j ELSE j + 1]
  <1>1. /\ c.len \in Seq(Nat) /\ c.pos \in Seq(Nat)
        /\ Len(c.len) = Rows(c) /\ Len(c.pos) = Rows(c)
    BY GoodFields DEF Rows
  <1>2. Len(Without(c.len, i)) = Rows(c) - 1
    BY <1>1, WithoutOne
  <1>3. i \in 1..Len(c.pos)
    BY <1>1
  <1>4. \A j \in 1..(Rows(c) - 1) : Without(c.pos, i)[j] = IF j < i THEN c.pos[j] ELSE c.pos[j + 1]
    BY <1>1, <1>3, WithoutOne
  <1> QED
    BY <1>2, <1>4 DEF RowRemoved, Rows

\* What a stack with a row for each of ids holds once only `left` are left.
Keeps(c, ids, d, left) ==
    /\ GoodStack(d) /\ d.cur = c.cur
    /\ Rows(d) = Rows(c) - (Cardinality(ids) - Cardinality(left))
    /\ \A id \in left :
         /\ RowOf(d, IndexOf(left, id)) = RowOf(c, IndexOf(ids, id))
         /\ d.pos[IndexOf(left, id)] = c.pos[IndexOf(ids, id)]

\* The row of one of the streams goes: every other one's is where the order of
\* the streams left puts it.
LEMMA RowOut ==
    ASSUME NEW c, GoodStack(c), NEW ids, IsFiniteSet(ids), ids \subseteq Nat, NEW g \in ids,
           Cardinality(ids) <= Rows(c)
    PROVE  Keeps(c, ids, RowRemoved(c, IndexOf(ids, g)), ids \ {g})
  <1> DEFINE p == IndexOf(ids, g)
             d == RowRemoved(c, p)
  <1>0. Rows(c) \in Nat /\ Cardinality(ids) \in Nat /\ p \in 1..Cardinality(ids)
    BY GoodIsStack, IndexType
  <1>1. p \in 1..Rows(c)
    BY <1>0
  <1>2. GoodStack(d) /\ Rows(d) = Rows(c) - 1 /\ d.cur = c.cur
    BY <1>1, RemoveRowKeepsRows, RemovedFields
  <1>3. \A j \in 1..(Rows(c) - 1) :
          /\ RowOf(d, j) = RowOf(c, IF j < p THEN j ELSE j + 1)
          /\ d.pos[j] = c.pos[IF j < p THEN j ELSE j + 1]
    BY <1>1, RemoveRowKeepsRows, RemovedFields
  <1>4. ASSUME NEW id \in ids \ {g}
        PROVE  /\ RowOf(d, IndexOf(ids \ {g}, id)) = RowOf(c, IndexOf(ids, id))
               /\ d.pos[IndexOf(ids \ {g}, id)] = c.pos[IndexOf(ids, id)]
    <2> DEFINE q == IndexOf(ids, id)
               r == IndexOf(ids \ {g}, id)
    <2>1. q \in 1..Cardinality(ids) /\ id \in ids /\ id \in Nat /\ g \in Nat
      BY IndexType
    <2>2. r = IF id < g THEN q ELSE q - 1
      BY IndexWithout
    <2>3. (id < g => q < p) /\ (g < id => p < q)
      BY <2>1, IndexLess
    <2> HIDE DEF p, q, r, d
    <2>4. CASE id < g
      <3>1. r = q /\ q < p /\ q \in 1..(Rows(c) - 1)
        BY <2>1, <2>2, <2>3, <2>4, <1>0, <1>1
      <3> QED
        BY <1>3, <3>1 DEF q, r
    <2>5. CASE g < id
      <3>1. r = q - 1 /\ p < q /\ r \in 1..(Rows(c) - 1) /\ ~ (r < p) /\ r + 1 = q
        BY <2>1, <2>2, <2>3, <2>5, <1>0, <1>1
      <3> QED
        BY <1>3, <3>1 DEF q, r
    <2> QED
      BY <2>1, <2>4, <2>5
  <1>5. Cardinality(ids \ {g}) = Cardinality(ids) - 1
    BY FS_RemoveElement
  <1> HIDE DEF d
  <1>6. Rows(d) = Rows(c) - (Cardinality(ids) - Cardinality(ids \ {g}))
    BY <1>0, <1>2, <1>5
  <1>7. Keeps(c, ids, d, ids \ {g})
    BY <1>2, <1>4, <1>6 DEF Keeps
  <1> QED
    BY <1>7 DEF d

LEMMA KeepsOn ==
    ASSUME NEW c, NEW d, NEW e, NEW ids, NEW left, NEW last, last \subseteq left,
           Keeps(c, ids, d, left), Keeps(d, left, e, last), Rows(c) \in Nat,
           Cardinality(ids) \in Nat, Cardinality(left) \in Nat, Cardinality(last) \in Nat
    PROVE  Keeps(c, ids, e, last)
  <1>1. Rows(e) = Rows(c) - (Cardinality(ids) - Cardinality(last))
    <2>1. /\ Rows(d) = Rows(c) - (Cardinality(ids) - Cardinality(left))
          /\ Rows(e) = Rows(d) - (Cardinality(left) - Cardinality(last))
      BY DEF Keeps
    <2> QED
      BY <2>1
  <1> QED
    BY <1>1 DEF Keeps

-----------------------------------------------------------------------------
(* remove_at for the places of some streams *)

\* What is left once the places after n - i have been gone through.
LeftAfter(ids, gone, i) == ids \ {g \in gone : IndexOf(ids, g) > Cardinality(ids) - i}

RemoveAt(ids, gone, i, d) ==
    LET p == Cardinality(ids) + 1 - i IN
      IF p \in {IndexOf(ids, id) : id \in gone} THEN RowRemoved(d, p) ELSE d

OutRun(c, ids, gone) ==
    CHOOSE f : f = [i \in 0..Cardinality(ids) |->
                      IF i = 0 THEN c ELSE RemoveAt(ids, gone, i, f[i - 1])]

LEMMA RowsRemovedIs ==
    ASSUME NEW stacks, NEW ids, NEW gone, NEW l \in 1..Layers
    PROVE  RowsRemoved(stacks, ids, gone)[l] = OutRun(stacks[l], ids, gone)[Cardinality(ids)]
  BY DEF RowsRemoved, OutRun, RemoveAt

LEMMA RemoveAtKeeps ==
    ASSUME NEW c, GoodStack(c), NEW ids, IsFiniteSet(ids), ids \subseteq Nat,
           Cardinality(ids) <= Rows(c), NEW gone \in SUBSET ids,
           NEW i \in 1..Cardinality(ids), NEW d,
           Keeps(c, ids, d, LeftAfter(ids, gone, i - 1))
    PROVE  Keeps(c, ids, RemoveAt(ids, gone, i, d), LeftAfter(ids, gone, i))
  <1> DEFINE n == Cardinality(ids)
             p == n + 1 - i
             left == LeftAfter(ids, gone, i - 1)
  <1>0. n \in Nat /\ i \in Nat /\ p \in 1..n /\ Rows(c) \in Nat
    BY FS_CardinalityType, GoodIsStack
  <1>1. left = ids \ {g \in gone : IndexOf(ids, g) > p}
    BY <1>0 DEF LeftAfter
  <1>2. LeftAfter(ids, gone, i) = left \ {g \in gone : IndexOf(ids, g) = p}
    <2>0. \A g \in gone : IndexOf(ids, g) \in Nat
      BY IndexType
    <2>1. \A g \in gone :
            IndexOf(ids, g) > n - i <=> (IndexOf(ids, g) > p \/ IndexOf(ids, g) = p)
      BY <1>0, <2>0
    <2> QED
      BY <1>1, <2>1 DEF LeftAfter
  <1>3. left \subseteq ids /\ IsFiniteSet(left) /\ Cardinality(left) \in Nat /\ left \subseteq Nat
    <2>1. left \in SUBSET ids
      BY <1>1
    <2> QED
      BY <2>1, FS_Subset, FS_CardinalityType
  <1> HIDE DEF left
  <1>4. CASE p \notin {IndexOf(ids, id) : id \in gone}
    <2>1. RemoveAt(ids, gone, i, d) = d /\ LeftAfter(ids, gone, i) = left
      BY <1>2, <1>4 DEF RemoveAt
    <2> QED
      BY <2>1 DEF left
  <1>5. ASSUME NEW g \in gone, IndexOf(ids, g) = p
        PROVE  Keeps(c, ids, RemoveAt(ids, gone, i, d), LeftAfter(ids, gone, i))
    <2>1. RemoveAt(ids, gone, i, d) = RowRemoved(d, p)
      BY <1>5 DEF RemoveAt
    <2>2. {h \in gone : IndexOf(ids, h) = p} = {g}
      <3>1. ASSUME NEW h \in gone, IndexOf(ids, h) = p PROVE h = g
        <4>1. h \in ids /\ g \in ids /\ IndexOf(ids, h) = IndexOf(ids, g)
          BY <1>5, <3>1
        <4> HIDE DEF p, n
        <4> QED
          BY <4>1, IndexOnce
      <3> QED
        BY <1>5, <3>1
    <2>3. LeftAfter(ids, gone, i) = left \ {g}
      BY <1>2, <2>2
    <2>4. g \in left
      BY <1>0, <1>1, <1>5
    <2>5. IndexOf(left, g) = p
      <3>1. ASSUME NEW j \in ids, j <= g PROVE j \in left
        <4>1. j \in Nat /\ g \in ids /\ g \in Nat
          OBVIOUS
        <4>2. j = g \/ IndexOf(ids, j) < IndexOf(ids, g)
          <5>1. CASE j < g
            BY <4>1, <5>1, IndexLess
          <5> QED
            BY <3>1, <4>1, <5>1
        <4>3. IndexOf(ids, j) \in Nat
          BY IndexType
        <4>4. ~ (IndexOf(ids, j) > p)
          BY <1>0, <1>5, <4>2, <4>3
        <4> QED
          BY <1>1, <4>4
      <3>2. {j \in left : j <= g} = {j \in ids : j <= g}
        BY <1>3, <3>1
      <3> QED
        BY <1>5, <3>2 DEF IndexOf
    <2>6. Keeps(c, ids, d, left)
      BY DEF left
    <2>7. GoodStack(d) /\ Cardinality(left) <= Rows(d)
      BY <1>0, <1>3, <2>6 DEF Keeps
    <2>8. Keeps(d, left, RowRemoved(d, p), left \ {g})
      BY <1>3, <2>4, <2>5, <2>7, RowOut
    <2>9. Cardinality(left \ {g}) \in Nat
      BY <1>3, FS_RemoveElement, FS_CardinalityType
    <2>10. Keeps(c, ids, RowRemoved(d, p), left \ {g})
      BY <1>0, <1>3, <2>6, <2>8, <2>9, KeepsOn
    <2> QED
      BY <2>1, <2>3, <2>10
  <1> QED
    BY <1>4, <1>5

LEMMA RowsRemovedKeep ==
    ASSUME NEW stacks, NEW l \in 1..Layers, GoodStack(stacks[l]),
           NEW ids, IsFiniteSet(ids), ids \subseteq Nat,
           Cardinality(ids) <= Rows(stacks[l]), NEW gone \in SUBSET ids
    PROVE  Keeps(stacks[l], ids, RowsRemoved(stacks, ids, gone)[l], ids \ gone)
  <1> DEFINE c == stacks[l]
             n == Cardinality(ids)
             S == [i \in 0..n |-> {d \in StackSet : Keeps(c, ids, d, LeftAfter(ids, gone, i))}]
             G == [q \in (1..n) \X StackSet |-> RemoveAt(ids, gone, q[1], q[2])]
             f == OutRun(c, ids, gone)
  <1>0. n \in Nat
    BY FS_CardinalityType
  <1>12. \A g1 \in gone : IndexOf(ids, g1) \in 1..n
    BY IndexType
  <1>1. LeftAfter(ids, gone, 0) = ids
    <2>1. \A g1 \in gone : ~ (IndexOf(ids, g1) > n - 0)
      BY <1>0, <1>12
    <2> QED
      BY <2>1, Zenon DEF LeftAfter
  <1>2. c \in S[0]
    <2>1. Keeps(c, ids, c, ids) /\ c \in StackSet
      BY <1>0, GoodIsStack DEF Keeps
    <2> QED
      BY <1>0, <1>1, <2>1
  <1>3. ASSUME NEW i \in 1..n, NEW d \in S[i - 1]
        PROVE  G[<<i, d>>] \in S[i] /\ G[<<i, d>>] = RemoveAt(ids, gone, i, d)
    <2>1. i - 1 \in 0..n /\ i \in 0..n
      BY <1>0
    <2>2. d \in StackSet /\ Keeps(c, ids, d, LeftAfter(ids, gone, i - 1))
      BY <2>1
    <2>3. Keeps(c, ids, RemoveAt(ids, gone, i, d), LeftAfter(ids, gone, i))
      BY <2>2, RemoveAtKeeps
    <2>4. RemoveAt(ids, gone, i, d) \in StackSet
      BY <2>3, GoodIsStack DEF Keeps
    <2>5. G[<<i, d>>] = RemoveAt(ids, gone, i, d)
      BY <2>2
    <2> QED
      BY <2>1, <2>3, <2>4, <2>5
  <1> HIDE DEF S, G, c, n
  <1>4. PICK g : Solves(n, S, c, G, g)
    <2>1. StaysIn(n, S, G)
      BY <1>3 DEF StaysIn
    <2> QED
      BY <1>0, <1>2, <2>1, RecursionExists
  <1>5. ASSUME NEW i \in 1..n PROVE g[i] = RemoveAt(ids, gone, i, g[i - 1])
    <2>1. i - 1 \in 0..n
      BY <1>0
    <2> QED
      BY <1>3, <1>4, <2>1 DEF Solves
  <1>6. g = [i \in 0..n |-> IF i = 0 THEN c ELSE RemoveAt(ids, gone, i, g[i - 1])]
    <2>1. \A i \in 0..n : i # 0 => i \in 1..n
      BY <1>0
    <2>2. \A i \in 0..n : g[i] = IF i = 0 THEN c ELSE RemoveAt(ids, gone, i, g[i - 1])
      BY <1>4, <1>5, <2>1 DEF Solves
    <2> QED
      BY <1>4, <2>2 DEF Solves
  <1>7. f = [i \in 0..n |-> IF i = 0 THEN c ELSE RemoveAt(ids, gone, i, f[i - 1])]
    BY <1>6 DEF OutRun, n
  <1> HIDE DEF f
  <1>8. f[0] = c /\ \A i \in 1..n : f[i] = RemoveAt(ids, gone, i, f[i - 1])
    BY <1>0, <1>7
  <1>9. \A i \in 0..n : f[i] \in S[i]
    <2>1. f[0] \in S[0]
      BY <1>2, <1>8
    <2>2. \A i \in 1..n : f[i - 1] \in S[i - 1] => f[i] \in S[i]
      BY <1>3, <1>8
    <2> QED
      BY <1>0, <2>1, <2>2, RecursionStays
  <1>10. Keeps(c, ids, f[n], LeftAfter(ids, gone, n))
    BY <1>0, <1>9 DEF S
  <1>11. LeftAfter(ids, gone, n) = ids \ gone
    <2>1. \A g1 \in gone : IndexOf(ids, g1) > n - n
      BY <1>0, <1>12
    <2>2. {g1 \in gone : IndexOf(ids, g1) > n - n} = gone
      BY <2>1
    <2> QED
      BY <2>2, Zenon DEF LeftAfter, n
  <1> QED
    BY <1>10, <1>11, RowsRemovedIs DEF f, c, n

\* What the arithmetic of the layers and of the blocks gives, whatever it is.
Numbers ==
    /\ \A l \in 1..Layers, x \in Int, at \in Nat, read \in Seq(Cell) :
         LayerOut(<<"flow_lm", l>>, x, at, read) \in Int
    /\ \A block \in 1..(ResBlocks + 1), x \in Int, y \in Int :
         BlockOut(block, x, Modulation(block, y)) \in Int
    /\ \A id \in Nat, n \in Nat : Noise(id, n) \in Int

-----------------------------------------------------------------------------
(* The linear caches of a text read alone *)

Linear == {c \in [buf : Seq(Cell), pos : Nat, len : Nat, head : {0}] : c.len <= Len(c.buf)}

LEMMA SliceSetMany ==
    ASSUME NEW row \in Seq(Cell), NEW at \in Nat, NEW cells \in Seq(Cell),
           at + Len(cells) <= Len(row)
    PROVE  /\ SliceSet(row, at, cells) \in Seq(Cell)
           /\ Len(SliceSet(row, at, cells)) = Len(row)
           /\ \A j \in 1..at : SliceSet(row, at, cells)[j] = row[j]
           /\ \A j \in 1..Len(cells) : SliceSet(row, at, cells)[at + j] = cells[j]
  <1> DEFINE new == [i \in 1..Len(row) |->
                       IF i \in (at + 1)..(at + Len(cells)) THEN cells[i - at] ELSE row[i]]
             n == Len(cells)
  <1>0. n \in Nat /\ Len(row) \in Nat
    OBVIOUS
  <1>1. SliceSet(row, at, cells) = new
    BY DEF SliceSet
  <1>2. \A i \in (at + 1)..(at + n) : i - at \in 1..n
    BY <1>0
  <1>3. \A i \in 1..Len(row) : new[i] \in Cell
    <2> HIDE DEF Cell
    <2> QED
      BY <1>2
  <1>4. new \in Seq(Cell) /\ Len(new) = Len(row)
    BY <1>3
  <1>5. \A j \in 1..at : new[j] = row[j]
    BY <1>0
  <1>6. ASSUME NEW j \in 1..n PROVE new[at + j] = cells[j]
    <2>1. at + j \in 1..Len(row) /\ at + j \in (at + 1)..(at + n) /\ (at + j) - at = j
      BY <1>0
    <2> QED
      BY <2>1
  <1> HIDE DEF new
  <1> QED
    BY <1>1, <1>4, <1>5, <1>6

LEMMA RotatedIs ==
    ASSUME NEW xs \in Seq(Int), NEW p \in Nat
    PROVE  /\ Rotated(xs, p) \in Seq(Cell) /\ Len(Rotated(xs, p)) = Len(xs)
           /\ \A i \in 1..Len(xs) : Rotated(xs, p)[i] = [x |-> xs[i], at |-> p + i - 1]
  <1> DEFINE new == [i \in 1..Len(xs) |-> [x |-> xs[i], at |-> p + i - 1]]
  <1>1. Rotated(xs, p) = new
    BY DEF Rotated
  <1>2. \A i \in 1..Len(xs) : [x |-> xs[i], at |-> p + i - 1] \in Cell
    BY DEF Cell
  <1>3. new \in Seq(Cell) /\ Len(new) = Len(xs)
    BY <1>2
  <1> QED
    BY <1>1, <1>3

LEMMA KeptIs ==
    ASSUME NEW c \in Linear
    PROVE  /\ KeptKeys(c) \in Seq(Cell) /\ Len(KeptKeys(c)) = c.len
           /\ \A j \in 1..c.len : KeptKeys(c)[j] = c.buf[j]
  <1>1. c.buf \in Seq(Cell) /\ c.len \in Nat /\ c.len <= Len(c.buf)
    BY DEF Linear
  <1> QED
    BY <1>1, SubSeqProperties DEF KeptKeys

\* append_cached: what is kept is what was kept and the new keys.
LEMMA LinearWrittenIs ==
    ASSUME NEW c \in Linear, NEW keys \in Seq(Cell), keys # <<>>, keys[1].at \in Nat
    PROVE  LET w == LinearWritten(c, keys) IN
             /\ w \in Linear
             /\ w.len = c.len + Len(keys) /\ w.pos = keys[1].at + Len(keys)
             /\ KeptKeys(w) = KeptKeys(c) \o keys
  <1> DEFINE width == Len(c.buf)
             need == c.len + Len(keys)
             more == NextPowerOfTwo(need) - width
             grown == IF need > width THEN c.buf \o Zeros(more) ELSE c.buf
             w == LinearWritten(c, keys)
  <1>0. /\ c.buf \in Seq(Cell) /\ c.len \in Nat /\ c.len <= width /\ width \in Nat
        /\ Len(keys) \in Nat /\ Len(keys) >= 1
    BY DEF Linear
  <1>1. Lesser(c.len, Len(c.buf)) = c.len
    BY <1>0 DEF Lesser
  <1>2. w = [buf |-> SliceSet(grown, c.len, keys), pos |-> keys[1].at + Len(keys),
             len |-> need, head |-> 0]
    BY <1>1, Zenon DEF LinearWritten
  <1>3. /\ grown \in Seq(Cell) /\ Len(grown) >= need
        /\ \A j \in 1..c.len : grown[j] = c.buf[j]
    <2>1. CASE need > width
      <3>1. NextPowerOfTwo(need) \in Nat /\ NextPowerOfTwo(need) >= need
        <4>1. need \in Nat
          BY <1>0
        <4> HIDE DEF need
        <4> QED
          BY <4>1, NextPowerCovers
      <3>2. more \in Nat
        BY <1>0, <2>1, <3>1
      <3>3. /\ c.buf \o Zeros(more) \in Seq(Cell) /\ Len(c.buf \o Zeros(more)) = width + more
            /\ \A j \in 1..width : (c.buf \o Zeros(more))[j] = c.buf[j]
        BY <1>0, <3>2, Widened
      <3>4. grown = c.buf \o Zeros(more)
        BY <2>1
      <3>5. width + more = NextPowerOfTwo(need)
        BY <1>0, <3>1
      <3> HIDE DEF grown, more, need, width
      <3>6. Len(grown) >= need
        BY <3>1, <3>3, <3>4, <3>5
      <3>7. \A j \in 1..c.len : j \in 1..width
        BY <1>0
      <3> QED
        BY <3>3, <3>4, <3>6, <3>7
    <2>2. CASE ~ (need > width)
      BY <1>0, <2>2
    <2> QED
      BY <2>1, <2>2
  <1> HIDE DEF grown, w
  <1>4. /\ w.buf \in Seq(Cell) /\ Len(w.buf) = Len(grown)
        /\ \A j \in 1..c.len : w.buf[j] = grown[j]
        /\ \A j \in 1..Len(keys) : w.buf[c.len + j] = keys[j]
    BY <1>0, <1>2, <1>3, SliceSetMany
  <1>5. w \in Linear /\ w.len = need /\ w.pos = keys[1].at + Len(keys)
    <2>1. need \in Nat /\ keys[1].at + Len(keys) \in Nat
      BY <1>0
    <2>2. SliceSet(grown, c.len, keys) = w.buf
      BY <1>2
    <2> HIDE DEF need, Cell
    <2>3. w \in [buf : Seq(Cell), pos : Nat, len : Nat, head : {0}]
      BY <1>2, <1>4, <2>1, <2>2
    <2>4. w.len = need /\ w.pos = keys[1].at + Len(keys)
      BY <1>2
    <2> QED
      BY <1>3, <1>4, <2>3, <2>4 DEF Linear
  <1>6. KeptKeys(w) = KeptKeys(c) \o keys
    <2> DEFINE a == KeptKeys(w)
               b == KeptKeys(c)
    <2>1. a \in Seq(Cell) /\ Len(a) = need /\ \A j \in 1..need : a[j] = w.buf[j]
      BY <1>5, KeptIs
    <2>2. b \in Seq(Cell) /\ Len(b) = c.len /\ \A j \in 1..c.len : b[j] = c.buf[j]
      BY KeptIs
    <2> HIDE DEF a, b
    <2>3. /\ b \o keys \in Seq(Cell) /\ Len(b \o keys) = need
          /\ \A j \in 1..c.len : (b \o keys)[j] = b[j]
          /\ \A j \in 1..Len(keys) : (b \o keys)[c.len + j] = keys[j]
      <3>1. /\ b \o keys \in Seq(Cell) /\ Len(b \o keys) = Len(b) + Len(keys)
            /\ \A j \in 1..(Len(b) + Len(keys)) :
                 (b \o keys)[j] = IF j <= Len(b) THEN b[j] ELSE keys[j - Len(b)]
        BY <2>2, ConcatProperties
      <3>2. \A j \in 1..c.len : (b \o keys)[j] = b[j]
        BY <1>0, <2>2, <3>1
      <3>3. ASSUME NEW j \in 1..Len(keys) PROVE (b \o keys)[c.len + j] = keys[j]
        <4>1. /\ c.len + j \in 1..(Len(b) + Len(keys)) /\ ~ (c.len + j <= Len(b))
              /\ (c.len + j) - Len(b) = j
          BY <1>0, <2>2
        <4> QED
          BY <3>1, <4>1
      <3> QED
        BY <2>2, <3>1, <3>2, <3>3
    <2>4. ASSUME NEW j \in 1..need PROVE a[j] = (b \o keys)[j]
      <3>1. CASE j <= c.len
        <4>1. j \in 1..c.len
          BY <1>0, <3>1
        <4> QED
          BY <1>3, <1>4, <2>1, <2>2, <2>3, <4>1
      <3>2. CASE ~ (j <= c.len)
        <4>1. j - c.len \in 1..Len(keys) /\ c.len + (j - c.len) = j
          BY <1>0, <3>2
        <4> DEFINE i == j - c.len
        <4>2. i \in 1..Len(keys) /\ c.len + i = j
          BY <4>1
        <4> HIDE DEF i
        <4>3. w.buf[c.len + i] = keys[i] /\ (b \o keys)[c.len + i] = keys[i]
          BY <1>4, <2>3, <4>2
        <4>4. a[j] = w.buf[j]
          BY <2>1
        <4> QED
          BY <4>2, <4>3, <4>4
      <3> QED
        BY <3>1, <3>2
    <2> HIDE DEF need
    <2>5. a = b \o keys
      BY <2>1, <2>3, <2>4, SeqEqual
    <2> QED
      BY <2>5 DEF a, b
  <1> QED
    BY <1>5, <1>6 DEF w

\* sdpa without a window: every query reads keys, the only one all of them.
LEMMA LinearReadIs ==
    ASSUME NEW w \in Linear, NEW nq \in 1..w.len
    PROVE  /\ \A i \in 1..nq : LinearRead(w, nq)[i] \in Seq(Cell)
           /\ nq = 1 => LinearRead(w, nq)[1] = KeptKeys(w)
  <1> DEFINE keys == KeptKeys(w)
             n == Len(keys)
  <1>0. keys \in Seq(Cell) /\ n = w.len /\ n \in Nat /\ nq <= n
    BY KeptIs DEF Linear
  <1>1. LinearRead(w, nq) = Sdpa(keys, nq, NoWindow)
    BY DEF LinearRead, KeptKeys
  <1> HIDE DEF keys
  <1>2. ASSUME NEW start \in Int, NEW i \in 1..nq
        PROVE  Seen(keys, nq, NoWindow, start, i - start) = SubSeq(keys, 1, n - nq + i)
    <2>1. n - nq + start + (i - start) = n - nq + i
      BY <1>0
    <2> QED
      BY <2>1 DEF Seen
  <1>3. ASSUME NEW i \in 1..nq
        PROVE  SubSeq(keys, 1, n - nq + i) \in Seq(Cell)
    BY <1>0, SubSeqProperties
  <1>4. ASSUME NEW i \in 1..nq
        PROVE  \/ Sdpa(keys, nq, NoWindow)[i] = SubSeq(keys, 1, n - nq + i)
               \/ Sdpa(keys, nq, NoWindow)[i] = keys
    <2> DEFINE start == ((i - 1) \div BlockSize) * BlockSize
    <2>1. start \in Int
      BY AttentionAssumption DEF AttentionAssumption
    <2>2. Seen(keys, nq, NoWindow, start, i - start) = SubSeq(keys, 1, n - nq + i)
      BY <1>2, <2>1
    <2>3. Seen(keys, nq, NoWindow, 0, i) = SubSeq(keys, 1, n - nq + i)
      <3>1. n - nq + 0 + i = n - nq + i
        BY <1>0
      <3> QED
        BY <3>1 DEF Seen
    <2> QED
      BY <2>2, <2>3 DEF Sdpa
  <1>5. SubSeq(keys, 1, n) = keys
    <2> DEFINE s == SubSeq(keys, 1, n)
    <2>1. s \in Seq(Cell) /\ Len(s) = n /\ \A j \in 1..n : s[j] = keys[j]
      BY <1>0, SubSeqProperties
    <2> HIDE DEF s
    <2>2. s = keys
      BY <1>0, <2>1, SeqEqual
    <2> QED
      BY <2>2 DEF s
  <1>6. ASSUME nq = 1 PROVE LinearRead(w, nq)[1] = keys
    <2>1. n - nq + 1 = n /\ 1 \in 1..nq
      BY <1>0, <1>6
    <2> QED
      BY <1>1, <1>4, <1>5, <2>1
  <1>7. \A i \in 1..nq : LinearRead(w, nq)[i] \in Seq(Cell)
    BY <1>0, <1>1, <1>3, <1>4
  <1> QED
    BY <1>6, <1>7 DEF keys

\* What a layer of the flow LM makes of the inputs of a text read alone.
LayerGives(l, c, p, s, w, out) ==
    /\ w \in Linear /\ w.len = c.len + Len(s.xs) /\ w.pos = p + Len(s.xs)
    /\ KeptKeys(w) = KeptKeys(c) \o Rotated(s.xs, p)
    /\ out = [xs |-> out.xs, caches |-> Append(s.caches, w)]
    /\ out.xs \in Seq(Int) /\ Len(out.xs) = Len(s.xs)
    /\ Len(s.xs) = 1 => out.xs[1] = LayerOut(<<"flow_lm", l>>, s.xs[1], p, KeptKeys(w))

LEMMA LayerIs ==
    ASSUME Numbers, NEW l \in 1..Layers, NEW c \in Linear, NEW p \in Nat,
           NEW s, s.xs \in Seq(Int), s.xs # <<>>, s.caches \in Seq(Linear)
    PROVE  LayerGives(l, c, p, s, LinearWritten(c, Rotated(s.xs, p)),
                      TransformerLayer(FlowLM, l, c, s, p))
  <1> DEFINE w == LinearWritten(c, Rotated(s.xs, p))
             out == TransformerLayer(FlowLM, l, c, s, p)
             xs == s.xs
             caches == s.caches
             keys == Rotated(xs, p)
             n == Len(xs)
             read == LinearRead(w, n)
             ys == [i \in 1..n |-> LayerOut(<<"flow_lm", l>>, xs[i], p + i - 1, read[i])]
  <1> HIDE DEF w, out
  <1>0. n \in Nat /\ n >= 1 /\ xs \in Seq(Int) /\ 1 \in 1..n
    OBVIOUS
  <1>1. keys \in Seq(Cell) /\ Len(keys) = n /\ \A i \in 1..n : keys[i] = [x |-> xs[i], at |-> p + i - 1]
    BY RotatedIs
  <1> HIDE DEF keys
  <1>2. keys # <<>> /\ keys[1].at = p
    <2>1. keys[1] = [x |-> xs[1], at |-> p + 1 - 1]
      BY <1>0, <1>1
    <2>2. keys[1].at = p
      BY <2>1
    <2>3. keys # <<>>
      BY <1>0, <1>1
    <2> QED
      BY <2>2, <2>3
  <1>3. w \in Linear /\ w.len = c.len + n /\ w.pos = p + n /\ KeptKeys(w) = KeptKeys(c) \o keys
    <2>1. w = LinearWritten(c, keys)
      BY DEF keys, w
    <2>2. keys \in Seq(Cell) /\ keys # <<>> /\ keys[1].at \in Nat
      BY <1>1, <1>2
    <2>3. /\ LinearWritten(c, keys) \in Linear
          /\ LinearWritten(c, keys).len = c.len + Len(keys)
          /\ LinearWritten(c, keys).pos = keys[1].at + Len(keys)
          /\ KeptKeys(LinearWritten(c, keys)) = KeptKeys(c) \o keys
      BY <2>2, LinearWrittenIs
    <2> QED
      BY <1>1, <1>2, <2>1, <2>3
  <1>4. n \in 1..w.len
    BY <1>0, <1>3 DEF Linear
  <1> HIDE DEF n
  <1>5. /\ \A i \in 1..n : read[i] \in Seq(Cell)
        /\ n = 1 => read[1] = KeptKeys(w)
    BY <1>3, <1>4, LinearReadIs
  <1> HIDE DEF read
  <1>6. out = [xs |-> ys, caches |-> Append(caches, w)]
    <2>1. FlowLM.window = NoWindow /\ FlowLM.name = "flow_lm"
      BY DEF FlowLM
    <2>2. DOMAIN xs = 1..n
      BY <1>0 DEF n
    <2>3. Attended(c, keys, NoWindow) = [cache |-> w, read |-> read]
      BY <1>1 DEF Attended, LinearAttended, read, keys, w
    <2>4. out = LayerOutputs(<<"flow_lm", l>>, s, p, [cache |-> w, read |-> read])
      BY <2>1, <2>3 DEF TransformerLayer, keys, out
    <2> HIDE DEF xs
    <2>5. LayerOutputs(<<"flow_lm", l>>, s, p, [cache |-> w, read |-> read])
            = [xs |-> ys, caches |-> Append(caches, w)]
      BY <2>2 DEF LayerOutputs, xs
    <2> QED
      BY <2>4, <2>5
  <1>7. \A i \in 1..n : LayerOut(<<"flow_lm", l>>, xs[i], p + i - 1, read[i]) \in Int
    <2>1. \A i \in 1..n : xs[i] \in Int /\ p + i - 1 \in Nat
      BY <1>0 DEF n
    <2> QED
      BY <1>5, <2>1 DEF Numbers
  <1>8. ys \in Seq(Int) /\ Len(ys) = n
    <2>1. /\ \A i \in 1..n : ys[i] \in Int
          /\ ys = [i \in 1..n |-> ys[i]]
      BY <1>7
    <2> HIDE DEF ys
    <2> QED
      BY <1>0, <2>1, FunctionIsSeq
  <1>9. n = 1 => ys[1] = LayerOut(<<"flow_lm", l>>, xs[1], p, KeptKeys(w))
    <2> SUFFICES ASSUME n = 1 PROVE ys[1] = LayerOut(<<"flow_lm", l>>, xs[1], p, KeptKeys(w))
      OBVIOUS
    <2>1. ys[1] = LayerOut(<<"flow_lm", l>>, xs[1], p + 1 - 1, read[1])
      BY <1>0
    <2>2. p + 1 - 1 = p
      OBVIOUS
    <2> HIDE DEF ys
    <2> QED
      BY <1>5, <2>1, <2>2
  <1> HIDE DEF ys
  <1>10. out.xs = ys /\ out.caches = Append(caches, w)
    BY <1>6
  <1> QED
    BY <1>3, <1>6, <1>8, <1>9, <1>10 DEF keys, n, LayerGives, w, out

-----------------------------------------------------------------------------
(* Forwarded of the flow LM *)

OldOf(model, caches) ==
    IF caches = <<>> THEN [l \in 1..model.depth |-> InitCache(model.window)] ELSE caches

LinearRun(model, caches, xs) ==
    CHOOSE f : f = [l \in 0..model.depth |->
                      IF l = 0 THEN [xs |-> xs, caches |-> <<>>]
                      ELSE TransformerLayer(model, l, OldOf(model, caches)[l], f[l - 1],
                                            OldOf(model, caches)[1].pos)]

LEMMA ForwardedIs ==
    ASSUME NEW model, NEW caches, NEW xs
    PROVE  Forwarded(model, caches, xs) = LinearRun(model, caches, xs)[model.depth]
  BY DEF Forwarded, LinearRun, OldOf

\* Caches of every layer, all at the same position.
GoodCaches(caches) ==
    /\ caches \in Seq(Linear) /\ Len(caches) = Layers
    /\ \A l \in 1..Layers : caches[l].pos = caches[1].pos

\* What there is after l layers over n inputs.
AfterLayers(caches, n, l, s) ==
    /\ s = [xs |-> s.xs, caches |-> s.caches]
    /\ s.xs \in Seq(Int) /\ Len(s.xs) = n
    /\ s.caches \in Seq(Linear) /\ Len(s.caches) = l
    /\ \A m \in 1..l : /\ s.caches[m].pos = caches[1].pos + n
                       /\ s.caches[m].len = caches[m].len + n

LEMMA LayerKeepsOn ==
    ASSUME Numbers, NEW caches, GoodCaches(caches), NEW n \in Nat \ {0},
           NEW l \in 1..Layers, NEW s, AfterLayers(caches, n, l - 1, s)
    PROVE  AfterLayers(caches, n, l, TransformerLayer(FlowLM, l, caches[l], s, caches[1].pos))
  <1> DEFINE c == caches[l]
             p == caches[1].pos
             w == LinearWritten(c, Rotated(s.xs, p))
             out == TransformerLayer(FlowLM, l, c, s, p)
             all == s.caches
  <1>0. /\ l \in Nat /\ l - 1 \in Nat /\ 1 \in 1..Layers
        /\ s = [xs |-> s.xs, caches |-> all]
        /\ s.xs \in Seq(Int) /\ Len(s.xs) = n /\ s.xs # <<>>
        /\ all \in Seq(Linear) /\ Len(all) = l - 1
        /\ \A m \in 1..(l - 1) : all[m].pos = p + n /\ all[m].len = caches[m].len + n
    BY BatchAssumption DEF AfterLayers, BatchAssumption
  <1>1. c \in Linear /\ p \in Nat
    <2>1. caches[l] \in Linear /\ caches[1] \in Linear
      BY <1>0 DEF GoodCaches
    <2> QED
      BY <2>1 DEF Linear
  <1> HIDE DEF c, p, all
  <1>2. /\ w \in Linear /\ w.len = c.len + n /\ w.pos = p + n
        /\ out = [xs |-> out.xs, caches |-> Append(all, w)]
        /\ out.xs \in Seq(Int) /\ Len(out.xs) = n
    <2>1. /\ s.xs \in Seq(Int) /\ s.xs # <<>> /\ s.caches \in Seq(Linear)
      BY <1>0 DEF all
    <2>3. LayerGives(l, c, p, s, w, out)
      BY <1>1, <2>1, LayerIs
    <2> HIDE DEF w, out
    <2>2. /\ w \in Linear /\ w.len = c.len + Len(s.xs) /\ w.pos = p + Len(s.xs)
          /\ out = [xs |-> out.xs, caches |-> Append(s.caches, w)]
          /\ out.xs \in Seq(Int) /\ Len(out.xs) = Len(s.xs)
      BY <2>3 DEF LayerGives
    <2> QED
      BY <1>0, <2>2 DEF all
  <1> HIDE DEF w, out
  <1>3. /\ Append(all, w) \in Seq(Linear) /\ Len(Append(all, w)) = l
        /\ \A m \in 1..(l - 1) : Append(all, w)[m] = all[m]
        /\ Append(all, w)[l] = w
    BY <1>0, <1>2, AppendProperties
  <1>4. out.caches = Append(all, w)
    BY <1>2
  <1>5. ASSUME NEW m \in 1..l
        PROVE  out.caches[m].pos = p + n /\ out.caches[m].len = caches[m].len + n
    <2>1. CASE m = l
      BY <1>2, <1>3, <1>4, <2>1 DEF c
    <2>2. CASE m # l
      <3>1. m \in 1..(l - 1)
        BY <1>0, <2>2
      <3> QED
        BY <1>0, <1>3, <1>4, <3>1
    <2> QED
      BY <2>1, <2>2
  <1>6. AfterLayers(caches, n, l, out)
    <2>1. out = [xs |-> out.xs, caches |-> out.caches]
      BY <1>2, <1>4
    <2> QED
      BY <1>2, <1>3, <1>4, <1>5, <2>1 DEF AfterLayers, p
  <1> QED
    BY <1>6 DEF out, c, p

LinearRuns(caches, xs, f) ==
    /\ f[0] = [xs |-> xs, caches |-> <<>>]
    /\ \A l \in 1..Layers :
         f[l] = TransformerLayer(FlowLM, l, caches[l], f[l - 1], caches[1].pos)
    /\ \A l \in 0..Layers : AfterLayers(caches, Len(xs), l, f[l])

LEMMA LinearRunIs ==
    ASSUME Numbers, NEW caches, GoodCaches(caches), NEW xs \in Seq(Int), xs # <<>>
    PROVE  LinearRuns(caches, xs, LinearRun(FlowLM, caches, xs))
  <1> DEFINE n == Len(xs)
             All == [xs : Seq(Int), caches : Seq(Linear)]
             v == [xs |-> xs, caches |-> <<>>]
             To(l, s) == TransformerLayer(FlowLM, l, caches[l], s, caches[1].pos)
             S == [l \in 0..Layers |-> {s \in All : AfterLayers(caches, n, l, s)}]
             G == [q \in (1..Layers) \X All |-> To(q[1], q[2])]
             f == LinearRun(FlowLM, caches, xs)
  <1>0. Layers \in Nat /\ Layers >= 1 /\ n \in Nat \ {0} /\ caches # <<>>
    BY BatchAssumption DEF BatchAssumption, GoodCaches
  <1>1. FlowLM.depth = Layers /\ OldOf(FlowLM, caches) = caches
    BY <1>0 DEF FlowLM, OldOf
  <1>2. \A l \in 0..Layers : \A s : AfterLayers(caches, n, l, s) => s \in All
    BY DEF AfterLayers
  <1>3. AfterLayers(caches, n, 0, v)
    <2>1. <<>> \in Seq(Linear) /\ Len(<<>>) = 0
      OBVIOUS
    <2> HIDE DEF Linear
    <2> QED
      BY <1>0, <2>1 DEF AfterLayers
  <1>4. v \in S[0]
    BY <1>0, <1>2, <1>3
  <1>5. ASSUME NEW l \in 1..Layers, NEW s \in S[l - 1]
        PROVE  G[<<l, s>>] \in S[l] /\ G[<<l, s>>] = To(l, s)
    <2>1. l - 1 \in 0..Layers /\ l \in 0..Layers
      BY <1>0
    <2>2. s \in All /\ AfterLayers(caches, n, l - 1, s)
      BY <2>1
    <2>3. AfterLayers(caches, n, l, To(l, s))
      BY <1>0, <2>2, LayerKeepsOn
    <2>4. G[<<l, s>>] = To(l, s)
      BY <2>2
    <2> QED
      BY <1>2, <2>1, <2>3, <2>4
  <1> HIDE DEF S, G, v, n, To
  <1>6. PICK g : Solves(Layers, S, v, G, g)
    <2>1. StaysIn(Layers, S, G)
      BY <1>5 DEF StaysIn
    <2> QED
      BY <1>0, <1>4, <2>1, RecursionExists
  <1>7. g = [l \in 0..Layers |-> IF l = 0 THEN v ELSE To(l, g[l - 1])]
    <2>1. ASSUME NEW l \in 1..Layers PROVE g[l] = To(l, g[l - 1])
      <3>1. l - 1 \in 0..Layers
        BY <1>0
      <3> QED
        BY <1>5, <1>6, <3>1 DEF Solves
    <2>2. \A l \in 0..Layers : l # 0 => l \in 1..Layers
      BY <1>0
    <2>3. \A l \in 0..Layers : g[l] = IF l = 0 THEN v ELSE To(l, g[l - 1])
      BY <1>6, <2>1, <2>2 DEF Solves
    <2> QED
      BY <1>6, <2>3 DEF Solves
  <1>8. f = [l \in 0..Layers |-> IF l = 0 THEN v ELSE To(l, f[l - 1])]
    <2>1. g = [l \in 0..FlowLM.depth |->
                 IF l = 0 THEN [xs |-> xs, caches |-> <<>>]
                 ELSE TransformerLayer(FlowLM, l, OldOf(FlowLM, caches)[l], g[l - 1],
                                       OldOf(FlowLM, caches)[1].pos)]
      BY <1>1, <1>7 DEF v, To
    <2>2. f = [l \in 0..FlowLM.depth |->
                 IF l = 0 THEN [xs |-> xs, caches |-> <<>>]
                 ELSE TransformerLayer(FlowLM, l, OldOf(FlowLM, caches)[l], f[l - 1],
                                       OldOf(FlowLM, caches)[1].pos)]
      BY <2>1 DEF LinearRun
    <2> HIDE DEF f
    <2> QED
      BY <1>1, <2>2 DEF v, To
  <1> HIDE DEF f
  <1>9. f[0] = v /\ \A l \in 1..Layers : f[l] = To(l, f[l - 1])
    BY <1>0, <1>8
  <1>10. \A l \in 0..Layers : f[l] \in S[l]
    <2>1. f[0] \in S[0]
      BY <1>4, <1>9
    <2>2. \A l \in 1..Layers : f[l - 1] \in S[l - 1] => f[l] \in S[l]
      BY <1>5, <1>9
    <2> QED
      BY <1>0, <2>1, <2>2, RecursionStays
  <1>11. \A l \in 0..Layers : AfterLayers(caches, n, l, f[l])
    BY <1>10 DEF S
  <1> QED
    BY <1>9, <1>11 DEF f, v, To, n, LinearRuns

-----------------------------------------------------------------------------
(* StacksForwarded of the flow LM *)

\* A stack for every layer, each with n rows.
GoodStacks(stacks, n) ==
    \A l \in 1..Layers : GoodStack(stacks[l]) /\ Rows(stacks[l]) = n

\* What a stack is once every row took a key.
OneMore(c, d) ==
    /\ GoodStack(d) /\ Rows(d) = Rows(c) /\ d.cur = c.cur + 1
    /\ \A i \in 1..Rows(c) : d.pos[i] = c.pos[i] + 1

\* What there is after l layers over the inputs of n rows.
Stacked(stacks, n, l, s) ==
    /\ s = [xs |-> s.xs, caches |-> s.caches]
    /\ s.xs \in Seq(Int) /\ Len(s.xs) = n
    /\ s.caches = [m \in 1..Layers |-> s.caches[m]]
    /\ \A m \in 1..Layers : IF m <= l THEN OneMore(stacks[m], s.caches[m])
                                     ELSE s.caches[m] = stacks[m]

\* What layer l makes of it.
StackGives(stacks, n, l, s, out) ==
    /\ Stacked(stacks, n, l, out)
    /\ \A m \in 1..Layers : m # l => out.caches[m] = s.caches[m]
    /\ \A i \in 1..n :
         /\ RowOf(out.caches[l], i) = Append(RowOf(stacks[l], i),
                                             [x |-> s.xs[i], at |-> stacks[l].pos[i]])
         /\ out.xs[i] = LayerOut(<<"flow_lm", l>>, s.xs[i], stacks[l].pos[i],
                                 RowOf(out.caches[l], i))

LayerOver(stacks, l, s) ==
    StackedLayer(FlowLM, l, s, StackForwarded(stacks[l], s.xs))

\* What forward_stacked puts in a stack.
LEMMA StackForwardedIs ==
    ASSUME NEW c, GoodStack(c), NEW xs \in Seq(Int), Len(xs) = Rows(c)
    PROVE  /\ OneMore(c, StackForwarded(c, xs))
           /\ \A i \in 1..Rows(c) :
                /\ RowOf(StackForwarded(c, xs), i)
                     = Append(RowOf(c, i), [x |-> xs[i], at |-> c.pos[i]])
                /\ RowOf(StackForwarded(c, xs), i) \in Seq(Cell)
  <1> DEFINE n == Rows(c)
             cells == [i \in 1..n |-> [x |-> xs[i], at |-> c.pos[i]]]
             d == Pushed(c, cells)
  <1>0. /\ n \in Nat /\ c.pos \in Seq(Nat) /\ Len(c.pos) = n
        /\ c.len \in Seq(Nat) /\ Len(c.len) = n /\ c.cur \in Nat
    BY GoodFields, GoodIsStack DEF Rows
  <1>1. StackForwarded(c, xs) = d
    <2>1. DOMAIN xs = 1..n
      OBVIOUS
    <2> QED
      BY <2>1 DEF StackForwarded
  <1>2. cells \in Seq(Cell) /\ Len(cells) = n /\ \A i \in 1..n : cells[i] = [x |-> xs[i], at |-> c.pos[i]]
    <2>1. /\ cells = [i \in 1..n |-> cells[i]]
          /\ \A i \in 1..n : cells[i] = [x |-> xs[i], at |-> c.pos[i]]
      OBVIOUS
    <2>2. \A i \in 1..n : xs[i] \in Int /\ c.pos[i] \in Int
      BY <1>0
    <2> HIDE DEF cells
    <2>3. \A i \in 1..n : cells[i] \in Cell
      BY <2>1, <2>2 DEF Cell
    <2> QED
      BY <1>0, <2>1, <2>3, FunctionIsSeq
  <1> HIDE DEF cells
  <1>3. GoodStack(d) /\ \A i \in 1..n : RowOf(d, i) = Append(RowOf(c, i), cells[i])
    BY <1>2, PushKeepsRows
  <1>4. /\ d.cur = c.cur + 1
        /\ d.len = [i \in DOMAIN c.len |-> c.len[i] + 1]
        /\ d.pos = [i \in DOMAIN c.pos |-> c.pos[i] + 1]
    BY DEF Pushed
  <1>5. DOMAIN c.pos = 1..n /\ DOMAIN c.len = 1..n
    BY <1>0
  <1> HIDE DEF d
  <1>6. \A i \in 1..n : d.pos[i] = c.pos[i] + 1
    BY <1>4, <1>5
  <1>7. Rows(d) = n
    <2>1. d.len = [i \in 1..n |-> d.len[i]] /\ \A i \in 1..n : d.len[i] \in Nat
      <3>1. d.len = [i \in 1..n |-> c.len[i] + 1]
        BY <1>4, <1>5
      <3>2. \A i \in 1..n : c.len[i] + 1 \in Nat
        BY <1>0
      <3> QED
        BY <3>1, <3>2
    <2>2. Len(d.len) = n
      BY <1>0, <2>1, FunctionIsSeq
    <2> QED
      BY <2>2 DEF Rows
  <1>8. OneMore(c, d)
    BY <1>3, <1>4, <1>6, <1>7 DEF OneMore
  <1>9. ASSUME NEW i \in 1..n PROVE RowOf(d, i) \in Seq(Cell)
    <2>1. d.k[i] \in Seq(Cell) /\ d.len[i] \in Nat /\ d.len[i] <= d.cur /\ d.cur \in Nat
          /\ d.cur <= Len(d.k[i])
      BY <1>3, <1>7, GoodFields DEF Rows
    <2> DEFINE row == d.k[i]
               a == d.cur - d.len[i] + 1
    <2>2. a \in Nat /\ a >= 1
      BY <2>1
    <2>3. SubSeq(row, a, d.cur) \in Seq(Cell)
      <3> HIDE DEF row, a
      <3>1. \A j \in a..d.cur : row[j] \in Cell
        BY <2>1, <2>2 DEF row
      <3> QED
        BY <2>1, <2>2, <3>1, SubSeqProperties DEF row
    <2> QED
      BY <2>3 DEF RowOf
  <1> QED
    BY <1>1, <1>2, <1>3, <1>8, <1>9

LEMMA StackedStep ==
    ASSUME Numbers, NEW n \in Nat, NEW stacks, GoodStacks(stacks, n),
           NEW l \in 1..Layers, NEW s, Stacked(stacks, n, l - 1, s)
    PROVE  StackGives(stacks, n, l, s, LayerOver(stacks, l, s))
  <1> DEFINE c == stacks[l]
             d == StackForwarded(c, s.xs)
             ys == [i \in 1..n |-> LayerOut(<<"flow_lm", l>>, s.xs[i], c.pos[i], RowOf(d, i))]
             all == [s.caches EXCEPT ![l] = d]
             out == LayerOver(stacks, l, s)
  <1>0. /\ l \in Nat /\ Layers \in Nat
        /\ s.xs \in Seq(Int) /\ Len(s.xs) = n /\ DOMAIN s.xs = 1..n
        /\ s.caches = [m \in 1..Layers |-> s.caches[m]]
        /\ GoodStack(c) /\ Rows(c) = n
    BY BatchAssumption DEF Stacked, GoodStacks, BatchAssumption
  <1>1. \A m \in 1..Layers : IF m <= l - 1 THEN OneMore(stacks[m], s.caches[m])
                                           ELSE s.caches[m] = stacks[m]
    BY DEF Stacked
  <1>2. s.caches[l] = c
    BY <1>0, <1>1
  <1>3. /\ OneMore(c, d)
        /\ \A i \in 1..n : /\ RowOf(d, i) = Append(RowOf(c, i), [x |-> s.xs[i], at |-> c.pos[i]])
                           /\ RowOf(d, i) \in Seq(Cell)
    BY <1>0, StackForwardedIs
  <1>4. out = [xs |-> ys, caches |-> all]
    <2>1. FlowLM.name = "flow_lm"
      BY DEF FlowLM
    <2> QED
      BY <1>0, <1>2, <2>1 DEF LayerOver, StackedLayer
  <1>5. \A m \in 1..Layers : all[m] = IF m = l THEN d ELSE s.caches[m]
    BY <1>0
  <1>6. all = [m \in 1..Layers |-> all[m]]
    <2>1. DOMAIN all = 1..Layers
      BY <1>0
    <2> QED
      BY <2>1
  <1> HIDE DEF all, out, d
  <1>7. ys \in Seq(Int) /\ Len(ys) = n
    <2>1. \A i \in 1..n : c.pos[i] \in Nat /\ s.xs[i] \in Int
      <3>1. c.pos \in Seq(Nat) /\ Len(c.pos) = n
        BY <1>0, GoodFields DEF Rows
      <3> HIDE DEF c
      <3> QED
        BY <1>0, <3>1
    <2>2. /\ \A i \in 1..n : ys[i] \in Int
          /\ ys = [i \in 1..n |-> ys[i]]
      BY <1>3, <2>1 DEF Numbers
    <2> HIDE DEF ys
    <2> QED
      BY <2>2, FunctionIsSeq
  <1>8. \A i \in 1..n : ys[i] = LayerOut(<<"flow_lm", l>>, s.xs[i], c.pos[i], RowOf(d, i))
    OBVIOUS
  <1> HIDE DEF ys
  <1>9. out.xs = ys /\ out.caches = all
    BY <1>4
  <1>10. ASSUME NEW m \in 1..Layers
         PROVE  IF m <= l THEN OneMore(stacks[m], all[m]) ELSE all[m] = stacks[m]
    <2>1. CASE m = l
      BY <1>3, <1>5, <2>1
    <2>2. CASE m # l
      <3>1. m <= l <=> m <= l - 1
        BY <1>0, <2>2
      <3> QED
        BY <1>1, <1>5, <2>2, <3>1
    <2> QED
      BY <2>1, <2>2
  <1>11. Stacked(stacks, n, l, out)
    BY <1>4, <1>6, <1>7, <1>9, <1>10 DEF Stacked
  <1>12. all[l] = d
    BY <1>5
  <1>13. StackGives(stacks, n, l, s, out)
    BY <1>3, <1>5, <1>8, <1>9, <1>11, <1>12 DEF StackGives
  <1> QED
    BY <1>13 DEF out

StackRun(stacks, xs, n) ==
    CHOOSE f : f = [l \in 0..n |-> IF l = 0 THEN [xs |-> xs, caches |-> stacks]
                                   ELSE LayerOver(stacks, l, f[l - 1])]

LEMMA StacksForwardedIs ==
    ASSUME NEW stacks, NEW xs, NEW n
    PROVE  StacksForwarded(FlowLM, stacks, xs, n) = StackRun(stacks, xs, n)[n]
  BY DEF StacksForwarded, StackRun, LayerOver

StackRuns(stacks, xs, n, f) ==
    /\ f[0] = [xs |-> xs, caches |-> stacks]
    /\ \A l \in 1..n : StackGives(stacks, Len(xs), l, f[l - 1], f[l])
    /\ \A l \in 0..n : Stacked(stacks, Len(xs), l, f[l])

LEMMA StackRunIs ==
    ASSUME Numbers, NEW xs \in Seq(Int), NEW stacks, GoodStacks(stacks, Len(xs)),
           stacks = [l \in 1..Layers |-> stacks[l]], NEW n \in 0..Layers
    PROVE  StackRuns(stacks, xs, n, StackRun(stacks, xs, n))
  <1> DEFINE rows == Len(xs)
             All == [xs : Seq(Int), caches : [1..Layers -> StackSet]]
             v == [xs |-> xs, caches |-> stacks]
             S == [l \in 0..n |-> {s \in All : Stacked(stacks, rows, l, s)}]
             G == [q \in (1..n) \X All |-> LayerOver(stacks, q[1], q[2])]
             f == StackRun(stacks, xs, n)
  <1>0. Layers \in Nat /\ n \in Nat /\ n <= Layers /\ rows \in Nat
        /\ \A l \in 1..n : l \in 1..Layers
    BY BatchAssumption DEF BatchAssumption
  <1>1. ASSUME NEW l \in 0..n, NEW s, Stacked(stacks, rows, l, s) PROVE s \in All
    <2>1. \A m \in 1..Layers : GoodStack(s.caches[m])
      BY <1>1 DEF Stacked, OneMore, GoodStacks
    <2>2. \A m \in 1..Layers : s.caches[m] \in StackSet
      BY <2>1, GoodIsStack
    <2> HIDE DEF StackSet
    <2> QED
      BY <1>1, <2>2 DEF Stacked
  <1>2. Stacked(stacks, rows, 0, v)
    <2>1. v.xs = xs /\ v.caches = stacks /\ v = [xs |-> v.xs, caches |-> v.caches]
      OBVIOUS
    <2> HIDE DEF v
    <2> QED
      BY <1>0, <2>1 DEF Stacked
  <1> HIDE DEF All, rows, v
  <1>3. v \in S[0]
    BY <1>0, <1>1, <1>2
  <1>4. ASSUME NEW l \in 1..n, NEW s \in S[l - 1]
        PROVE  /\ G[<<l, s>>] \in S[l] /\ G[<<l, s>>] = LayerOver(stacks, l, s)
               /\ StackGives(stacks, rows, l, s, LayerOver(stacks, l, s))
    <2>1. l - 1 \in 0..n /\ l \in 0..n /\ l \in 1..Layers
      BY <1>0
    <2>2. s \in All /\ Stacked(stacks, rows, l - 1, s)
      BY <2>1
    <2>3. StackGives(stacks, rows, l, s, LayerOver(stacks, l, s))
      BY <1>0, <2>1, <2>2, StackedStep DEF rows
    <2>4. Stacked(stacks, rows, l, LayerOver(stacks, l, s))
      BY <2>3 DEF StackGives
    <2>5. G[<<l, s>>] = LayerOver(stacks, l, s)
      BY <2>2
    <2> QED
      BY <1>1, <2>1, <2>3, <2>4, <2>5
  <1> HIDE DEF S, G
  <1>6. PICK g : Solves(n, S, v, G, g)
    <2>1. StaysIn(n, S, G)
      BY <1>4 DEF StaysIn
    <2> QED
      BY <1>0, <1>3, <2>1, RecursionExists
  <1>7. g = [l \in 0..n |-> IF l = 0 THEN v ELSE LayerOver(stacks, l, g[l - 1])]
    <2>1. ASSUME NEW l \in 1..n PROVE g[l] = LayerOver(stacks, l, g[l - 1])
      <3>1. l - 1 \in 0..n
        BY <1>0
      <3> QED
        BY <1>4, <1>6, <3>1 DEF Solves
    <2>2. \A l \in 0..n : l # 0 => l \in 1..n
      BY <1>0
    <2>3. \A l \in 0..n : g[l] = IF l = 0 THEN v ELSE LayerOver(stacks, l, g[l - 1])
      BY <1>6, <2>1, <2>2 DEF Solves
    <2> QED
      BY <1>6, <2>3 DEF Solves
  <1>8. f = [l \in 0..n |-> IF l = 0 THEN v ELSE LayerOver(stacks, l, f[l - 1])]
    BY <1>7 DEF StackRun, v
  <1> HIDE DEF f
  <1>9. f[0] = v /\ \A l \in 1..n : f[l] = LayerOver(stacks, l, f[l - 1])
    <2>1. 0 \in 0..n /\ \A l \in 1..n : l \in 0..n /\ l # 0
      BY <1>0
    <2>2. \A l \in 0..n : f[l] = IF l = 0 THEN v ELSE LayerOver(stacks, l, f[l - 1])
      BY <1>8, Zenon
    <2> QED
      BY <2>1, <2>2
  <1>10. \A l \in 0..n : f[l] \in S[l]
    <2>1. f[0] \in S[0]
      BY <1>3, <1>9
    <2>2. \A l \in 1..n : f[l - 1] \in S[l - 1] => f[l] \in S[l]
      BY <1>4, <1>9
    <2> QED
      BY <1>0, <2>1, <2>2, RecursionStays
  <1>11. \A l \in 0..n : Stacked(stacks, rows, l, f[l])
    BY <1>10 DEF S
  <1>12. ASSUME NEW l \in 1..n PROVE StackGives(stacks, rows, l, f[l - 1], f[l])
    <2>1. l - 1 \in 0..n
      BY <1>0
    <2> QED
      BY <1>4, <1>9, <1>10, <2>1
  <1> QED
    BY <1>9, <1>11, <1>12 DEF f, v, rows, StackRuns

-----------------------------------------------------------------------------
(* A row among others, and the same text alone *)

\* A row of a stack holds what a linear cache holds, at the same position.
RowIsAlone(c, i, cache) == RowOf(c, i) = KeptKeys(cache) /\ c.pos[i] = cache.pos

\* What l layers made of row i is what they made of the text alone.
Follows(i, l, s, t) ==
    /\ s.xs[i] = t.xs[1]
    /\ \A m \in 1..l : RowOf(s.caches[m], i) = KeptKeys(t.caches[m])

AllAlone(stacks, i, caches) == \A l \in 1..Layers : RowIsAlone(stacks[l], i, caches[l])

LEMMA FollowsStep ==
    ASSUME Numbers, NEW n \in Nat, NEW stacks, GoodStacks(stacks, n),
           NEW caches, GoodCaches(caches), NEW i \in 1..n, AllAlone(stacks, i, caches),
           NEW l \in 1..Layers, NEW s, NEW t, NEW more,
           Stacked(stacks, n, l - 1, s), StackGives(stacks, n, l, s, more),
           AfterLayers(caches, 1, l - 1, t), Follows(i, l - 1, s, t)
    PROVE  Follows(i, l, more, TransformerLayer(FlowLM, l, caches[l], t, caches[1].pos))
  <1> DEFINE c == caches[l]
             p == caches[1].pos
             x == t.xs[1]
             w == LinearWritten(c, Rotated(t.xs, p))
             out == TransformerLayer(FlowLM, l, c, t, p)
             all == t.caches
  <1>0. /\ l \in Nat /\ l - 1 \in Nat /\ 1 \in 1..Layers
        /\ t.xs \in Seq(Int) /\ Len(t.xs) = 1 /\ t.xs # <<>> /\ x \in Int
        /\ t.caches \in Seq(Linear) /\ Len(t.caches) = l - 1
    BY BatchAssumption DEF AfterLayers, BatchAssumption
  <1>1. caches[l] \in Linear /\ caches[1] \in Linear
    BY <1>0 DEF GoodCaches
  <1>2. c \in Linear /\ p \in Nat /\ c.pos = p
    BY <1>0, <1>1 DEF GoodCaches, Linear
  <1> HIDE DEF c, p
  <1>3. LayerGives(l, c, p, t, w, out)
    BY <1>0, <1>2, LayerIs
  <1> HIDE DEF w, out, x
  <1>4. /\ KeptKeys(w) = KeptKeys(c) \o Rotated(t.xs, p)
        /\ out.xs[1] = LayerOut(<<"flow_lm", l>>, x, p, KeptKeys(w))
        /\ out.caches = Append(all, w) /\ w \in Linear
    <2>1. out = [xs |-> out.xs, caches |-> Append(t.caches, w)]
      BY <1>3 DEF LayerGives
    <2>2. out.caches = Append(all, w)
      BY <2>1
    <2> QED
      BY <1>0, <1>3, <2>2 DEF LayerGives, x
  <1>5. Rotated(t.xs, p) = <<[x |-> x, at |-> p]>>
    <2>1. /\ Rotated(t.xs, p) \in Seq(Cell) /\ Len(Rotated(t.xs, p)) = 1
          /\ \A k \in 1..1 : Rotated(t.xs, p)[k] = [x |-> t.xs[k], at |-> p + k - 1]
      BY <1>0, <1>2, RotatedIs
    <2>2. p + 1 - 1 = p
      BY <1>2
    <2>3. Rotated(t.xs, p)[1] = [x |-> x, at |-> p]
      BY <2>1, <2>2 DEF x
    <2> DEFINE r == Rotated(t.xs, p)
    <2> HIDE DEF r
    <2>4. r \in Seq(Cell) /\ Len(r) = 1 /\ r[1] = [x |-> x, at |-> p]
      BY <2>1, <2>3 DEF r
    <2>5. r = <<[x |-> x, at |-> p]>>
      BY <2>4
    <2> QED
      BY <2>5 DEF r
  <1>6. KeptKeys(w) = Append(KeptKeys(c), [x |-> x, at |-> p])
    <2>1. KeptKeys(c) \in Seq(Cell) /\ [x |-> x, at |-> p] \in Cell
      BY <1>0, <1>2, KeptIs DEF Cell
    <2> DEFINE k == KeptKeys(c)
               e == [x |-> x, at |-> p]
    <2>2. KeptKeys(w) = k \o <<e>>
      BY <1>4, <1>5
    <2> HIDE DEF k, e
    <2>3. k \o <<e>> = Append(k, e)
      BY <2>1 DEF k, e
    <2> QED
      BY <2>2, <2>3 DEF k, e
  <1>7. RowOf(stacks[l], i) = KeptKeys(c) /\ stacks[l].pos[i] = p
    BY <1>2 DEF AllAlone, RowIsAlone, c
  <1>8. s.xs[i] = x
    BY DEF Follows, x
  <1>9. RowOf(more.caches[l], i) = KeptKeys(w)
    BY <1>6, <1>7, <1>8 DEF StackGives
  <1>10. more.xs[i] = out.xs[1]
    BY <1>4, <1>7, <1>8, <1>9 DEF StackGives
  <1>11. ASSUME NEW m \in 1..l PROVE RowOf(more.caches[m], i) = KeptKeys(out.caches[m])
    <2>1. /\ Append(all, w)[l] = w
          /\ \A q \in 1..(l - 1) : Append(all, w)[q] = all[q]
      <3> HIDE DEF all
      <3>1. all \in Seq(Linear) /\ Len(all) = l - 1
        BY <1>0 DEF all
      <3> QED
        BY <1>0, <1>4, <3>1, AppendProperties
    <2>2. CASE m = l
      BY <1>4, <1>9, <2>1, <2>2
    <2>3. CASE m # l
      <3>1. m \in 1..(l - 1) /\ m \in 1..Layers
        BY <1>0, <2>3, BatchAssumption DEF BatchAssumption
      <3>2. more.caches[m] = s.caches[m]
        BY <2>3, <3>1 DEF StackGives
      <3>3. RowOf(s.caches[m], i) = KeptKeys(all[m])
        BY <3>1 DEF Follows
      <3> QED
        BY <1>4, <2>1, <3>1, <3>2, <3>3
    <2> QED
      BY <2>2, <2>3
  <1>12. Follows(i, l, more, out)
    BY <1>10, <1>11 DEF Follows
  <1> QED
    BY <1>12 DEF out, c, p

\* Through all layers.
LEMMA FollowsToTheEnd ==
    ASSUME Numbers, NEW xs \in Seq(Int), NEW i \in 1..Len(xs), NEW stacks,
           GoodStacks(stacks, Len(xs)), NEW caches, GoodCaches(caches),
           AllAlone(stacks, i, caches),
           NEW f, StackRuns(stacks, xs, Layers, f),
           NEW g, LinearRuns(caches, <<xs[i]>>, g)
    PROVE  Follows(i, Layers, f[Layers], g[Layers])
  <1> DEFINE n == Len(xs)
             T == {l \in Nat : l <= Layers => Follows(i, l, f[l], g[l])}
  <1>0. Layers \in Nat /\ n \in Nat /\ Len(<<xs[i]>>) = 1
    BY BatchAssumption DEF BatchAssumption
  <1>1. 0 \in T
    <2>1. f[0] = [xs |-> xs, caches |-> stacks] /\ g[0] = [xs |-> <<xs[i]>>, caches |-> <<>>]
      BY DEF StackRuns, LinearRuns
    <2>2. f[0].xs[i] = g[0].xs[1]
      BY <2>1
    <2>3. Follows(i, 0, f[0], g[0])
      BY <2>2 DEF Follows
    <2> QED
      BY <2>3
  <1>2. ASSUME NEW k \in T PROVE k + 1 \in T
    <2> SUFFICES ASSUME k + 1 <= Layers PROVE Follows(i, k + 1, f[k + 1], g[k + 1])
      OBVIOUS
    <2> DEFINE l == k + 1
    <2>1. k \in Nat /\ k <= Layers /\ Follows(i, k, f[k], g[k])
      BY <1>0, <1>2
    <2>2. l \in 1..Layers /\ l - 1 = k /\ k \in 0..Layers
      BY <1>0, <2>1
    <2> HIDE DEF l
    <2>3. /\ StackGives(stacks, n, l, f[k], f[l]) /\ Stacked(stacks, n, k, f[k])
          /\ g[l] = TransformerLayer(FlowLM, l, caches[l], g[k], caches[1].pos)
          /\ AfterLayers(caches, 1, k, g[k])
      BY <1>0, <2>2 DEF StackRuns, LinearRuns
    <2>4. Follows(i, l, f[l], TransformerLayer(FlowLM, l, caches[l], g[k], caches[1].pos))
      BY <1>0, <2>1, <2>2, <2>3, FollowsStep
    <2> QED
      BY <2>3, <2>4 DEF l
  <1>3. T \subseteq Nat
    OBVIOUS
  <1> HIDE DEF T
  <1>4. Layers \in T
    BY <1>0, <1>1, <1>2, <1>3, Induct
  <1> QED
    BY <1>0, <1>4 DEF T

\* One frame over all rows, and the same frame of the text alone.
FrameIsAlone(i, out, alone) ==
    /\ GoodCaches(alone.caches) /\ alone.xs \in Seq(Int) /\ Len(alone.xs) = 1
    /\ out.xs[i] = alone.xs[1]
    /\ AllAlone(out.caches, i, alone.caches)

LEMMA FrameAlone ==
    ASSUME Numbers, NEW xs \in Seq(Int), NEW i \in 1..Len(xs), NEW stacks,
           stacks = [l \in 1..Layers |-> stacks[l]],
           GoodStacks(stacks, Len(xs)), NEW caches, GoodCaches(caches),
           AllAlone(stacks, i, caches)
    PROVE  FrameIsAlone(i, StacksForwarded(FlowLM, stacks, xs, Layers),
                        Forwarded(FlowLM, caches, <<xs[i]>>))
  <1> DEFINE one == <<xs[i]>>
             f == StackRun(stacks, xs, Layers)
             g == LinearRun(FlowLM, caches, one)
  <1>0. /\ Layers \in Nat /\ Layers \in 0..Layers /\ 1 \in 1..Layers
        /\ one \in Seq(Int) /\ Len(one) = 1 /\ one # <<>>
    BY BatchAssumption DEF BatchAssumption
  <1>1. StackRuns(stacks, xs, Layers, f) /\ LinearRuns(caches, one, g)
    BY <1>0, StackRunIs, LinearRunIs
  <1>2. /\ StacksForwarded(FlowLM, stacks, xs, Layers) = f[Layers]
        /\ Forwarded(FlowLM, caches, one) = g[Layers]
    <2>1. FlowLM.depth = Layers
      BY DEF FlowLM
    <2> QED
      BY <2>1, StacksForwardedIs, ForwardedIs
  <1> HIDE DEF f, g
  <1>3. Follows(i, Layers, f[Layers], g[Layers])
    BY <1>1, FollowsToTheEnd
  <1> DEFINE out == f[Layers]
             alone == g[Layers]
  <1>4. Stacked(stacks, Len(xs), Layers, out) /\ AfterLayers(caches, 1, Layers, alone)
    BY <1>0, <1>1 DEF StackRuns, LinearRuns
  <1> HIDE DEF out, alone, one
  <1>5. /\ alone.xs \in Seq(Int) /\ Len(alone.xs) = 1
        /\ alone.caches \in Seq(Linear) /\ Len(alone.caches) = Layers
        /\ \A l \in 1..Layers : alone.caches[l].pos = caches[1].pos + 1
    BY <1>4 DEF AfterLayers
  <1>6. GoodCaches(alone.caches)
    BY <1>0, <1>5 DEF GoodCaches
  <1>7. ASSUME NEW l \in 1..Layers PROVE RowIsAlone(out.caches[l], i, alone.caches[l])
    <2>1. RowOf(out.caches[l], i) = KeptKeys(alone.caches[l])
      BY <1>3 DEF Follows, out, alone
    <2>2. OneMore(stacks[l], out.caches[l]) /\ Rows(stacks[l]) = Len(xs)
      BY <1>4 DEF Stacked, GoodStacks
    <2>3. out.caches[l].pos[i] = stacks[l].pos[i] + 1
      BY <2>2 DEF OneMore
    <2>4. stacks[l].pos[i] = caches[l].pos /\ caches[l].pos = caches[1].pos
      BY DEF AllAlone, RowIsAlone, GoodCaches
    <2> QED
      BY <1>5, <2>1, <2>3, <2>4 DEF RowIsAlone
  <1>8. out.xs[i] = alone.xs[1]
    BY <1>3 DEF Follows, out, alone
  <1>9. FrameIsAlone(i, out, alone)
    BY <1>5, <1>6, <1>7, <1>8 DEF FrameIsAlone, AllAlone
  <1> QED
    BY <1>2, <1>9 DEF out, alone, one

-----------------------------------------------------------------------------
(* The flow network, row by row *)

\* What per_step must find for step s of a row that ended as h.
ModulationOf(h, s, block) == Modulation(block, (h + TimeEmbedding(s)) % Prime)

ModulatedBy(hidden, s, mods) ==
    \A block \in 1..(ResBlocks + 1) :
      mods[block] = [i \in 1..Len(hidden) |-> ModulationOf(hidden[i], s, block)]

LEMMA PlaceOf ==
    ASSUME NEW D \in Nat \ {0}, NEW i \in Nat, NEW s \in 1..D
    PROVE  ((i * D + s) - 1) \div D = i /\ ((i * D + s) - 1) % D = s - 1
  <1> DEFINE r == s - 1
  <1>1. r \in 0..(D - 1) /\ (i * D + s) - 1 = i * D + r
    OBVIOUS
  <1> HIDE DEF r
  <1>2. (i * D + r) \div D = i /\ (i * D + r) % D = r
    BY <1>1
  <1> QED
    BY <1>1, <1>2 DEF r

LEMMA ModulationsAre ==
    ASSUME NEW hidden \in Seq(Int), NEW s \in 1..DecodeSteps
    PROVE  ModulatedBy(hidden, s, PrecomputedModulations(hidden)[s])
  <1> DEFINE N == Len(hidden)
             D == DecodeSteps
             y == [n \in 1..(N * D) |->
                     (hidden[((n - 1) \div D) + 1] + TimeEmbedding(((n - 1) % D) + 1)) % Prime]
  <1>0. N \in Nat /\ D \in Nat \ {0} /\ N * D \in Nat /\ s \in Nat
    <2>1. N \in Nat /\ D \in Nat \ {0}
      BY FlowNetAssumption DEF FlowNetAssumption
    <2> HIDE DEF N, D
    <2> QED
      BY <2>1 DEF D
  <1> SUFFICES ASSUME NEW block \in 1..(ResBlocks + 1)
               PROVE  PrecomputedModulations(hidden)[s][block]
                        = [i \in 1..N |-> ModulationOf(hidden[i], s, block)]
    BY DEF ModulatedBy
  <1> DEFINE flat == [n \in DOMAIN y |-> Modulation(block, y[n])]
  <1>1. PrecomputedModulations(hidden)[s][block] = PerStep(flat, s)
    BY DEF PrecomputedModulations
  <1>2. flat = [n \in 1..(N * D) |-> Modulation(block, y[n])]
    OBVIOUS
  <1>3. \A n \in 1..(N * D) :
          y[n] = (hidden[((n - 1) \div D) + 1] + TimeEmbedding(((n - 1) % D) + 1)) % Prime
    OBVIOUS
  <1> HIDE DEF y, flat, N, D
  <1>4. Len(flat) = N * D
    <2> DEFINE S == {flat[n] : n \in 1..(N * D)}
    <2>1. flat = [n \in 1..(N * D) |-> flat[n]] /\ \A n \in 1..(N * D) : flat[n] \in S
      BY <1>2
    <2> HIDE DEF S
    <2> QED
      BY <1>0, <2>1, FunctionIsSeq
  <1>5. (N * D) \div D = N
    BY <1>0
  <1>6. PerStep(flat, s) = [i \in 1..N |-> flat[(i - 1) * D + s]]
    BY <1>4, <1>5 DEF PerStep, D
  <1>7. ASSUME NEW i \in 1..N
        PROVE  flat[(i - 1) * D + s] = ModulationOf(hidden[i], s, block)
    <2> DEFINE k == i - 1
               n == k * D + s
    <2>1. k \in 0..(N - 1) /\ i = k + 1 /\ k \in Nat
      BY <1>0
    <2>2. s \in 1..D
      BY DEF D
    <2> HIDE DEF k
    <2>3. k * D + D <= N * D
      BY <1>0, <2>1
    <2>4. k * D \in Nat
      BY <1>0, <2>1
    <2>5. n \in 1..(N * D)
      BY <1>0, <2>2, <2>3, <2>4
    <2>6. (n - 1) \div D = k /\ (n - 1) % D = s - 1
      BY <1>0, <2>1, <2>2, PlaceOf
    <2> HIDE DEF n
    <2>7. (s - 1) + 1 = s
      BY <1>0
    <2>8. y[n] = (hidden[i] + TimeEmbedding(s)) % Prime
      BY <1>3, <2>1, <2>5, <2>6, <2>7
    <2>9. flat[n] = ModulationOf(hidden[i], s, block)
      BY <1>2, <2>5, <2>8 DEF ModulationOf
    <2> QED
      BY <2>9 DEF n, k
  <1> QED
    BY <1>1, <1>6, <1>7

BlocksRun(x, mods) ==
    CHOOSE f : f = [block \in 0..(ResBlocks + 1) |->
                      IF block = 0 THEN x ELSE BlockForward(block, f[block - 1], mods[block])]

LEMMA BlocksAre ==
    ASSUME NEW x, NEW mods
    PROVE  ForwardStepCached(x, mods) = BlocksRun(x, mods)[ResBlocks + 1]
  BY DEF ForwardStepCached, BlocksRun

BlocksRuns(n, x, mods, f) ==
    /\ f[0] = x
    /\ \A block \in 1..(ResBlocks + 1) : f[block] = BlockForward(block, f[block - 1], mods[block])
    /\ \A block \in 0..(ResBlocks + 1) : f[block] \in [1..n -> Int]

LEMMA BlocksRunIs ==
    ASSUME Numbers, NEW hidden \in Seq(Int), NEW s \in 1..DecodeSteps, NEW mods,
           ModulatedBy(hidden, s, mods), NEW x \in [1..Len(hidden) -> Int]
    PROVE  BlocksRuns(Len(hidden), x, mods, BlocksRun(x, mods))
  <1> DEFINE N == Len(hidden)
             last == ResBlocks + 1
             Row == [1..N -> Int]
             S == [block \in 0..last |-> Row]
             G == [q \in (1..last) \X Row |-> BlockForward(q[1], q[2], mods[q[1]])]
             f == BlocksRun(x, mods)
  <1>0. N \in Nat /\ last \in Nat
    BY FlowNetAssumption DEF FlowNetAssumption
  <1>1. ASSUME NEW block \in 1..last, NEW y \in Row
        PROVE  /\ G[<<block, y>>] = BlockForward(block, y, mods[block])
               /\ BlockForward(block, y, mods[block]) \in Row
    <2>1. G[<<block, y>>] = BlockForward(block, y, mods[block])
      OBVIOUS
    <2>2. mods[block] = [i \in 1..N |-> ModulationOf(hidden[i], s, block)]
      BY DEF ModulatedBy
    <2>3. ASSUME NEW i \in 1..N PROVE BlockOut(block, y[i], mods[block][i]) \in Int
      <3> DEFINE z == (hidden[i] + TimeEmbedding(s)) % Prime
      <3>1. z \in Int
        <4>1. hidden[i] \in Int /\ TimeEmbedding(s) \in Int /\ Prime \in Nat \ {0}
          BY FlowNetAssumption, CodecAssumption DEF FlowNetAssumption, CodecAssumption
        <4> QED
          BY <4>1
      <3>2. mods[block][i] = Modulation(block, z)
        BY <2>2 DEF ModulationOf
      <3> HIDE DEF z
      <3> QED
        BY <3>1, <3>2 DEF Numbers
    <2>4. BlockForward(block, y, mods[block]) = [i \in 1..N |-> BlockOut(block, y[i], mods[block][i])]
      BY DEF BlockForward
    <2> QED
      BY <2>1, <2>3, <2>4
  <1> HIDE DEF Row, N
  <1>2. /\ \A block \in 0..last : S[block] = Row
        /\ x \in S[0]
    BY <1>0 DEF Row, N
  <1>3. ASSUME NEW block \in 1..last PROVE block \in 0..last /\ block - 1 \in 0..last
    BY <1>0
  <1> HIDE DEF S, G
  <1>6. PICK g : Solves(last, S, x, G, g)
    <2>1. StaysIn(last, S, G)
      <3>1. ASSUME NEW block \in 1..last, NEW y \in S[block - 1] PROVE G[<<block, y>>] \in S[block]
        <4>1. y \in Row /\ S[block] = Row
          BY <1>2, <1>3
        <4> QED
          BY <1>1, <4>1
      <3> QED
        BY <3>1 DEF StaysIn
    <2> QED
      BY <1>0, <1>2, <2>1, RecursionExists
  <1>7. g = [block \in 0..last |-> IF block = 0 THEN x ELSE BlockForward(block, g[block - 1], mods[block])]
    <2>1. ASSUME NEW block \in 1..last PROVE g[block] = BlockForward(block, g[block - 1], mods[block])
      <3>1. g[block] = G[<<block, g[block - 1]>>] /\ g[block - 1] \in S[block - 1]
        BY <1>3, <1>6 DEF Solves
      <3>2. g[block - 1] \in Row
        BY <1>2, <1>3, <3>1
      <3> QED
        BY <1>1, <3>1, <3>2
    <2>2. \A block \in 0..last : block # 0 => block \in 1..last
      BY <1>0
    <2>3. \A block \in 0..last : g[block] = IF block = 0 THEN x ELSE BlockForward(block, g[block - 1], mods[block])
      BY <1>6, <2>1, <2>2 DEF Solves
    <2> QED
      BY <1>6, <2>3 DEF Solves
  <1>8. f = [block \in 0..last |-> IF block = 0 THEN x ELSE BlockForward(block, f[block - 1], mods[block])]
    BY <1>7 DEF BlocksRun
  <1> HIDE DEF f
  <1>9. f[0] = x /\ \A block \in 1..last : f[block] = BlockForward(block, f[block - 1], mods[block])
    <2>1. 0 \in 0..last /\ \A block \in 1..last : block \in 0..last /\ block # 0
      BY <1>0
    <2>2. \A block \in 0..last : f[block] = IF block = 0 THEN x ELSE BlockForward(block, f[block - 1], mods[block])
      BY <1>8, Zenon
    <2> QED
      BY <2>1, <2>2
  <1>10. \A block \in 0..last : f[block] \in S[block]
    <2>1. f[0] \in S[0]
      BY <1>2, <1>9
    <2>2. \A block \in 1..last : f[block - 1] \in S[block - 1] => f[block] \in S[block]
      BY <1>1, <1>2, <1>3, <1>9
    <2> QED
      BY <1>0, <2>1, <2>2, RecursionStays
  <1>11. \A block \in 0..last : f[block] \in Row
    BY <1>2, <1>10
  <1> QED
    BY <1>9, <1>11 DEF f, N, Row, BlocksRuns

\* Row i of x, and the same row alone.
SameRow(s, hidden, i, x, mods, one, y, single) ==
    /\ hidden \in Seq(Int) /\ i \in 1..Len(hidden) /\ x \in [1..Len(hidden) -> Int]
    /\ ModulatedBy(hidden, s, mods)
    /\ one \in Seq(Int) /\ Len(one) = 1 /\ one[1] = hidden[i]
    /\ y \in [1..1 -> Int] /\ y[1] = x[i] /\ ModulatedBy(one, s, single)

\* One block after another.
LEMMA BlocksAlone ==
    ASSUME Numbers, NEW s \in 1..DecodeSteps, NEW hidden, NEW i, NEW x, NEW mods,
           NEW one, NEW y, NEW single, SameRow(s, hidden, i, x, mods, one, y, single)
    PROVE  /\ ForwardStepCached(x, mods) \in [1..Len(hidden) -> Int]
           /\ ForwardStepCached(y, single) \in [1..1 -> Int]
           /\ ForwardStepCached(x, mods)[i] = ForwardStepCached(y, single)[1]
  <1> DEFINE N == Len(hidden)
             last == ResBlocks + 1
             f == BlocksRun(x, mods)
             g == BlocksRun(y, single)
             T == {b \in Nat : b <= last => f[b][i] = g[b][1]}
  <1>0. /\ N \in Nat /\ last \in Nat /\ last \in 0..last
        /\ hidden \in Seq(Int) /\ i \in 1..Len(hidden) /\ x \in [1..Len(hidden) -> Int]
        /\ ModulatedBy(hidden, s, mods)
        /\ one \in Seq(Int) /\ Len(one) = 1 /\ one[1] = hidden[i]
        /\ y \in [1..1 -> Int] /\ y[1] = x[i] /\ ModulatedBy(one, s, single)
    BY FlowNetAssumption DEF FlowNetAssumption, SameRow
  <1>1. BlocksRuns(N, x, mods, f) /\ BlocksRuns(1, y, single, g)
    <2>1. BlocksRuns(Len(one), y, single, g)
      BY <1>0, BlocksRunIs
    <2> QED
      BY <1>0, <2>1, BlocksRunIs
  <1>2. ForwardStepCached(x, mods) = f[last] /\ ForwardStepCached(y, single) = g[last]
    BY BlocksAre
  <1> HIDE DEF f, g, N
  <1>3. 0 \in T
    BY <1>0, <1>1 DEF BlocksRuns
  <1>4. ASSUME NEW k \in T PROVE k + 1 \in T
    <2> SUFFICES ASSUME k + 1 <= last PROVE f[k + 1][i] = g[k + 1][1]
      OBVIOUS
    <2> DEFINE b == k + 1
    <2>1. k \in Nat /\ b \in 1..last /\ b - 1 = k /\ k \in 0..last /\ f[k][i] = g[k][1]
      BY <1>0, <1>4
    <2> HIDE DEF b
    <2>2. /\ f[b] = BlockForward(b, f[k], mods[b]) /\ g[b] = BlockForward(b, g[k], single[b])
          /\ f[k] \in [1..N -> Int] /\ g[k] \in [1..1 -> Int]
      BY <1>1, <2>1 DEF BlocksRuns
    <2>3. mods[b][i] = ModulationOf(hidden[i], s, b) /\ single[b][1] = ModulationOf(one[1], s, b)
      <3>1. /\ mods[b] = [k1 \in 1..Len(hidden) |-> ModulationOf(hidden[k1], s, b)]
            /\ single[b] = [k1 \in 1..Len(one) |-> ModulationOf(one[k1], s, b)]
        BY <1>0, <2>1 DEF ModulatedBy
      <3>2. i \in 1..Len(hidden) /\ 1 \in 1..Len(one)
        BY <1>0
      <3> QED
        BY <3>1, <3>2
    <2>4. f[b][i] = BlockOut(b, f[k][i], mods[b][i]) /\ g[b][1] = BlockOut(b, g[k][1], single[b][1])
      BY <1>0, <2>2 DEF BlockForward, N
    <2>5. f[b][i] = g[b][1]
      BY <1>0, <2>1, <2>3, <2>4
    <2> QED
      BY <2>5 DEF b
  <1>5. T \subseteq Nat
    OBVIOUS
  <1> HIDE DEF T
  <1>6. last \in T
    BY <1>0, <1>3, <1>4, <1>5, Induct
  <1>7. f[last] \in [1..N -> Int] /\ g[last] \in [1..1 -> Int]
    BY <1>0, <1>1 DEF BlocksRuns
  <1> QED
    BY <1>0, <1>2, <1>6, <1>7 DEF T, N

EulerStep(x, mods) == Plus(x, ForwardStepCached(x, mods))

LEMMA EulerAlone ==
    ASSUME Numbers, NEW s \in 1..DecodeSteps, NEW hidden, NEW i, NEW x, NEW mods,
           NEW one, NEW y, NEW single, SameRow(s, hidden, i, x, mods, one, y, single)
    PROVE  /\ EulerStep(x, mods) \in [1..Len(hidden) -> Int]
           /\ EulerStep(y, single) \in [1..1 -> Int]
           /\ EulerStep(x, mods)[i] = EulerStep(y, single)[1]
  <1> DEFINE N == Len(hidden)
             a == ForwardStepCached(x, mods)
             b == ForwardStepCached(y, single)
  <1>1. a \in [1..N -> Int] /\ b \in [1..1 -> Int] /\ a[i] = b[1]
    BY BlocksAlone
  <1>8. i \in 1..N /\ x \in [1..N -> Int] /\ y \in [1..1 -> Int] /\ y[1] = x[i]
    BY DEF SameRow
  <1>2. EulerStep(x, mods) = Plus(x, a) /\ EulerStep(y, single) = Plus(y, b)
    BY DEF EulerStep
  <1> HIDE DEF a, b, N
  <1>3. Prime \in Nat \ {0}
    BY CodecAssumption DEF CodecAssumption
  <1>4. /\ Plus(x, a) = [k \in 1..N |-> (x[k] + a[k]) % Prime]
        /\ Plus(y, b) = [k \in 1..1 |-> (y[k] + b[k]) % Prime]
    BY <1>8 DEF Plus
  <1>5. /\ \A k \in 1..N : (x[k] + a[k]) % Prime \in Int
        /\ \A k \in 1..1 : (y[k] + b[k]) % Prime \in Int
    <2>1. \A k \in 1..N : x[k] \in Int /\ a[k] \in Int
      BY <1>1, <1>8
    <2>2. \A k \in 1..1 : y[k] \in Int /\ b[k] \in Int
      BY <1>1, <1>8
    <2>3. \A u, v \in Int : (u + v) % Prime \in Int
      BY <1>3
    <2> QED
      BY <2>1, <2>2, <2>3
  <1>6. Plus(x, a) \in [1..N -> Int] /\ Plus(y, b) \in [1..1 -> Int]
    BY <1>4, <1>5
  <1>7. Plus(x, a)[i] = Plus(y, b)[1]
    BY <1>1, <1>4, <1>8
  <1> QED
    BY <1>2, <1>6, <1>7 DEF N

\* The types alone, for a batch of any width.
LEMMA EulerType ==
    ASSUME Numbers, NEW s \in 1..DecodeSteps,
           NEW hidden \in Seq(Int), NEW x \in [1..Len(hidden) -> Int],
           NEW mods, ModulatedBy(hidden, s, mods)
    PROVE  EulerStep(x, mods) \in [1..Len(hidden) -> Int]
  <1> DEFINE N == Len(hidden)
             last == ResBlocks + 1
             f == BlocksRun(x, mods)
             a == ForwardStepCached(x, mods)
  <1>0. last \in 0..last
    BY FlowNetAssumption DEF FlowNetAssumption
  <1>1. BlocksRuns(N, x, mods, f)
    BY BlocksRunIs
  <1>2. a = f[last]
    BY BlocksAre
  <1> HIDE DEF f, N
  <1>3. a \in [1..N -> Int]
    BY <1>0, <1>1, <1>2 DEF BlocksRuns
  <1> HIDE DEF a
  <1>4. Prime \in Nat \ {0}
    BY CodecAssumption DEF CodecAssumption
  <1>5. Plus(x, a) = [k \in 1..N |-> (x[k] + a[k]) % Prime]
    BY DEF Plus, N
  <1>6. \A k \in 1..N : (x[k] + a[k]) % Prime \in Int
    <2>1. \A k \in 1..N : x[k] \in Int /\ a[k] \in Int
      BY <1>3 DEF N
    <2> QED
      BY <1>4, <2>1
  <1> QED
    BY <1>5, <1>6 DEF EulerStep, a, N

LsdRun(mods, noise) ==
    CHOOSE f : f = [s \in 0..DecodeSteps |->
                      IF s = 0 THEN noise
                      ELSE LET current == f[s - 1]
                           IN Plus(current, ForwardStepCached(current, mods[s]))]

LEMMA LsdIs ==
    ASSUME NEW mods, NEW noise
    PROVE  LsdDecode(mods, noise) = LsdRun(mods, noise)[DecodeSteps]
  BY DEF LsdDecode, LsdRun

LsdRuns(n, mods, noise, f) ==
    /\ f[0] = noise
    /\ \A s \in 1..DecodeSteps : f[s] = EulerStep(f[s - 1], mods[s])
    /\ \A s \in 0..DecodeSteps : f[s] \in [1..n -> Int]

LEMMA LsdRunIs ==
    ASSUME Numbers, NEW hidden \in Seq(Int), NEW noise \in [1..Len(hidden) -> Int]
    PROVE  LsdRuns(Len(hidden), PrecomputedModulations(hidden), noise,
                   LsdRun(PrecomputedModulations(hidden), noise))
  <1> DEFINE N == Len(hidden)
             last == DecodeSteps
             mods == PrecomputedModulations(hidden)
             Row == [1..N -> Int]
             S == [s \in 0..last |-> Row]
             G == [q \in (1..last) \X Row |-> EulerStep(q[2], mods[q[1]])]
             f == LsdRun(mods, noise)
  <1>0. N \in Nat /\ last \in Nat
    BY FlowNetAssumption DEF FlowNetAssumption
  <1>1. ASSUME NEW s \in 1..last, NEW y \in Row
        PROVE  G[<<s, y>>] = EulerStep(y, mods[s]) /\ EulerStep(y, mods[s]) \in Row
    <2>1. ModulatedBy(hidden, s, mods[s])
      BY ModulationsAre
    <2> QED
      BY <2>1, EulerType
  <1> HIDE DEF Row, N, mods
  <1>2. /\ \A s \in 0..last : S[s] = Row
        /\ noise \in S[0]
    BY <1>0 DEF Row, N
  <1>3. ASSUME NEW s \in 1..last PROVE s \in 0..last /\ s - 1 \in 0..last
    BY <1>0
  <1> HIDE DEF S, G
  <1>6. PICK g : Solves(last, S, noise, G, g)
    <2>1. StaysIn(last, S, G)
      <3>1. ASSUME NEW s \in 1..last, NEW y \in S[s - 1] PROVE G[<<s, y>>] \in S[s]
        <4>1. y \in Row /\ S[s] = Row
          BY <1>2, <1>3
        <4> QED
          BY <1>1, <4>1
      <3> QED
        BY <3>1 DEF StaysIn
    <2> QED
      BY <1>0, <1>2, <2>1, RecursionExists
  <1>7. g = [s \in 0..last |-> IF s = 0 THEN noise ELSE EulerStep(g[s - 1], mods[s])]
    <2>1. ASSUME NEW s \in 1..last PROVE g[s] = EulerStep(g[s - 1], mods[s])
      <3>1. s \in 0..last /\ s - 1 \in 0..last /\ S[s - 1] = Row
        BY <1>2, <1>3
      <3>2. g[s - 1] \in Row /\ g[s] = G[<<s, g[s - 1]>>]
        BY <1>6, <3>1 DEF Solves
      <3> QED
        BY <1>1, <3>2
    <2>2. \A s \in 0..last : s # 0 => s \in 1..last
      BY <1>0
    <2>3. \A s \in 0..last : g[s] = IF s = 0 THEN noise ELSE EulerStep(g[s - 1], mods[s])
      BY <1>6, <2>1, <2>2 DEF Solves
    <2> QED
      BY <1>6, <2>3 DEF Solves
  <1>8. f = [s \in 0..last |-> IF s = 0 THEN noise ELSE EulerStep(f[s - 1], mods[s])]
    BY <1>7 DEF LsdRun, EulerStep
  <1> HIDE DEF f
  <1>9. f[0] = noise /\ \A s \in 1..last : f[s] = EulerStep(f[s - 1], mods[s])
    <2>1. 0 \in 0..last /\ \A s \in 1..last : s \in 0..last /\ s # 0
      BY <1>0
    <2>2. \A s \in 0..last : f[s] = IF s = 0 THEN noise ELSE EulerStep(f[s - 1], mods[s])
      BY <1>8, Zenon
    <2> QED
      BY <2>1, <2>2
  <1>10. \A s \in 0..last : f[s] \in S[s]
    <2>1. f[0] \in S[0]
      BY <1>2, <1>9
    <2>2. \A s \in 1..last : f[s - 1] \in S[s - 1] => f[s] \in S[s]
      BY <1>1, <1>2, <1>3, <1>9
    <2> QED
      BY <1>0, <2>1, <2>2, RecursionStays
  <1>11. \A s \in 0..last : f[s] \in Row
    BY <1>2, <1>10
  <1> QED
    BY <1>9, <1>11 DEF f, N, Row, mods, LsdRuns

\* The next latent of a row is the one it would have alone.
LEMMA LatentAlone ==
    ASSUME Numbers, NEW hidden \in Seq(Int), NEW i \in 1..Len(hidden),
           NEW noise \in [1..Len(hidden) -> Int],
           NEW one \in Seq(Int), Len(one) = 1, one[1] = hidden[i]
    PROVE  /\ NextLatents(hidden, noise) \in [1..Len(hidden) -> Int]
           /\ NextLatents(hidden, noise)[i] = NextLatents(one, <<noise[i]>>)[1]
  <1> DEFINE N == Len(hidden)
             last == DecodeSteps
             y == <<noise[i]>>
             mods == PrecomputedModulations(hidden)
             single == PrecomputedModulations(one)
             f == LsdRun(mods, noise)
             g == LsdRun(single, y)
             T == {s \in Nat : s <= last => f[s][i] = g[s][1]}
  <1>0. N \in Nat /\ last \in Nat /\ last \in 0..last
    BY FlowNetAssumption DEF FlowNetAssumption
  <1>1. y \in [1..1 -> Int] /\ y[1] = noise[i]
    BY <1>0
  <1> HIDE DEF y
  <1>2. LsdRuns(N, mods, noise, f) /\ LsdRuns(1, single, y, g)
    BY <1>1, LsdRunIs
  <1>3. NextLatents(hidden, noise) = f[last] /\ NextLatents(one, y) = g[last]
    BY LsdIs DEF NextLatents
  <1>4. \A s \in 1..last : ModulatedBy(hidden, s, mods[s]) /\ ModulatedBy(one, s, single[s])
    BY ModulationsAre
  <1> HIDE DEF f, g, N, mods, single
  <1>5. 0 \in T
    BY <1>1, <1>2 DEF LsdRuns
  <1>6. ASSUME NEW k \in T PROVE k + 1 \in T
    <2> SUFFICES ASSUME k + 1 <= last PROVE f[k + 1][i] = g[k + 1][1]
      OBVIOUS
    <2> DEFINE s == k + 1
    <2>1. k \in Nat /\ s \in 1..last /\ s - 1 = k /\ k \in 0..last /\ f[k][i] = g[k][1]
      BY <1>0, <1>6
    <2> HIDE DEF s
    <2>2. /\ f[s] = EulerStep(f[k], mods[s]) /\ g[s] = EulerStep(g[k], single[s])
          /\ f[k] \in [1..N -> Int] /\ g[k] \in [1..1 -> Int]
      BY <1>2, <2>1 DEF LsdRuns
    <2>3. f[s][i] = g[s][1]
      <3>1. SameRow(s, hidden, i, f[k], mods[s], one, g[k], single[s])
        BY <1>4, <2>1, <2>2 DEF N, SameRow
      <3> QED
        BY <2>1, <2>2, <3>1, EulerAlone
    <2> QED
      BY <2>3 DEF s
  <1>7. T \subseteq Nat
    OBVIOUS
  <1> HIDE DEF T
  <1>8. last \in T
    BY <1>0, <1>5, <1>6, <1>7, Induct
  <1>9. f[last] \in [1..N -> Int]
    BY <1>0, <1>2 DEF LsdRuns
  <1> QED
    BY <1>0, <1>3, <1>8, <1>9 DEF T, N, y

-----------------------------------------------------------------------------
(* A text read alone *)

LEMMA ForwardedGood ==
    ASSUME Numbers, NEW caches, GoodCaches(caches), NEW xs \in Seq(Int), xs # <<>>
    PROVE  /\ GoodCaches(Forwarded(FlowLM, caches, xs).caches)
           /\ Forwarded(FlowLM, caches, xs).xs \in Seq(Int)
           /\ Len(Forwarded(FlowLM, caches, xs).xs) = Len(xs)
           /\ \A l \in 1..Layers :
                Forwarded(FlowLM, caches, xs).caches[l].len = caches[l].len + Len(xs)
  <1> DEFINE g == LinearRun(FlowLM, caches, xs)
             out == g[Layers]
  <1>0. Layers \in Nat /\ Layers \in 0..Layers /\ 1 \in 1..Layers
    BY BatchAssumption DEF BatchAssumption
  <1>1. LinearRuns(caches, xs, g)
    BY LinearRunIs
  <1>2. Forwarded(FlowLM, caches, xs) = out
    <2>1. FlowLM.depth = Layers
      BY DEF FlowLM
    <2> QED
      BY <2>1, ForwardedIs
  <1>3. AfterLayers(caches, Len(xs), Layers, out)
    BY <1>0, <1>1 DEF LinearRuns
  <1> HIDE DEF out, g
  <1>4. /\ out.xs \in Seq(Int) /\ Len(out.xs) = Len(xs)
        /\ out.caches \in Seq(Linear) /\ Len(out.caches) = Layers
        /\ \A l \in 1..Layers : /\ out.caches[l].pos = caches[1].pos + Len(xs)
                                /\ out.caches[l].len = caches[l].len + Len(xs)
    BY <1>3 DEF AfterLayers
  <1>5. GoodCaches(out.caches)
    BY <1>0, <1>4 DEF GoodCaches
  <1> QED
    BY <1>2, <1>4, <1>5

LEMMA VoiceGood ==
    ASSUME NEW id \in 0..(MaxStreams - 1)
    PROVE  /\ GoodCaches(VoiceState(id))
           /\ \A l \in 1..Layers : VoiceState(id)[l].len <= Len(VoiceOf(id))
  <1> DEFINE v == VoiceOf(id)
             c == [buf |-> Rotated(v, 0), pos |-> VoiceOffset(id),
                   len |-> Lesser(Len(v), VoiceOffset(id)), head |-> 0]
             s == VoiceState(id)
  <1>0. Layers \in Nat /\ 1 \in 1..Layers
    BY BatchAssumption DEF BatchAssumption
  <1>1. v \in Seq(Int) /\ VoiceOffset(id) \in Nat /\ Len(v) \in Nat
    BY RenderingAssumption DEF RenderingAssumption
  <1> HIDE DEF v
  <1>2. Rotated(v, 0) \in Seq(Cell) /\ Len(Rotated(v, 0)) = Len(v)
    BY <1>1, RotatedIs
  <1>3. c \in Linear /\ c.len <= Len(v)
    <2>1. /\ Lesser(Len(v), VoiceOffset(id)) \in Nat
          /\ Lesser(Len(v), VoiceOffset(id)) <= Len(v)
      BY <1>1 DEF Lesser
    <2>2. c.buf = Rotated(v, 0) /\ c.len = Lesser(Len(v), VoiceOffset(id))
      OBVIOUS
    <2>3. c \in [buf : Seq(Cell), pos : Nat, len : Nat, head : {0}]
      BY <1>1, <1>2, <2>1
    <2> HIDE DEF c
    <2> QED
      BY <1>2, <2>1, <2>2, <2>3 DEF Linear
  <1>4. s = [l \in 1..Layers |-> c]
    BY DEF VoiceState, v
  <1>5. \A l \in 1..Layers : s[l] = c
    BY <1>4
  <1> HIDE DEF c
  <1>6. s \in Seq(Linear) /\ Len(s) = Layers
    <2>1. s = [l \in 1..Layers |-> s[l]]
      BY <1>4
    <2> HIDE DEF s, Linear
    <2> QED
      BY <1>0, <1>3, <1>5, <2>1, FunctionIsSeq
  <1> HIDE DEF s
  <1> QED
    BY <1>0, <1>3, <1>5, <1>6 DEF GoodCaches, s, v

\* The longest prompt there is.
LEMMA LongestPromptIs ==
    /\ LongestPrompt \in Nat
    /\ \A id \in 0..(MaxStreams - 1) : Len(VoiceOf(id)) + Len(TextOf(id)) <= LongestPrompt
  <1> DEFINE size == [id \in 0..(MaxStreams - 1) |-> Len(VoiceOf(id)) + Len(TextOf(id))]
             Longest(m, n) == /\ \E id \in 0..m : n = size[id]
                              /\ \A id \in 0..m : size[id] <= n
             T == {m \in Nat : m <= MaxStreams - 1 => \E n \in Nat : Longest(m, n)}
             last == MaxStreams - 1
  <1>0. MaxStreams \in Nat /\ MaxStreams # 0 /\ last \in Nat
    BY MaxStreamsAssumption, RenderingAssumption DEF MaxStreamsAssumption, RenderingAssumption
  <1>1. \A id \in 0..last : size[id] \in Nat
    <2>1. \A id \in 0..last : VoiceOf(id) \in Seq(Int) /\ TextOf(id) \in Seq(Int)
      BY RenderingAssumption DEF RenderingAssumption
    <2>2. \A id \in 0..last : Len(VoiceOf(id)) \in Nat /\ Len(TextOf(id)) \in Nat
      BY <2>1
    <2> QED
      BY <2>2
  <1>2. \A id \in 0..last : size[id] = Len(VoiceOf(id)) + Len(TextOf(id))
    OBVIOUS
  <1> HIDE DEF size
  <1>3. 0 \in T
    <2>1. 0 \in 0..last /\ \A id \in 0..0 : id = 0
      BY <1>0
    <2>2. Longest(0, size[0]) /\ size[0] \in Nat
      BY <1>1, <2>1
    <2> HIDE DEF Longest
    <2> QED
      BY <2>2
  <1>4. ASSUME NEW m \in T PROVE m + 1 \in T
    <2> SUFFICES ASSUME m + 1 <= last PROVE \E n \in Nat : Longest(m + 1, n)
      BY <1>0
    <2>1. m \in Nat /\ m <= last /\ m + 1 \in 0..last
      BY <1>0, <1>4
    <2>2. PICK n \in Nat : Longest(m, n)
      BY <1>4, <2>1
    <2>3. \A id \in 0..(m + 1) : id \in 0..m \/ id = m + 1
      BY <2>1
    <2>4. 0..m \subseteq 0..(m + 1) /\ m + 1 \in 0..(m + 1) /\ \A id \in 0..m : id \in 0..last
      BY <1>0, <2>1
    <2> DEFINE new == size[m + 1]
    <2>5. new \in Nat
      BY <1>1, <2>1
    <2>6. CASE new <= n
      <3>1. Longest(m + 1, n)
        BY <2>2, <2>3, <2>4, <2>6
      <3> QED
        BY <3>1
    <2>7. CASE n < new
      <3>1. \A id \in 0..m : size[id] <= new
        BY <1>1, <2>2, <2>4, <2>5, <2>7
      <3>2. Longest(m + 1, new)
        BY <2>3, <2>4, <2>5, <3>1
      <3> QED
        BY <2>5, <3>2
    <2> QED
      BY <2>5, <2>6, <2>7
  <1>5. T \subseteq Nat
    OBVIOUS
  <1>6. PICK n \in Nat : Longest(last, n)
    <2> HIDE DEF T
    <2>1. last \in T
      BY <1>0, <1>3, <1>4, <1>5, Induct
    <2> QED
      BY <1>0, <2>1 DEF T
  <1> DEFINE Sizes == {Len(VoiceOf(id)) + Len(TextOf(id)) : id \in 0..(MaxStreams - 1)}
  <1>7. \E k \in Sizes : \A id \in 0..last : Len(VoiceOf(id)) + Len(TextOf(id)) <= k
    <2>1. PICK id \in 0..last : n = size[id]
      BY <1>6
    <2>2. n \in Sizes
      BY <1>2, <2>1
    <2> QED
      BY <1>2, <1>6, <2>2
  <1>8. /\ LongestPrompt \in Sizes
        /\ \A id \in 0..last : Len(VoiceOf(id)) + Len(TextOf(id)) <= LongestPrompt
    BY <1>7 DEF LongestPrompt
  <1>9. Sizes \subseteq Nat
    BY <1>1, <1>2
  <1> QED
    BY <1>8, <1>9

LEMMA PromptedIs ==
    ASSUME Numbers, NEW id \in 0..(MaxStreams - 1)
    PROVE  /\ GoodCaches(Prompted(id))
           /\ \A l \in 1..Layers :
                /\ Prompted(id)[l] \in Linear
                /\ KeptKeys(Prompted(id)[l]) \in Seq(Cell)
                /\ Len(KeptKeys(Prompted(id)[l])) <= LongestPrompt
                /\ Prompted(id)[l].pos \in Nat
  <1> DEFINE v == VoiceState(id)
             xs == TextOf(id)
             p == Prompted(id)
  <1>1. xs \in Seq(Int) /\ xs # <<>> /\ Len(VoiceOf(id)) \in Nat /\ Len(xs) \in Nat
    <2>1. xs \in Seq(Int) /\ xs # <<>> /\ VoiceOf(id) \in Seq(Int)
      BY RenderingAssumption DEF RenderingAssumption
    <2> QED
      BY <2>1
  <1>2. GoodCaches(v) /\ \A l \in 1..Layers : v[l].len <= Len(VoiceOf(id))
    BY VoiceGood
  <1>3. p = Forwarded(FlowLM, v, xs).caches
    BY DEF Prompted
  <1> HIDE DEF v, xs, p
  <1>4. GoodCaches(p) /\ \A l \in 1..Layers : p[l].len = v[l].len + Len(xs)
    BY <1>1, <1>2, <1>3, ForwardedGood
  <1>5. \A l \in 1..Layers : p[l] \in Linear /\ v[l] \in Linear
    BY <1>2, <1>4 DEF GoodCaches
  <1>6. ASSUME NEW l \in 1..Layers
        PROVE  /\ KeptKeys(p[l]) \in Seq(Cell) /\ Len(KeptKeys(p[l])) <= LongestPrompt
               /\ p[l].pos \in Nat
    <2>1. p[l].pos \in Nat /\ v[l].len \in Nat
      BY <1>5 DEF Linear
    <2>2. KeptKeys(p[l]) \in Seq(Cell) /\ Len(KeptKeys(p[l])) = v[l].len + Len(xs)
      BY <1>4, <1>5, KeptIs
    <2>3. v[l].len + Len(xs) <= LongestPrompt
      <3>1. Len(VoiceOf(id)) + Len(xs) <= LongestPrompt /\ LongestPrompt \in Nat
        BY LongestPromptIs DEF xs
      <3> QED
        BY <1>1, <1>2, <2>1, <3>1
    <2> QED
      BY <2>1, <2>2, <2>3
  <1> QED
    BY <1>4, <1>5, <1>6 DEF p

\* One frame more of a text read alone.
AloneStep(id, n, s) ==
    OneFrameMore(s.latents, Noise(id, n - 1),
                 Forwarded(FlowLM, s.caches, <<NextInput(s.latents)>>))

AloneState(n, s) ==
    /\ s = [caches |-> s.caches, latents |-> s.latents]
    /\ GoodCaches(s.caches) /\ s.latents \in Seq(Int) /\ Len(s.latents) = n

LEMMA NextInputIs ==
    /\ NextInput(<<>>) = BosEmb /\ BosEmb \in Int
    /\ \A s \in Seq(Int) : NextInput(s) \in Int
    /\ \A s \in Seq(Int), x \in Int : NextInput(Append(s, x)) = x
  <1>1. BosEmb \in Int
    BY RenderingAssumption DEF RenderingAssumption
  <1>2. ASSUME NEW s \in Seq(Int) PROVE NextInput(s) \in Int
    <2>1. s # <<>> => Len(s) \in 1..Len(s) /\ s[Len(s)] \in Int
      OBVIOUS
    <2> QED
      BY <1>1, <2>1 DEF NextInput
  <1>3. ASSUME NEW s \in Seq(Int), NEW x \in Int PROVE NextInput(Append(s, x)) = x
    <2>1. Append(s, x) # <<>> /\ Append(s, x)[Len(Append(s, x))] = x
      OBVIOUS
    <2> QED
      BY <2>1 DEF NextInput
  <1> QED
    BY <1>1, <1>2, <1>3 DEF NextInput

LEMMA AloneStepIs ==
    ASSUME Numbers, NEW id \in Nat, NEW n \in Nat \ {0}, NEW s, AloneState(n - 1, s)
    PROVE  AloneState(n, AloneStep(id, n, s))
  <1> DEFINE x == NextInput(s.latents)
             fwd == Forwarded(FlowLM, s.caches, <<x>>)
             noise == Noise(id, n - 1)
             next == NextLatents(fwd.xs, <<noise>>)[1]
             out == AloneStep(id, n, s)
  <1>0. GoodCaches(s.caches) /\ s.latents \in Seq(Int) /\ Len(s.latents) = n - 1
    BY DEF AloneState
  <1>1. x \in Int
    BY <1>0, NextInputIs
  <1>2. noise \in Int
    <2>1. n - 1 \in Nat
      OBVIOUS
    <2> QED
      BY <2>1 DEF Numbers
  <1> HIDE DEF x, noise
  <1>3. GoodCaches(fwd.caches) /\ fwd.xs \in Seq(Int) /\ Len(fwd.xs) = 1
    <2>1. <<x>> \in Seq(Int) /\ <<x>> # <<>> /\ Len(<<x>>) = 1
      BY <1>1
    <2> QED
      BY <1>0, <2>1, ForwardedGood
  <1>4. out = [caches |-> fwd.caches, latents |-> Append(s.latents, next)]
    BY DEF AloneStep, OneFrameMore, x, noise
  <1> HIDE DEF fwd
  <1>5. next \in Int
    <2> DEFINE noises == <<noise>>
    <2>1. noises \in [1..1 -> Int] /\ Len(fwd.xs) = 1 /\ 1 \in 1..Len(fwd.xs)
      BY <1>2, <1>3
    <2> HIDE DEF noises
    <2>2. noises \in [1..Len(fwd.xs) -> Int]
      BY <2>1
    <2>3. NextLatents(fwd.xs, noises) \in [1..Len(fwd.xs) -> Int]
      BY <1>3, <2>1, <2>2, LatentAlone
    <2> QED
      BY <2>1, <2>3 DEF noises
  <1> HIDE DEF next, out
  <1>6. /\ out.caches = fwd.caches /\ out.latents = Append(s.latents, next)
        /\ out = [caches |-> out.caches, latents |-> out.latents]
    BY <1>4
  <1>7. Append(s.latents, next) \in Seq(Int) /\ Len(Append(s.latents, next)) = n
    BY <1>0, <1>5
  <1> QED
    BY <1>3, <1>6, <1>7 DEF AloneState, out

AloneRun(id) ==
    CHOOSE f : f = [n \in 0..MaxGenLen |->
                      IF n = 0 THEN [caches |-> Prompted(id), latents |-> <<>>]
                      ELSE OneFrameMore(f[n - 1].latents, Noise(id, n - 1),
                                        Forwarded(FlowLM, f[n - 1].caches,
                                                  <<NextInput(f[n - 1].latents)>>))]

LEMMA AloneIs ==
    ASSUME Numbers, NEW id \in 0..(MaxStreams - 1)
    PROVE  /\ Alone[id][0] = [caches |-> Prompted(id), latents |-> <<>>]
           /\ \A n \in 1..MaxGenLen : Alone[id][n] = AloneStep(id, n, Alone[id][n - 1])
           /\ \A n \in 0..MaxGenLen : AloneState(n, Alone[id][n])
  <1> DEFINE last == MaxGenLen
             All == [caches : Seq(Linear), latents : Seq(Int)]
             v == [caches |-> Prompted(id), latents |-> <<>>]
             S == [n \in 0..last |-> {s \in All : AloneState(n, s)}]
             G == [q \in (1..last) \X All |-> AloneStep(id, q[1], q[2])]
             f == AloneRun(id)
  <1>0. last \in Nat /\ id \in Nat
    BY BatchAssumption, MaxStreamsAssumption DEF BatchAssumption, MaxStreamsAssumption
  <1>1. \A n \in 0..last : \A s : AloneState(n, s) => s \in All
    BY DEF AloneState, GoodCaches
  <1>2. AloneState(0, v)
    <2>1. GoodCaches(Prompted(id)) /\ <<>> \in Seq(Int) /\ Len(<<>>) = 0
      BY PromptedIs
    <2>2. v.caches = Prompted(id) /\ v.latents = <<>> /\ v = [caches |-> v.caches, latents |-> v.latents]
      OBVIOUS
    <2> HIDE DEF v
    <2> QED
      BY <2>1, <2>2 DEF AloneState
  <1> HIDE DEF All, v
  <1>3. v \in S[0]
    BY <1>0, <1>1, <1>2
  <1>4. ASSUME NEW n \in 1..last, NEW s \in S[n - 1]
        PROVE  G[<<n, s>>] \in S[n] /\ G[<<n, s>>] = AloneStep(id, n, s)
    <2>1. n - 1 \in 0..last /\ n \in 0..last /\ n \in Nat \ {0}
      BY <1>0
    <2>2. s \in All /\ AloneState(n - 1, s)
      BY <2>1
    <2>3. AloneState(n, AloneStep(id, n, s))
      BY <1>0, <2>1, <2>2, AloneStepIs
    <2>4. G[<<n, s>>] = AloneStep(id, n, s)
      BY <2>2
    <2> QED
      BY <1>1, <2>1, <2>3, <2>4
  <1> HIDE DEF S, G
  <1>6. PICK g : Solves(last, S, v, G, g)
    <2>1. StaysIn(last, S, G)
      BY <1>4 DEF StaysIn
    <2> QED
      BY <1>0, <1>3, <2>1, RecursionExists
  <1>7. g = [n \in 0..last |-> IF n = 0 THEN v ELSE AloneStep(id, n, g[n - 1])]
    <2>1. ASSUME NEW n \in 1..last PROVE g[n] = AloneStep(id, n, g[n - 1])
      <3>1. n - 1 \in 0..last
        BY <1>0
      <3> QED
        BY <1>4, <1>6, <3>1 DEF Solves
    <2>2. \A n \in 0..last : n # 0 => n \in 1..last
      BY <1>0
    <2>3. \A n \in 0..last : g[n] = IF n = 0 THEN v ELSE AloneStep(id, n, g[n - 1])
      BY <1>6, <2>1, <2>2 DEF Solves
    <2> QED
      BY <1>6, <2>3 DEF Solves
  <1>8. f = [n \in 0..last |-> IF n = 0 THEN v ELSE AloneStep(id, n, f[n - 1])]
    BY <1>7 DEF AloneRun, AloneStep, v
  <1> HIDE DEF f
  <1>9. f[0] = v /\ \A n \in 1..last : f[n] = AloneStep(id, n, f[n - 1])
    <2>1. 0 \in 0..last /\ \A n \in 1..last : n \in 0..last /\ n # 0
      BY <1>0
    <2>2. \A n \in 0..last : f[n] = IF n = 0 THEN v ELSE AloneStep(id, n, f[n - 1])
      BY <1>8, Zenon
    <2> QED
      BY <2>1, <2>2
  <1>10. \A n \in 0..last : f[n] \in S[n]
    <2>1. f[0] \in S[0]
      BY <1>3, <1>9
    <2>2. \A n \in 1..last : f[n - 1] \in S[n - 1] => f[n] \in S[n]
      BY <1>4, <1>9
    <2> QED
      BY <1>0, <2>1, <2>2, RecursionStays
  <1>11. \A n \in 0..last : AloneState(n, f[n])
    BY <1>10 DEF S
  <1>12. Alone[id] = f
    BY DEF Alone, AloneRun, f
  <1> QED
    BY <1>9, <1>11, <1>12 DEF v

\* add_row: where the rows are.
LEMMA AddedFields ==
    ASSUME NEW c, GoodStack(c), NEW cells \in Seq(Cell), NEW start \in Nat
    PROVE  /\ Rows(RowAdded(c, cells, start)) = Rows(c) + 1
           /\ RowAdded(c, cells, start).cur = Greater(c.cur, Len(cells))
           /\ \A i \in 1..Rows(c) : RowAdded(c, cells, start).pos[i] = c.pos[i]
           /\ RowAdded(c, cells, start).pos[Rows(c) + 1] = start
  <1> DEFINE d == RowAdded(c, cells, start)
  <1>1. /\ c.len \in Seq(Nat) /\ c.pos \in Seq(Nat)
        /\ Len(c.len) = Rows(c) /\ Len(c.pos) = Rows(c) /\ Rows(c) \in Nat
    BY GoodFields, GoodIsStack DEF Rows
  <1>2. /\ d.cur = Greater(c.cur, Len(cells)) /\ d.len = Append(c.len, Len(cells))
        /\ d.pos = Append(c.pos, start)
    BY DEF RowAdded, ColumnFor
  <1> HIDE DEF d
  <1>3. Rows(d) = Rows(c) + 1
    BY <1>1, <1>2 DEF Rows
  <1>4. /\ \A i \in 1..Rows(c) : d.pos[i] = c.pos[i]
        /\ d.pos[Rows(c) + 1] = start
    BY <1>1, <1>2
  <1> QED
    BY <1>2, <1>3, <1>4 DEF d

-----------------------------------------------------------------------------
(* What the batcher renders is what the batcher does *)

\* Every step of the rendering is one of the batcher, or a stutter.
LEMMA BatcherSteps == [RenderNext]_renderVars => [BatchNext]_batchVars
<1>1. RenderNext => BatchNext
  <2>1. AddReading => Add
    BY DEF AddReading
  <2>2. AddReadingFails => AddFails
    BY DEF AddReadingFails, AddFails
  <2>3. RemoveReading => Remove
    <3> SUFFICES ASSUME RemoveReading PROVE Remove
      OBVIOUS
    <3>1. PICK id \in 0..(batch.next - 1) : batch' = Removed(batch, id)
      BY DEF RemoveReading
    <3>2. UNCHANGED faults
      BY DEF RemoveReading
    <3> QED
      BY <3>1, <3>2 DEF Remove
  <2>4. StepAll => Step
    BY DEF StepAll
  <2>5. StepAllFails => StepFails
    <3> SUFFICES ASSUME StepAllFails PROVE StepFails
      OBVIOUS
    <3>1. /\ Ids(batch) # {} /\ CanFail("step") /\ faults' = faults + 1
          /\ \/ batch' = StepFailed(batch, {}, {})
             \/ \E moved \in SUBSET Ids(batch) : \E eos \in SUBSET moved :
                  batch' = StepFailed(batch, moved, eos)
      BY DEF StepAllFails
    <3>2. {} \in SUBSET Ids(batch) /\ {} \in SUBSET {}
      OBVIOUS
    <3> QED
      BY <3>1, <3>2 DEF StepFails
  <2> SUFFICES ASSUME RenderNext PROVE BatchNext
    OBVIOUS
  <2>6. AddReading \/ AddReadingFails \/ RemoveReading \/ StepAll \/ StepAllFails
    BY DEF RenderNext
  <2>7. Add \/ AddFails \/ Remove \/ Step \/ StepFails
    BY <2>1, <2>2, <2>3, <2>4, <2>5, <2>6
  <2> QED
    BY <2>7 DEF BatchNext
<1>2. UNCHANGED renderVars => UNCHANGED batchVars
  BY DEF renderVars
<1> QED
  BY <1>1, <1>2

\* The batcher with its numbers (add, remove and step of batch.rs with the caches
\* and tensors they move) is the batcher without: every step is one of Batcher's,
\* or a stutter, so what is proved of streams and rows holds with the numbers.
THEOREM RenderingIsBatching == RenderSpec => BatchSpec
<1>1. RenderInit => BatchInit
  BY DEF RenderInit
<1> QED
  BY <1>1, BatcherSteps, PTL DEF RenderSpec, BatchSpec

-----------------------------------------------------------------------------
(* The stacks and the batch *)

Bounded(stacks, rows, n) ==
    /\ stacks = [l \in 1..Layers |-> stacks[l]]
    /\ \A l \in 1..Layers :
         /\ GoodStack(stacks[l]) /\ Rows(stacks[l]) = rows[l]
         /\ stacks[l].cur <= LongestPrompt + n

\* What every step keeps of the caches, whatever fails.
KvInv ==
    /\ GoodBatch(batch) /\ batch.next <= MaxStreams
    /\ pushes \in Nat /\ Bounded(kv, batch.rows, pushes)
    /\ DOMAIN reading = Ids(batch)
    /\ \A id \in Ids(batch) : reading[id].input \in Int

\* Row i is the row of a text alone, with the same input to go on from.
Tracks(x, stacks, i, alone) ==
    x = NextInput(alone.latents) /\ AllAlone(stacks, i, alone.caches)

\* And while no failed addition has left a row behind.
AloneInv ==
    /\ Aligned(batch)
    /\ \A id \in Sound :
         /\ batch.streams[id].step < MaxGenLen
         /\ Tracks(reading[id].input, kv, IndexOf(Ids(batch), id),
                   Alone[id][batch.streams[id].step])

\* RowsAdded, layer by layer.
AddedGives(id, n, d) ==
    /\ d = [l \in 1..Layers |-> d[l]]
    /\ \A l \in 1..Layers :
         /\ GoodStack(d[l]) /\ d[l].cur <= LongestPrompt + pushes
         /\ Rows(d[l]) = batch.rows[l] + (IF l <= n THEN 1 ELSE 0)
         /\ ~ (l <= n) => d[l] = kv[l]
         /\ l <= n =>
              /\ \A i \in 1..batch.rows[l] :
                   RowOf(d[l], i) = RowOf(kv[l], i) /\ d[l].pos[i] = kv[l].pos[i]
              /\ RowIsAlone(d[l], batch.rows[l] + 1, Prompted(id)[l])

LEMMA AddedRows ==
    ASSUME Numbers, KvInv, NEW id \in 0..(MaxStreams - 1), NEW n \in Nat
    PROVE  AddedGives(id, n, RowsAdded(Prompted(id), n))
  <1> DEFINE p == Prompted(id)
             d == RowsAdded(p, n)
  <1>1. d = [l \in 1..Layers |-> IF l <= n THEN RowAdded(kv[l], KeptKeys(p[l]), p[l].pos) ELSE kv[l]]
    BY DEF RowsAdded
  <1>2. d = [l \in 1..Layers |-> d[l]]
    BY <1>1
  <1> HIDE DEF d
  <1>3. pushes \in Nat /\ LongestPrompt \in Nat
    BY LongestPromptIs DEF KvInv
  <1>4. \A l \in 1..Layers : /\ KeptKeys(p[l]) \in Seq(Cell) /\ p[l].pos \in Nat
                             /\ Len(KeptKeys(p[l])) <= LongestPrompt
    BY PromptedIs
  <1> HIDE DEF p
  <1>5. ASSUME NEW l \in 1..Layers
        PROVE  /\ GoodStack(d[l]) /\ d[l].cur <= LongestPrompt + pushes
               /\ Rows(d[l]) = batch.rows[l] + (IF l <= n THEN 1 ELSE 0)
               /\ ~ (l <= n) => d[l] = kv[l]
               /\ l <= n =>
                    /\ \A i \in 1..batch.rows[l] :
                         RowOf(d[l], i) = RowOf(kv[l], i) /\ d[l].pos[i] = kv[l].pos[i]
                    /\ RowIsAlone(d[l], batch.rows[l] + 1, p[l])
    <2> DEFINE c == kv[l]
               cells == KeptKeys(p[l])
               start == p[l].pos
    <2>1. GoodStack(c) /\ Rows(c) = batch.rows[l] /\ c.cur <= LongestPrompt + pushes
      BY DEF KvInv, Bounded
    <2>2. cells \in Seq(Cell) /\ start \in Nat /\ Len(cells) <= LongestPrompt /\ Len(cells) \in Nat
      BY <1>4
    <2>3. Rows(c) \in Nat /\ c.cur \in Nat
      BY <2>1, GoodIsStack, GoodFields
    <2>4. CASE l <= n
      <3>1. d[l] = RowAdded(c, cells, start)
        BY <1>1, <2>4
      <3> HIDE DEF c, cells, start
      <3>2. /\ GoodStack(d[l])
            /\ \A i \in 1..Rows(c) : RowOf(d[l], i) = RowOf(c, i)
            /\ RowOf(d[l], Rows(c) + 1) = cells
        BY <2>1, <2>2, <3>1, AddRowKeepsRows
      <3>3. /\ Rows(d[l]) = Rows(c) + 1 /\ d[l].cur = Greater(c.cur, Len(cells))
            /\ \A i \in 1..Rows(c) : d[l].pos[i] = c.pos[i]
            /\ d[l].pos[Rows(c) + 1] = start
        BY <2>1, <2>2, <3>1, AddedFields
      <3>4. d[l].cur <= LongestPrompt + pushes
        BY <1>3, <2>1, <2>2, <2>3, <3>3 DEF Greater
      <3> QED
        BY <2>1, <2>4, <3>2, <3>3, <3>4 DEF RowIsAlone, c, cells, start
    <2>5. CASE ~ (l <= n)
      <3>1. d[l] = c
        BY <1>1, <2>5
      <3>2. batch.rows[l] + 0 = batch.rows[l]
        BY <2>1, <2>3
      <3> QED
        BY <2>1, <2>5, <3>1, <3>2
    <2> QED
      BY <2>4, <2>5
  <1>6. AddedGives(id, n, d)
    BY <1>2, <1>5 DEF p, AddedGives
  <1> QED
    BY <1>6 DEF d, p

InputsOf(ids) == [i \in DOMAIN InOrder(ids) |-> reading[InOrder(ids)[i]].input]

\* A stack for every stream, and an input for every stack.
LEMMA BeforeAFrame ==
    ASSUME KvInv, Aligned(batch)
    PROVE  /\ IsFiniteSet(Ids(batch)) /\ Ids(batch) \subseteq Nat
           /\ Cardinality(Ids(batch)) \in Nat
           /\ GoodStacks(kv, Cardinality(Ids(batch))) /\ kv = [l \in 1..Layers |-> kv[l]]
           /\ InputsOf(Ids(batch)) \in Seq(Int)
           /\ Len(InputsOf(Ids(batch))) = Cardinality(Ids(batch))
           /\ \A id \in Ids(batch) :
                InputsOf(Ids(batch))[IndexOf(Ids(batch), id)] = reading[id].input
  <1> DEFINE ids == Ids(batch)
             N == Cardinality(ids)
             order == InOrder(ids)
             xs == InputsOf(ids)
  <1>1. IsFiniteSet(ids) /\ N \in Nat /\ ids \subseteq Nat
    BY IdsFinite DEF KvInv, GoodBatch
  <1>2. GoodStacks(kv, N) /\ kv = [l \in 1..Layers |-> kv[l]]
    <2>1. /\ kv = [l \in 1..Layers |-> kv[l]]
          /\ \A l \in 1..Layers : GoodStack(kv[l]) /\ Rows(kv[l]) = batch.rows[l]
      BY DEF KvInv, Bounded
    <2>2. \A l \in 1..Layers : batch.rows[l] = N
      BY DEF Aligned
    <2> QED
      BY <2>1, <2>2 DEF GoodStacks
  <1>3. \A id \in ids : reading[id].input \in Int
    BY DEF KvInv
  <1> HIDE DEF ids
  <1>4. /\ DOMAIN order = 1..N
        /\ \A id \in ids : order[IndexOf(ids, id)] = id
        /\ \A p \in 1..N : order[p] \in ids
    BY <1>1, InOrderIs
  <1> HIDE DEF order
  <1>5. xs = [i \in 1..N |-> reading[order[i]].input]
    BY <1>4 DEF InputsOf, order
  <1>6. \A i \in 1..N : xs[i] = reading[order[i]].input /\ xs[i] \in Int
    BY <1>3, <1>4, <1>5
  <1>7. xs \in Seq(Int) /\ Len(xs) = N
    <2>1. xs = [i \in 1..N |-> xs[i]]
      BY <1>5
    <2> HIDE DEF xs, N
    <2> QED
      BY <1>1, <1>6, <2>1, FunctionIsSeq
  <1>8. \A id \in ids : xs[IndexOf(ids, id)] = reading[id].input
    <2>1. \A id \in ids : IndexOf(ids, id) \in 1..N
      BY <1>1, IndexType
    <2> QED
      BY <1>4, <1>6, <2>1
  <1> QED
    BY <1>1, <1>2, <1>7, <1>8 DEF ids

\* Through n layers: what StepAll and StepAllFails leave in the caches.
LEMMA FramesAre ==
    ASSUME Numbers, KvInv, Aligned(batch), NEW n \in 0..Layers
    PROVE  /\ Stacked(kv, Cardinality(Ids(batch)), n, FramesOf(Ids(batch), n))
           /\ FramesOf(Ids(batch), n)
                = StacksForwarded(FlowLM, kv, InputsOf(Ids(batch)), n)
           /\ Bounded(FramesOf(Ids(batch), n).caches, batch.rows, pushes + 1)
  <1> DEFINE ids == Ids(batch)
             N == Cardinality(ids)
             xs == InputsOf(ids)
             out == FramesOf(ids, n)
  <1>1. /\ N \in Nat /\ GoodStacks(kv, N) /\ kv = [l \in 1..Layers |-> kv[l]]
        /\ xs \in Seq(Int) /\ Len(xs) = N
    BY BeforeAFrame
  <1>2. out = StacksForwarded(FlowLM, kv, xs, n)
    BY DEF FramesOf, InputsOf
  <1>3. n \in 0..n
    BY BatchAssumption DEF BatchAssumption
  <1> HIDE DEF out, xs, N
  <1>4. StackRuns(kv, xs, n, StackRun(kv, xs, n))
    BY <1>1, StackRunIs
  <1>5. Stacked(kv, N, n, out)
    BY <1>1, <1>2, <1>3, <1>4, StacksForwardedIs DEF StackRuns
  <1>6. pushes \in Nat /\ LongestPrompt \in Nat
    BY LongestPromptIs DEF KvInv
  <1>7. ASSUME NEW l \in 1..Layers
        PROVE  /\ GoodStack(out.caches[l]) /\ Rows(out.caches[l]) = batch.rows[l]
               /\ out.caches[l].cur <= LongestPrompt + (pushes + 1)
    <2>1. GoodStack(kv[l]) /\ Rows(kv[l]) = batch.rows[l] /\ kv[l].cur <= LongestPrompt + pushes
      BY DEF KvInv, Bounded
    <2>2. kv[l].cur \in Nat
      BY <2>1, GoodFields
    <2>3. OneMore(kv[l], out.caches[l]) \/ out.caches[l] = kv[l]
      BY <1>5 DEF Stacked
    <2>4. CASE OneMore(kv[l], out.caches[l])
      BY <1>6, <2>1, <2>2, <2>4 DEF OneMore
    <2>5. CASE out.caches[l] = kv[l]
      BY <1>6, <2>1, <2>2, <2>5
    <2> QED
      BY <2>3, <2>4, <2>5
  <1>8. Bounded(out.caches, batch.rows, pushes + 1)
    BY <1>5, <1>7 DEF Bounded, Stacked
  <1> QED
    BY <1>2, <1>5, <1>8 DEF out, xs, N

\* The latent of every row, and of the same text alone.
LEMMA LatentsAre ==
    ASSUME Numbers, KvInv, Ids(batch) # {},
           NEW hidden \in Seq(Int), Len(hidden) = Cardinality(Ids(batch))
    PROVE  /\ \A id \in Ids(batch) : LatentsOf(Ids(batch), hidden)[IndexOf(Ids(batch), id)] \in Int
           /\ \A id \in Ids(batch) : \A one \in Seq(Int) :
                (Len(one) = 1 /\ one[1] = hidden[IndexOf(Ids(batch), id)]) =>
                  LatentsOf(Ids(batch), hidden)[IndexOf(Ids(batch), id)]
                    = NextLatents(one, <<Noise(id, batch.streams[id].step)>>)[1]
  <1> DEFINE ids == Ids(batch)
             N == Cardinality(ids)
             order == InOrder(ids)
             noise == [i \in DOMAIN order |-> Noise(order[i], batch.streams[order[i]].step)]
             latents == LatentsOf(ids, hidden)
  <1>1. IsFiniteSet(ids) /\ N \in Nat /\ ids \subseteq Nat
    BY IdsFinite DEF KvInv, GoodBatch
  <1>2. \A id \in ids : batch.streams[id].step \in Nat
    <2>1. batch.streams \in [ids -> Stream]
      BY DEF KvInv, GoodBatch, IsBatch
    <2> QED
      BY <2>1 DEF Stream
  <1>3. latents = NextLatents(hidden, noise)
    BY DEF LatentsOf
  <1> HIDE DEF ids
  <1>4. /\ DOMAIN order = 1..N
        /\ \A id \in ids : order[IndexOf(ids, id)] = id
        /\ \A p \in 1..N : order[p] \in ids
    BY <1>1, InOrderIs
  <1> HIDE DEF order
  <1>5. \A i \in 1..N : noise[i] = Noise(order[i], batch.streams[order[i]].step)
    BY <1>4
  <1>6. noise \in [1..N -> Int]
    <2>1. \A i \in 1..N : Noise(order[i], batch.streams[order[i]].step) \in Int
      BY <1>1, <1>2, <1>4 DEF Numbers
    <2> QED
      BY <1>4, <2>1
  <1> HIDE DEF noise, latents
  <1>7. Len(hidden) = N
    BY DEF ids
  <1>8. ASSUME NEW id \in ids, NEW one \in Seq(Int), Len(one) = 1, one[1] = hidden[IndexOf(ids, id)]
        PROVE  /\ latents[IndexOf(ids, id)] \in Int
               /\ latents[IndexOf(ids, id)] = NextLatents(one, <<Noise(id, batch.streams[id].step)>>)[1]
    <2> DEFINE i == IndexOf(ids, id)
    <2>1. i \in 1..N
      BY <1>1, IndexType
    <2>2. noise[i] = Noise(id, batch.streams[id].step)
      BY <1>4, <1>5, <2>1
    <2>3. one[1] = hidden[i]
      BY <1>8
    <2> HIDE DEF i, N
    <2>4. /\ latents \in [1..N -> Int]
          /\ latents[i] = NextLatents(one, <<noise[i]>>)[1]
      BY <1>3, <1>6, <1>7, <1>8, <2>1, <2>3, LatentAlone
    <2> QED
      BY <2>1, <2>2, <2>4 DEF i
  <1>9. ASSUME NEW id \in ids PROVE latents[IndexOf(ids, id)] \in Int
    <2> DEFINE x == hidden[IndexOf(ids, id)]
    <2>1. x \in Int
      <3>1. IndexOf(ids, id) \in 1..N
        BY <1>1, IndexType
      <3> QED
        BY <1>7, <3>1
    <2> HIDE DEF x
    <2>2. <<x>> \in Seq(Int) /\ Len(<<x>>) = 1 /\ <<x>>[1] = x
      BY <2>1
    <2> QED
      BY <1>8, <2>2 DEF x
  <1> QED
    BY <1>8, <1>9 DEF ids, latents

\* The rows of some streams go from stacks that have one for every stream.
RemovalGives(stacks, rows, n, ids, left, d) ==
    /\ d = [l \in 1..Layers |-> d[l]]
    /\ \A l \in 1..Layers :
         /\ GoodStack(d[l]) /\ d[l].cur <= LongestPrompt + n
         /\ Rows(d[l]) = rows[l] - (Cardinality(ids) - Cardinality(left))
    /\ \A id \in left : \A caches :
         AllAlone(stacks, IndexOf(ids, id), caches) => AllAlone(d, IndexOf(left, id), caches)

LEMMA AfterRemoval ==
    ASSUME NEW stacks, NEW rows, NEW n, Bounded(stacks, rows, n),
           NEW ids, IsFiniteSet(ids), ids \subseteq Nat,
           \A l \in 1..Layers : Cardinality(ids) <= rows[l],
           NEW gone \in SUBSET ids
    PROVE  RemovalGives(stacks, rows, n, ids, ids \ gone, RowsRemoved(stacks, ids, gone))
  <1> DEFINE left == ids \ gone
             d == RowsRemoved(stacks, ids, gone)
  <1>1. d = [l \in 1..Layers |-> d[l]]
    BY DEF RowsRemoved
  <1>2. ASSUME NEW l \in 1..Layers PROVE Keeps(stacks[l], ids, d[l], left)
    <2>1. GoodStack(stacks[l]) /\ Rows(stacks[l]) = rows[l]
      BY DEF Bounded
    <2>2. Cardinality(ids) <= Rows(stacks[l])
      BY <2>1
    <2> QED
      BY <2>1, <2>2, RowsRemovedKeep
  <1>3. ASSUME NEW l \in 1..Layers
        PROVE  /\ GoodStack(d[l]) /\ d[l].cur <= LongestPrompt + n
               /\ Rows(d[l]) = rows[l] - (Cardinality(ids) - Cardinality(left))
    BY <1>2 DEF Keeps, Bounded
  <1>4. ASSUME NEW id \in left, NEW caches, AllAlone(stacks, IndexOf(ids, id), caches)
        PROVE  AllAlone(d, IndexOf(left, id), caches)
    <2> SUFFICES ASSUME NEW l \in 1..Layers PROVE RowIsAlone(d[l], IndexOf(left, id), caches[l])
      BY DEF AllAlone
    <2>1. RowIsAlone(stacks[l], IndexOf(ids, id), caches[l])
      BY <1>4 DEF AllAlone
    <2>2. /\ RowOf(d[l], IndexOf(left, id)) = RowOf(stacks[l], IndexOf(ids, id))
          /\ d[l].pos[IndexOf(left, id)] = stacks[l].pos[IndexOf(ids, id)]
      BY <1>2 DEF Keeps
    <2> QED
      BY <2>1, <2>2 DEF RowIsAlone
  <1> QED
    BY <1>1, <1>3, <1>4 DEF RemovalGives

LEMMA BatchFacts ==
    ASSUME KvInv
    PROVE  /\ IsFiniteSet(Ids(batch)) /\ Ids(batch) \subseteq Nat
           /\ Cardinality(Ids(batch)) \in Nat
           /\ Ids(batch) \subseteq 0..(MaxStreams - 1)
           /\ \A id \in Ids(batch) : id < batch.next /\ batch.streams[id] \in Stream
                                     /\ batch.streams[id].step \in Nat
           /\ \A l \in 1..Layers : /\ batch.rows[l] \in Nat
                                   /\ Cardinality(Ids(batch)) <= batch.rows[l]
           /\ batch.next \in Nat /\ batch.next \notin Ids(batch)
           /\ MaxStreams \in Nat /\ Layers \in Nat
  <1>0. MaxStreams \in Nat /\ Layers \in Nat
    BY MaxStreamsAssumption, BatchAssumption DEF MaxStreamsAssumption, BatchAssumption
  <1>1. IsBatch(batch) /\ RowsSuffice(batch) /\ batch.next <= MaxStreams
    BY DEF KvInv, GoodBatch
  <1>2. /\ IsFiniteSet(Ids(batch)) /\ Cardinality(Ids(batch)) \in Nat
        /\ batch.next \notin Ids(batch) /\ Ids(batch) \subseteq Nat
    BY <1>1, IdsFinite
  <1>3. /\ batch.next \in Nat /\ Ids(batch) \subseteq 0..(batch.next - 1)
        /\ batch.streams \in [Ids(batch) -> Stream] /\ batch.rows \in [1..Layers -> Nat]
    BY <1>1 DEF IsBatch
  <1>4. \A l \in 1..Layers : batch.rows[l] \in Nat /\ Cardinality(Ids(batch)) <= batch.rows[l]
    BY <1>1, <1>2, <1>3 DEF RowsSuffice
  <1>5. \A id \in Ids(batch) : id < batch.next /\ id \in 0..(MaxStreams - 1)
    BY <1>0, <1>1, <1>3
  <1>6. \A id \in Ids(batch) : batch.streams[id] \in Stream /\ batch.streams[id].step \in Nat
    BY <1>3 DEF Stream
  <1> QED
    BY <1>0, <1>2, <1>3, <1>4, <1>5, <1>6

LEMMA StartsRight == RenderInit => KvInv /\ AloneInv
  <1> SUFFICES ASSUME RenderInit PROVE KvInv /\ AloneInv
    OBVIOUS
  <1>1. /\ batch = EmptyBatch /\ kv = [l \in 1..Layers |-> EmptyStack] /\ pushes = 0
        /\ reading = NoReadings
    BY DEF RenderInit, BatchInit
  <1>2. GoodBatch(batch) /\ Aligned(batch) /\ Ids(batch) = {}
    BY <1>1, EmptyBatchGood
  <1>3. batch.next = 0 /\ MaxStreams \in Nat /\ \A l \in 1..Layers : batch.rows[l] = 0
    BY <1>1, MaxStreamsAssumption DEF EmptyBatch, MaxStreamsAssumption
  <1>4. GoodStack(EmptyStack) /\ Rows(EmptyStack) = 0 /\ EmptyStack.cur = 0
    <2>1. /\ EmptyStack.k = <<>> /\ EmptyStack.cur = 0 /\ EmptyStack.len = <<>> /\ EmptyStack.pos = <<>>
          /\ EmptyStack = [k |-> EmptyStack.k, cur |-> EmptyStack.cur,
                           len |-> EmptyStack.len, pos |-> EmptyStack.pos]
      BY DEF EmptyStack
    <2>2. /\ <<>> \in Seq(Nat) /\ <<>> \in Seq(Seq(Cell)) /\ Len(<<>>) = 0
      OBVIOUS
    <2> QED
      BY <2>1, <2>2 DEF GoodStack, Rows
  <1>5. Bounded(kv, batch.rows, pushes)
    <2>1. LongestPrompt \in Nat
      BY LongestPromptIs
    <2>2. \A l \in 1..Layers : kv[l] = EmptyStack
      BY <1>1
    <2>3. kv = [l \in 1..Layers |-> kv[l]]
      BY <1>1
    <2> QED
      BY <1>1, <1>3, <1>4, <2>1, <2>2, <2>3 DEF Bounded
  <1>6. DOMAIN reading = {}
    BY <1>1 DEF NoReadings
  <1> QED
    BY <1>1, <1>2, <1>3, <1>5, <1>6 DEF KvInv, AloneInv, Sound

-----------------------------------------------------------------------------
LEMMA AddKeeps ==
    ASSUME Numbers, KvInv, AddReading
    PROVE  KvInv' /\ (AloneInv => AloneInv')
  <1> DEFINE ids == Ids(batch)
             new == batch.next
             N == Cardinality(ids)
  <1>1. /\ batch.next < MaxStreams /\ batch' = Added(batch)
        /\ kv' = RowsAdded(Prompted(new), Layers)
        /\ reading' = [id \in Ids(batch') |-> IF id = new THEN FreshReading ELSE reading[id]]
        /\ spoiled' = spoiled /\ pushes' = pushes
    BY DEF AddReading, Add
  <1>2. /\ IsFiniteSet(ids) /\ ids \subseteq Nat /\ N \in Nat /\ new \in Nat /\ new \notin ids
        /\ Layers \in Nat /\ MaxStreams \in Nat /\ \A id \in ids : id < new
        /\ ids \subseteq 0..(MaxStreams - 1)
        /\ \A l \in 1..Layers : batch.rows[l] \in Nat
    BY BatchFacts
  <1>3. new \in 0..(MaxStreams - 1) /\ Layers \in Nat
    BY <1>1, <1>2
  <1>4. /\ GoodBatch(batch') /\ Ids(batch') = ids \cup {new} /\ (Aligned(batch) => Aligned(batch'))
    BY <1>1, AddedGood DEF KvInv
  <1>5. /\ batch'.next = new + 1
        /\ \A l \in 1..Layers : batch'.rows[l] = batch.rows[l] + 1
        /\ \A id \in ids : batch'.streams[id] = batch.streams[id]
        /\ batch'.streams[new].step = 0
    BY <1>1, <1>2 DEF Added
  <1>6. /\ kv' = [l \in 1..Layers |-> kv'[l]]
        /\ \A l \in 1..Layers :
             /\ GoodStack(kv'[l]) /\ kv'[l].cur <= LongestPrompt + pushes
             /\ Rows(kv'[l]) = batch.rows[l] + 1
             /\ \A i \in 1..batch.rows[l] :
                  RowOf(kv'[l], i) = RowOf(kv[l], i) /\ kv'[l].pos[i] = kv[l].pos[i]
             /\ RowIsAlone(kv'[l], batch.rows[l] + 1, Prompted(new)[l])
    <2>1. \A l \in 1..Layers : l <= Layers
      BY <1>2
    <2>2. AddedGives(new, Layers, kv')
      BY <1>1, <1>3, AddedRows
    <2> QED
      BY <2>1, <2>2 DEF AddedGives
  <1>7. reading'[new].input = BosEmb /\ \A id \in ids : reading'[id].input = reading[id].input
    BY <1>1, <1>2, <1>4 DEF FreshReading
  <1>8. KvInv'
    <2>1. Bounded(kv', batch'.rows, pushes')
      BY <1>1, <1>5, <1>6 DEF Bounded
    <2>2. DOMAIN reading' = Ids(batch')
      BY <1>1
    <2>3. \A id \in Ids(batch') : reading'[id].input \in Int
      BY <1>4, <1>7, NextInputIs DEF KvInv
    <2>4. batch'.next <= MaxStreams
      BY <1>1, <1>2, <1>5
    <2> QED
      BY <1>1, <1>4, <2>1, <2>2, <2>3, <2>4 DEF KvInv
  <1>9. ASSUME AloneInv PROVE AloneInv'
    <2>1. Aligned(batch') /\ \A l \in 1..Layers : batch.rows[l] = N
      BY <1>4, <1>9 DEF AloneInv, Aligned
    <2>0. /\ \A k \in ids : IndexOf(Ids(batch'), k) = IndexOf(ids, k)
          /\ IndexOf(Ids(batch'), new) = N + 1
      <3> HIDE DEF ids, new
      <3>1. /\ \A k \in ids : IndexOf(ids \cup {new}, k) = IndexOf(ids, k)
            /\ IndexOf(ids \cup {new}, new) = Cardinality(ids) + 1
        BY <1>2, IndexWith
      <3>2. Ids(batch') = ids \cup {new}
        BY <1>4
      <3> HIDE DEF N
      <3>3. N = Cardinality(ids)
        BY DEF N
      <3> QED
        BY <3>1, <3>2, <3>3
    <2> SUFFICES ASSUME NEW id \in Ids(batch') \ spoiled'
                 PROVE  /\ batch'.streams[id].step < MaxGenLen
                        /\ Tracks(reading'[id].input, kv', IndexOf(Ids(batch'), id),
                                  Alone[id][batch'.streams[id].step])
      BY <2>1 DEF AloneInv, Sound
    <2>2. CASE id = new
      <3>1. Alone[new][0] = [caches |-> Prompted(new), latents |-> <<>>]
        BY <1>3, AloneIs
      <3>2. Alone[new][0].caches = Prompted(new) /\ Alone[new][0].latents = <<>>
        BY <3>1
      <3>3. IndexOf(Ids(batch'), new) = N + 1
        BY <2>0
      <3>4. AllAlone(kv', N + 1, Prompted(new))
        BY <1>6, <2>1 DEF AllAlone
      <3>5. 0 < MaxGenLen
        BY BatchAssumption DEF BatchAssumption
      <3> QED
        BY <1>5, <1>7, <2>2, <3>2, <3>3, <3>4, <3>5, NextInputIs DEF Tracks
    <2>3. CASE id \in ids
      <3> DEFINE i == IndexOf(ids, id)
                 alone == Alone[id][batch.streams[id].step]
      <3>1. /\ batch.streams[id].step < MaxGenLen
            /\ Tracks(reading[id].input, kv, i, alone)
        BY <1>1, <1>9, <2>3 DEF AloneInv, Sound
      <3>2. IndexOf(Ids(batch'), id) = i
        BY <2>0, <2>3
      <3>3. i \in 1..N
        BY <1>2, <2>3, IndexType
      <3> HIDE DEF i, alone
      <3>4. AllAlone(kv', i, alone.caches)
        <4> SUFFICES ASSUME NEW l \in 1..Layers PROVE RowIsAlone(kv'[l], i, alone.caches[l])
          BY DEF AllAlone
        <4>1. RowIsAlone(kv[l], i, alone.caches[l])
          BY <3>1 DEF Tracks, AllAlone
        <4>2. RowOf(kv'[l], i) = RowOf(kv[l], i) /\ kv'[l].pos[i] = kv[l].pos[i]
          BY <1>6, <2>1, <3>3
        <4> QED
          BY <4>1, <4>2 DEF RowIsAlone
      <3>5. Tracks(reading'[id].input, kv', i, alone)
        BY <1>7, <2>3, <3>1, <3>4 DEF Tracks
      <3> QED
        BY <1>5, <2>3, <3>1, <3>2, <3>5 DEF alone
    <2> QED
      BY <1>4, <2>2, <2>3
  <1> QED
    BY <1>8, <1>9

LEMMA AddFailsKeeps ==
    ASSUME Numbers, KvInv, AddReadingFails
    PROVE  KvInv' /\ (Aligned(batch') /\ AloneInv => AloneInv')
  <1> DEFINE ids == Ids(batch)
             new == batch.next
  <1>1. /\ batch.next < MaxStreams
        /\ reading' = reading /\ spoiled' = spoiled /\ pushes' = pushes
    BY DEF AddReadingFails
  <1>2. PICK n \in FailingLayers :
          batch' = PartiallyAdded(batch, n) /\ kv' = RowsAdded(Prompted(new), n)
    BY DEF AddReadingFails
  <1>3. n \in Nat /\ (Aligned(batch') => n = 0)
    BY <1>2, FailingLayersNat, NoneLeftBehind DEF KvInv
  <1>4. /\ IsFiniteSet(ids) /\ new \in Nat /\ Layers \in Nat /\ MaxStreams \in Nat
    BY BatchFacts
  <1>5. new \in 0..(MaxStreams - 1)
    BY <1>1, <1>4
  <1>6. /\ GoodBatch(batch') /\ Ids(batch') = ids /\ batch'.next = new
        /\ (Aligned(batch) /\ n = 0 => Aligned(batch'))
    BY <1>2, <1>3, PartiallyAddedGood DEF KvInv
  <1>7. /\ batch'.streams = batch.streams
        /\ \A l \in 1..Layers : batch'.rows[l] = batch.rows[l] + (IF l <= n THEN 1 ELSE 0)
    BY <1>2 DEF PartiallyAdded
  <1>8. /\ kv' = [l \in 1..Layers |-> kv'[l]]
        /\ \A l \in 1..Layers :
             /\ GoodStack(kv'[l]) /\ kv'[l].cur <= LongestPrompt + pushes
             /\ Rows(kv'[l]) = batch.rows[l] + (IF l <= n THEN 1 ELSE 0)
             /\ ~ (l <= n) => kv'[l] = kv[l]
    <2>1. AddedGives(new, n, kv')
      BY <1>2, <1>3, <1>5, AddedRows
    <2> QED
      BY <2>1 DEF AddedGives
  <1>9. KvInv'
    <2>1. Bounded(kv', batch'.rows, pushes')
      BY <1>1, <1>7, <1>8 DEF Bounded
    <2>2. batch'.next <= MaxStreams
      BY <1>1, <1>4, <1>6
    <2> QED
      BY <1>1, <1>6, <2>1, <2>2 DEF KvInv
  <1>10. ASSUME Aligned(batch'), AloneInv PROVE AloneInv'
    <2>1. n = 0 /\ \A l \in 1..Layers : kv'[l] = kv[l]
      BY <1>3, <1>8, <1>10
    <2> SUFFICES ASSUME NEW id \in ids \ spoiled
                 PROVE  /\ batch.streams[id].step < MaxGenLen
                        /\ Tracks(reading[id].input, kv', IndexOf(ids, id),
                                  Alone[id][batch.streams[id].step])
      BY <1>1, <1>6, <1>7, <1>10 DEF AloneInv, Sound
    <2>2. /\ batch.streams[id].step < MaxGenLen
          /\ Tracks(reading[id].input, kv, IndexOf(ids, id), Alone[id][batch.streams[id].step])
      BY <1>10 DEF AloneInv, Sound
    <2> QED
      BY <2>1, <2>2 DEF Tracks, AllAlone
  <1> QED
    BY <1>9, <1>10

LEMMA RemoveKeeps ==
    ASSUME Numbers, KvInv, RemoveReading
    PROVE  KvInv' /\ (AloneInv => AloneInv')
  <1> DEFINE ids == Ids(batch)
             N == Cardinality(ids)
  <1>1. /\ reading' = Restrict(reading, Ids(batch'))
        /\ spoiled' = spoiled /\ pushes' = pushes
    BY DEF RemoveReading
  <1>2. PICK id \in 0..(batch.next - 1) :
          batch' = Removed(batch, id) /\ kv' = RowsRemoved(kv, ids, {id} \cap ids)
    BY DEF RemoveReading
  <1> DEFINE gone == {id} \cap ids
             left == ids \ gone
  <1>3. /\ IsFiniteSet(ids) /\ ids \subseteq Nat /\ N \in Nat /\ Layers \in Nat
        /\ \A l \in 1..Layers : batch.rows[l] \in Nat /\ N <= batch.rows[l]
    BY BatchFacts
  <1>4. /\ GoodBatch(batch') /\ Ids(batch') = left /\ batch'.next = batch.next
        /\ (Aligned(batch) => Aligned(batch'))
    <2>1. /\ GoodBatch(batch') /\ Ids(batch') = ids \ {id} /\ batch'.next = batch.next
          /\ (Aligned(batch) => Aligned(batch'))
      BY <1>2, RemovedGood DEF KvInv
    <2>2. left = ids \ {id}
      OBVIOUS
    <2> QED
      BY <2>1, <2>2
  <1>5. gone \in SUBSET ids /\ Bounded(kv, batch.rows, pushes)
    BY DEF KvInv
  <1>6. /\ \A l \in 1..Layers : batch'.rows[l] = batch.rows[l] - (N - Cardinality(left))
        /\ \A k \in left : batch'.streams[k] = batch.streams[k]
    <2>1. CASE id \in ids
      <3>1. left = ids \ {id}
        OBVIOUS
      <3>2. Cardinality(left) = N - 1
        BY <1>3, <2>1, <3>1, FS_RemoveElement
      <3>3. \A l \in 1..Layers : batch'.rows[l] = batch.rows[l] - 1
        BY <1>2, <2>1 DEF Removed
      <3>4. \A k \in left : batch'.streams[k] = batch.streams[k]
        BY <1>2, <2>1, <3>1 DEF Removed, Restrict
      <3> HIDE DEF N, left
      <3> QED
        BY <1>3, <3>2, <3>3, <3>4
    <2>2. CASE id \notin ids
      <3>1. left = ids /\ batch' = batch
        BY <1>2, <2>2 DEF Removed
      <3> HIDE DEF N, left
      <3>2. Cardinality(left) = N
        BY <3>1 DEF N
      <3> QED
        BY <1>3, <3>1, <3>2
    <2> QED
      BY <2>1, <2>2
  <1> HIDE DEF gone, left, ids
  <1>7. /\ kv' = [l \in 1..Layers |-> kv'[l]]
        /\ \A l \in 1..Layers :
             /\ GoodStack(kv'[l]) /\ kv'[l].cur <= LongestPrompt + pushes
             /\ Rows(kv'[l]) = batch.rows[l] - (N - Cardinality(left))
        /\ \A k \in left : \A caches :
             AllAlone(kv, IndexOf(ids, k), caches) => AllAlone(kv', IndexOf(left, k), caches)
    <2>1. left = ids \ gone /\ kv' = RowsRemoved(kv, ids, gone)
      BY <1>2 DEF left, gone
    <2>2. RemovalGives(kv, batch.rows, pushes, ids, left, kv')
      BY <1>3, <1>5, <2>1, AfterRemoval
    <2> QED
      BY <2>2 DEF RemovalGives, N
  <1>8. DOMAIN reading' = left /\ \A k \in left : reading'[k] = reading[k] /\ k \in ids
    BY <1>1, <1>4 DEF Restrict, left
  <1>9. KvInv'
    <2>1. Bounded(kv', batch'.rows, pushes')
      BY <1>1, <1>6, <1>7 DEF Bounded
    <2> QED
      BY <1>1, <1>4, <1>8, <2>1 DEF KvInv, ids
  <1>10. ASSUME AloneInv PROVE AloneInv'
    <2>1. Aligned(batch')
      BY <1>4, <1>10 DEF AloneInv
    <2> SUFFICES ASSUME NEW k \in left, k \notin spoiled
                 PROVE  /\ batch.streams[k].step < MaxGenLen
                        /\ Tracks(reading[k].input, kv', IndexOf(left, k),
                                  Alone[k][batch.streams[k].step])
      BY <1>1, <1>4, <1>6, <1>8, <2>1 DEF AloneInv, Sound
    <2>2. /\ batch.streams[k].step < MaxGenLen
          /\ Tracks(reading[k].input, kv, IndexOf(ids, k), Alone[k][batch.streams[k].step])
      BY <1>8, <1>10 DEF AloneInv, Sound, ids
    <2> QED
      BY <1>7, <2>2 DEF Tracks
  <1> QED
    BY <1>9, <1>10

LEMMA PlayedIs ==
    ASSUME NEW ids, NEW latents, NEW played, played = AllPlayed(ids, latents)
    PROVE  \A id \in ids : played[id].input = latents[IndexOf(ids, id)]
  BY DEF AllPlayed, FramePlayed

\* A stream no step failed on, after a frame over the whole batch: its row and
\* its latent are those of one frame more alone.
LEMMA FrameTracks ==
    ASSUME Numbers, KvInv, AloneInv, NEW id \in Sound,
           NEW out, out = FramesOf(Ids(batch), Layers),
           NEW latents, latents = LatentsOf(Ids(batch), out.xs)
    PROVE  Tracks(latents[IndexOf(Ids(batch), id)], out.caches, IndexOf(Ids(batch), id),
                  Alone[id][batch.streams[id].step + 1])
  <1> DEFINE ids == Ids(batch)
             i == IndexOf(ids, id)
             n == batch.streams[id].step
             alone == Alone[id][n]
             more == Alone[id][n + 1]
             xs == InputsOf(ids)
             x == NextInput(alone.latents)
             fwd == Forwarded(FlowLM, alone.caches, <<x>>)
             noise == Noise(id, n)
             next == NextLatents(fwd.xs, <<noise>>)[1]
  <1>1. id \in ids /\ id \in 0..(MaxStreams - 1) /\ n \in Nat /\ Cardinality(ids) \in Nat
        /\ IsFiniteSet(ids) /\ ids \subseteq Nat
    BY BatchFacts DEF Sound
  <1>2. n < MaxGenLen /\ Tracks(reading[id].input, kv, i, alone) /\ Aligned(batch)
    BY DEF AloneInv
  <1>3. n \in 0..MaxGenLen /\ n + 1 \in 1..MaxGenLen /\ (n + 1) - 1 = n /\ n + 1 \in Nat \ {0}
    BY <1>1, <1>2, BatchAssumption DEF BatchAssumption
  <1>4. /\ AloneState(n, alone) /\ more = AloneStep(id, n + 1, alone)
    BY <1>1, <1>3, AloneIs
  <1>5. i \in 1..Cardinality(ids)
    BY <1>1, IndexType
  <1>6. /\ GoodStacks(kv, Cardinality(ids)) /\ kv = [l \in 1..Layers |-> kv[l]]
        /\ xs \in Seq(Int) /\ Len(xs) = Cardinality(ids) /\ xs[i] = reading[id].input
    BY <1>1, <1>2, BeforeAFrame
  <1>7. GoodCaches(alone.caches) /\ alone.latents \in Seq(Int)
    BY <1>4 DEF AloneState
  <1>8. xs[i] = x /\ AllAlone(kv, i, alone.caches)
    BY <1>2, <1>6 DEF Tracks
  <1>9. /\ Stacked(kv, Cardinality(ids), Layers, out)
        /\ out = StacksForwarded(FlowLM, kv, xs, Layers)
    <2>1. Layers \in 0..Layers
      BY BatchAssumption DEF BatchAssumption
    <2> QED
      BY <1>2, <2>1, FramesAre
  <1>10. more = [caches |-> fwd.caches, latents |-> Append(alone.latents, next)]
    BY <1>3, <1>4 DEF AloneStep, OneFrameMore
  <1> HIDE DEF ids, i, n, alone, more, xs, x, fwd, noise, next
  <1>11. FrameIsAlone(i, out, Forwarded(FlowLM, alone.caches, <<xs[i]>>))
    BY <1>5, <1>6, <1>7, <1>8, <1>9, FrameAlone
  <1>12. FrameIsAlone(i, out, fwd)
    BY <1>8, <1>11 DEF fwd
  <1>13. /\ fwd.xs \in Seq(Int) /\ Len(fwd.xs) = 1 /\ fwd.xs[1] = out.xs[i]
         /\ AllAlone(out.caches, i, fwd.caches)
    BY <1>12 DEF FrameIsAlone
  <1>14. out.xs \in Seq(Int) /\ Len(out.xs) = Cardinality(ids)
    BY <1>9 DEF Stacked
  <1>15. latents[i] = next /\ latents[i] \in Int
    <2>1. ids # {}
      BY <1>1
    <2>2. /\ latents[IndexOf(Ids(batch), id)] \in Int
          /\ latents[IndexOf(Ids(batch), id)]
               = NextLatents(fwd.xs, <<Noise(id, batch.streams[id].step)>>)[1]
      BY <1>1, <1>13, <1>14, <2>1, LatentsAre DEF ids, i
    <2> QED
      BY <2>2 DEF next, noise, n, i, ids
  <1>16. more.caches = fwd.caches /\ more.latents = Append(alone.latents, next)
    BY <1>10
  <1>17. NextInput(more.latents) = next
    BY <1>7, <1>15, <1>16, NextInputIs
  <1>18. Tracks(latents[i], out.caches, i, more)
    BY <1>13, <1>15, <1>16, <1>17 DEF Tracks
  <1> QED
    BY <1>18 DEF i, ids, more, n

LEMMA StepKeeps ==
    ASSUME Numbers, KvInv, StepAll
    PROVE  KvInv' /\ (AloneInv => AloneInv')
  <1> DEFINE ids == Ids(batch)
             N == Cardinality(ids)
             out == FramesOf(ids, Layers)
             latents == LatentsOf(ids, out.xs)
             played == AllPlayed(ids, latents)
             gone == ids \ Ids(batch')
  <1>1. /\ Step
        /\ kv' = RowsRemoved(out.caches, ids, gone)
        /\ reading' = Restrict(played, Ids(batch'))
        /\ pushes' = pushes + 1 /\ spoiled' = spoiled
    BY DEF StepAll
  <1>2. ids # {} /\ Aligned(batch)
    BY <1>1 DEF Step
  <1>3. PICK eos \in SUBSET ids : batch' = Stepped(batch, eos)
    BY <1>1 DEF Step
  <1>4. /\ IsFiniteSet(ids) /\ ids \subseteq Nat /\ N \in Nat /\ Layers \in Nat
        /\ \A l \in 1..Layers : batch.rows[l] \in Nat /\ N <= batch.rows[l]
        /\ \A id \in ids : batch.streams[id] \in Stream /\ batch.streams[id].step \in Nat
        /\ pushes \in Nat
    BY BatchFacts DEF KvInv
  <1>5. /\ GoodBatch(batch') /\ Ids(batch') = ids \ DoneIds(batch, eos)
        /\ batch'.next = batch.next /\ DoneIds(batch, eos) \subseteq ids /\ Aligned(batch')
    BY <1>2, <1>3, SteppedGood DEF KvInv
  <1> DEFINE left == ids \ gone
  <1>6. gone = DoneIds(batch, eos) /\ left = Ids(batch') /\ gone \in SUBSET ids /\ left \subseteq ids
    BY <1>5
  <1>7. /\ \A l \in 1..Layers : batch'.rows[l] = batch.rows[l] - Cardinality(gone)
        /\ \A id \in left : /\ batch'.streams[id] = Advanced(batch.streams[id], id \in eos)
                            /\ ~ Done(batch.streams[id], id \in eos)
    <2>1. \A l \in 1..Layers : batch'.rows[l] = batch.rows[l] - Cardinality(DoneIds(batch, eos))
      BY <1>3 DEF Stepped
    <2>2. \A id \in ids \ DoneIds(batch, eos) :
            batch'.streams[id] = Advanced(batch.streams[id], id \in eos)
      BY <1>3 DEF Stepped
    <2>3. \A id \in ids \ DoneIds(batch, eos) : ~ Done(batch.streams[id], id \in eos)
      BY DEF DoneIds
    <2> QED
      BY <1>5, <1>6, <2>1, <2>2, <2>3
  <1>8. Cardinality(gone) = N - Cardinality(left)
    <2>1. IsFiniteSet(gone) /\ IsFiniteSet(left)
      BY <1>4, <1>6, FS_Subset
    <2>2. gone \cap left = {} /\ gone \cup left = ids
      BY <1>6
    <2> HIDE DEF gone, left
    <2>3. Cardinality(gone \cup left) = Cardinality(gone) + Cardinality(left) - Cardinality(gone \cap left)
      BY <2>1, FS_Union
    <2>4. Cardinality(gone) \in Nat /\ Cardinality(left) \in Nat /\ Cardinality({}) = 0
      BY <2>1, FS_CardinalityType, FS_EmptySet
    <2>5. N = Cardinality(gone) + Cardinality(left) - 0
      BY <2>2, <2>3, <2>4
    <2> HIDE DEF N
    <2> QED
      BY <1>4, <2>4, <2>5
  <1>9. Bounded(out.caches, batch.rows, pushes + 1) /\ Stacked(kv, N, Layers, out)
    <2>1. Layers \in 0..Layers
      BY <1>4
    <2> QED
      BY <1>2, <2>1, FramesAre
  <1> HIDE DEF out, latents, played
  <1>10. out.xs \in Seq(Int) /\ Len(out.xs) = N
    BY <1>9 DEF Stacked
  <1>11. \A id \in ids : latents[IndexOf(ids, id)] \in Int
    BY <1>2, <1>10, LatentsAre DEF latents
  <1>12. \A id \in ids : played[id].input = latents[IndexOf(ids, id)]
    BY PlayedIs DEF played
  <1> HIDE DEF ids, gone, left, N
  <1>13. RemovalGives(out.caches, batch.rows, pushes + 1, ids, left, kv')
    <2>1. kv' = RowsRemoved(out.caches, ids, gone) /\ left = ids \ gone
      BY <1>1 DEF left
    <2>2. \A l \in 1..Layers : Cardinality(ids) <= batch.rows[l]
      BY <1>4 DEF N
    <2> QED
      BY <1>4, <1>6, <1>9, <2>1, <2>2, AfterRemoval
  <1>14. /\ kv' = [l \in 1..Layers |-> kv'[l]]
         /\ \A l \in 1..Layers :
              /\ GoodStack(kv'[l]) /\ kv'[l].cur <= LongestPrompt + (pushes + 1)
              /\ Rows(kv'[l]) = batch.rows[l] - (N - Cardinality(left))
         /\ \A k \in left : \A caches :
              AllAlone(out.caches, IndexOf(ids, k), caches) => AllAlone(kv', IndexOf(left, k), caches)
    BY <1>13 DEF RemovalGives, N
  <1>15. DOMAIN reading' = left /\ \A k \in left : reading'[k] = played[k]
    BY <1>1, <1>6 DEF Restrict
  <1>16. KvInv'
    <2>1. Bounded(kv', batch'.rows, pushes')
      BY <1>1, <1>7, <1>8, <1>14 DEF Bounded
    <2>2. \A k \in Ids(batch') : reading'[k].input \in Int
      BY <1>6, <1>11, <1>12, <1>15
    <2>3. batch'.next <= MaxStreams /\ pushes' \in Nat
      BY <1>1, <1>4, <1>5 DEF KvInv
    <2> QED
      BY <1>5, <1>6, <1>15, <2>1, <2>2, <2>3 DEF KvInv
  <1>17. ASSUME AloneInv PROVE AloneInv'
    <2> SUFFICES ASSUME NEW k \in left, k \notin spoiled
                 PROVE  /\ batch'.streams[k].step < MaxGenLen
                        /\ Tracks(reading'[k].input, kv', IndexOf(left, k),
                                  Alone[k][batch'.streams[k].step])
      BY <1>1, <1>5, <1>6 DEF AloneInv, Sound
    <2>1. k \in ids /\ k \in Sound
      BY <1>6 DEF Sound, ids
    <2>2. batch'.streams[k].step = batch.streams[k].step + 1
      <3>1. Advanced(batch.streams[k], k \in eos).step = batch.streams[k].step + 1
        BY DEF Advanced
      <3>2. batch'.streams[k] = Advanced(batch.streams[k], k \in eos)
        BY <1>7
      <3> QED
        BY <3>1, <3>2
    <2>3. batch'.streams[k].step < MaxGenLen
      <3>1. InTime(Advanced(batch.streams[k], k \in eos))
        BY <1>4, <1>7, <2>1, NotDoneInTime
      <3> QED
        BY <1>7, <3>1 DEF InTime
    <2>4. Tracks(latents[IndexOf(ids, k)], out.caches, IndexOf(ids, k),
                 Alone[k][batch.streams[k].step + 1])
      BY <1>17, <2>1, FrameTracks DEF ids, latents, out
    <2> DEFINE alone == Alone[k][batch.streams[k].step + 1]
    <2> HIDE DEF alone
    <2>5. /\ latents[IndexOf(ids, k)] = NextInput(alone.latents)
          /\ AllAlone(out.caches, IndexOf(ids, k), alone.caches)
      BY <2>4 DEF Tracks, alone
    <2>6. AllAlone(kv', IndexOf(left, k), alone.caches)
      BY <1>14, <2>5
    <2>7. reading'[k].input = latents[IndexOf(ids, k)]
      BY <1>12, <1>15, <2>1
    <2>8. Tracks(reading'[k].input, kv', IndexOf(left, k), alone)
      BY <2>5, <2>6, <2>7 DEF Tracks
    <2> QED
      BY <2>2, <2>3, <2>8 DEF alone
  <1> QED
    BY <1>16, <1>17

LEMMA StepFailsKeeps ==
    ASSUME Numbers, KvInv, StepAllFails
    PROVE  KvInv' /\ (AloneInv => AloneInv')
  <1> DEFINE ids == Ids(batch)
             N == Cardinality(ids)
             out == FramesOf(ids, Layers)
             latents == LatentsOf(ids, out.xs)
             played == AllPlayed(ids, latents)
  <1>1. /\ ids # {} /\ Aligned(batch) /\ spoiled' = spoiled \cup ids /\ pushes' = pushes + 1
    BY DEF StepAllFails
  <1>2. \/ \E n \in 0..Layers :
             /\ kv' = FramesOf(ids, n).caches /\ batch' = StepFailed(batch, {}, {})
             /\ reading' = reading
        \/ \E moved \in SUBSET ids : \E eos :
             /\ kv' = out.caches /\ batch' = StepFailed(batch, moved, eos)
             /\ reading' = [id \in ids |-> IF id \in moved THEN played[id] ELSE reading[id]]
    <2> HIDE DEF ids, out, latents, played
    <2>1. CASE \E n \in 0..Layers :
             /\ kv' = FramesOf(Ids(batch), n).caches
             /\ batch' = StepFailed(batch, {}, {})
             /\ UNCHANGED reading
      BY <2>1 DEF ids
    <2>2. CASE \E out1 \in {FramesOf(Ids(batch), Layers)} :
          \E latents1 \in {LatentsOf(Ids(batch), out1.xs)} :
          \E played1 \in {AllPlayed(Ids(batch), latents1)} :
          \E moved \in SUBSET Ids(batch) :
            /\ kv' = out1.caches
            /\ reading' = [id \in Ids(batch) |->
                             IF id \in moved THEN played1[id] ELSE reading[id]]
            /\ \E eos \in SUBSET moved : batch' = StepFailed(batch, moved, eos)
      <3>1. PICK moved \in SUBSET Ids(batch) :
              /\ kv' = out.caches
              /\ reading' = [id \in Ids(batch) |-> IF id \in moved THEN played[id] ELSE reading[id]]
              /\ \E eos \in SUBSET moved : batch' = StepFailed(batch, moved, eos)
        BY <2>2 DEF out, latents, played, ids
      <3> QED
        BY <3>1 DEF ids
    <2> QED
      BY <2>1, <2>2 DEF StepAllFails
  <1>3. /\ N \in Nat /\ Layers \in Nat /\ pushes \in Nat
        /\ \A l \in 1..Layers : batch.rows[l] \in Nat
    BY BatchFacts DEF KvInv
  <1>4. ASSUME NEW moved, NEW eos, batch' = StepFailed(batch, moved, eos)
        PROVE  /\ GoodBatch(batch') /\ Ids(batch') = ids /\ batch'.next = batch.next
               /\ Aligned(batch') /\ batch'.rows = batch.rows
    <2>1. batch'.rows = batch.rows
      BY <1>4 DEF StepFailed
    <2> QED
      BY <1>1, <1>4, <2>1, StepFailedGood DEF KvInv
  <1>5. /\ GoodBatch(batch') /\ Ids(batch') = ids /\ batch'.next = batch.next
        /\ Aligned(batch') /\ batch'.rows = batch.rows
    BY <1>2, <1>4
  <1>6. Bounded(kv', batch.rows, pushes + 1)
    <2>1. \A n \in 0..Layers : Bounded(FramesOf(ids, n).caches, batch.rows, pushes + 1)
      BY <1>1, FramesAre
    <2>2. Layers \in 0..Layers
      BY <1>3
    <2> QED
      BY <1>2, <2>1, <2>2
  <1>7. DOMAIN reading' = ids /\ \A id \in ids : reading'[id].input \in Int
    <2>1. DOMAIN reading = ids /\ \A id \in ids : reading[id].input \in Int
      BY DEF KvInv
    <2>2. \A id \in ids : played[id].input \in Int
      <3>1. Layers \in 0..Layers
        BY <1>3
      <3>2. Stacked(kv, N, Layers, out)
        BY <1>1, <3>1, FramesAre
      <3> HIDE DEF out
      <3>3. out.xs \in Seq(Int) /\ Len(out.xs) = N
        BY <3>2 DEF Stacked
      <3>4. \A id \in ids : latents[IndexOf(ids, id)] \in Int
        BY <1>1, <3>3, LatentsAre
      <3> HIDE DEF latents
      <3> QED
        BY <3>4, PlayedIs
    <2> HIDE DEF played, ids, out
    <2>3. CASE reading' = reading
      BY <2>1, <2>3
    <2>4. CASE \E moved : reading' = [id \in ids |-> IF id \in moved THEN played[id] ELSE reading[id]]
      BY <2>1, <2>2, <2>4
    <2> QED
      BY <1>2, <2>3, <2>4
  <1>8. KvInv'
    <2>1. Bounded(kv', batch'.rows, pushes')
      BY <1>1, <1>5, <1>6
    <2>2. pushes' \in Nat /\ batch'.next <= MaxStreams
      BY <1>1, <1>3, <1>5 DEF KvInv
    <2> HIDE DEF ids
    <2> QED
      BY <1>5, <1>7, <2>1, <2>2 DEF KvInv
  <1>9. AloneInv'
    <2>1. Ids(batch') \ spoiled' = {}
      BY <1>1, <1>5
    <2> QED
      BY <1>5, <2>1 DEF AloneInv, Sound
  <1> QED
    BY <1>8, <1>9

-----------------------------------------------------------------------------
LEMMA KvInvInductive ==
    ASSUME Numbers, KvInv, [RenderNext]_renderVars
    PROVE  KvInv' /\ (Aligned(batch') /\ AloneInv => AloneInv')
  <1>1. CASE AddReading
    BY <1>1, AddKeeps
  <1>2. CASE AddReadingFails
    BY <1>2, AddFailsKeeps
  <1>3. CASE RemoveReading
    BY <1>3, RemoveKeeps
  <1>4. CASE StepAll
    BY <1>4, StepKeeps
  <1>5. CASE StepAllFails
    BY <1>5, StepFailsKeeps
  <1>6. CASE UNCHANGED renderVars
    <2>1. batch' = batch /\ kv' = kv /\ reading' = reading /\ spoiled' = spoiled /\ pushes' = pushes
      BY <1>6 DEF renderVars, batchVars
    <2> QED
      BY <2>1 DEF KvInv, AloneInv, Sound
  <1>7. RenderNext \/ UNCHANGED renderVars
    OBVIOUS
  <1> QED
    BY <1>1, <1>2, <1>3, <1>4, <1>5, <1>6, <1>7 DEF RenderNext

\* Every stack has the rows the batch counts, all in one buffer, and its columns are
\* those of the longest prompt and one for every step since the start: a row added
\* takes columns that are there and makes more only for a longer prompt (add_row
\* and push of attention.rs, as add and step of batch.rs call them).
THEOREM StacksStayBounded ==
    ASSUME Numbers
    PROVE  RenderSpec => []StacksBounded
<1>1. RenderInit => KvInv
  BY StartsRight
<1>2. KvInv /\ [RenderNext]_renderVars => KvInv'
  BY KvInvInductive
<1>3. KvInv => StacksBounded
  BY DEF KvInv, Bounded, StacksBounded
<1> QED
  BY <1>1, <1>2, <1>3, PTL DEF RenderSpec

\* Every latent a reading was given beside others is the one it is given alone
\* (step of batch.rs against generate_stream_segment of tts_model.rs), whoever
\* joined, ended or was removed in between: what examples/batch_parity.rs listens
\* for.  Where an addition failed between two layers the counts never agree again,
\* so no stream is ever stepped on the rows it left.
THEOREM EveryoneReadAsAlone ==
    ASSUME Numbers
    PROVE  RenderSpec => []ReadAsAlone
<1> DEFINE Inv == KvInv /\ (Aligned(batch) => AloneInv)
<1>1. RenderInit => Inv
  BY StartsRight
<1>2. Inv /\ [RenderNext]_renderVars => Inv'
  <2> SUFFICES ASSUME Inv, [RenderNext]_renderVars, Aligned(batch') PROVE AloneInv'
    BY KvInvInductive
  <2>1. Aligned(batch)
    BY BatcherSteps, NeverRealigned DEF KvInv
  <2> QED
    BY <2>1, KvInvInductive
<1>3. Inv => ReadAsAlone
  <2> SUFFICES ASSUME Inv, Aligned(batch), NEW id \in Sound,
                      NEW alone \in {Alone[id][batch.streams[id].step]}
               PROVE  /\ reading[id].input = NextInput(alone.latents)
                      /\ \A l \in 1..Layers :
                           /\ RowOf(kv[l], IndexOf(Ids(batch), id)) = KeptKeys(alone.caches[l])
                           /\ kv[l].pos[IndexOf(Ids(batch), id)] = alone.caches[l].pos
    BY DEF ReadAsAlone
  <2>1. Tracks(reading[id].input, kv, IndexOf(Ids(batch), id), alone)
    BY DEF AloneInv
  <2> QED
    BY <2>1 DEF Tracks, AllAlone, RowIsAlone
<1> QED
  BY <1>1, <1>2, <1>3, PTL DEF RenderSpec
=============================================================================
