------------------------------ MODULE StackedKv ------------------------------
(***************************************************************************)
(* The stacked cache of a layer (modules/attention.rs, StackedKv): one row *)
(* per stream, every row ending at column cur, so that a step writes the   *)
(* same column of all.  k and v are one tensor here, as in Attention.      *)
(***************************************************************************)
EXTENDS Attention

CONSTANT GrowBy  \* columns a full cache gains at least (64)

ASSUME GrowByAssumption == GrowBy \in Nat \ {0}

\* What a column of a row holds.
Cell == [x : Int, at : Int]

Without(s, i) == SubSeq(s, 1, i - 1) \o SubSeq(s, i + 1, Len(s))

\* StackedKv::empty.
EmptyStack == [k |-> <<>>, cur |-> 0, len |-> <<>>, pos |-> <<>>]

Rows(c) == Len(c.len)

\* cap(): a cache without a row has columns too, which add_row does not count.
Capacity(c) == IF Rows(c) > 0 THEN Len(c.k[1]) ELSE 0

\* place: a row among zeros.
Placed(row, left, width) == Zeros(left) \o row \o Zeros(width - left - Len(row))

\* One buffer of so many columns, len, pos for every row, and no row longer than
\* the columns there are before cur.
GoodStack(c) ==
    /\ c = [k |-> c.k, cur |-> c.cur, len |-> c.len, pos |-> c.pos]
    /\ c.cur \in Nat /\ c.len \in Seq(Nat) /\ c.pos \in Seq(Nat)
    /\ c.k \in Seq(Seq(Cell))
    /\ Len(c.k) = Rows(c) /\ Len(c.pos) = Rows(c)
    /\ \A i \in 1..Rows(c) :
         /\ Len(c.k[i]) = Capacity(c)
         /\ c.len[i] <= c.cur /\ c.cur <= Capacity(c)

\* Mutant: a new row takes columns of its own.
ColumnAfter(c, n) == c.cur + n

\* Where all rows end once one of n cells has joined them.
ColumnFor(c, n) == Greater(c.cur, n)

\* add_row: the rows there are move right when the new one is longer than they
\* are, and the new one is laid to end where they do.
RowAdded(c, cells, pos) ==
    LET cur    == ColumnFor(c, Len(cells))
        shift  == cur - c.cur
        newCap == NextPowerOfTwo(Greater(cur + 1, Capacity(c) + shift))
    IN [k   |-> Append([i \in 1..Rows(c) |-> Placed(c.k[i], shift, newCap)],
                       Placed(cells, cur - Len(cells), newCap)),
        cur |-> cur,
        len |-> Append(c.len, Len(cells)),
        pos |-> Append(c.pos, pos)]

\* remove_row.  cur stays where it is, even when no row is left.
RowRemoved(c, i) ==
    [k |-> Without(c.k, i), cur |-> c.cur,
     len |-> Without(c.len, i), pos |-> Without(c.pos, i)]

\* push: one cell more for every row, in a column they share.
Pushed(c, cells) ==
    LET extra == Zeros(Greater(Capacity(c), GrowBy))
        Wide(row) == IF c.cur >= Capacity(c) THEN row \o extra ELSE row
    IN [k   |-> [i \in DOMAIN c.k |-> SliceSet(Wide(c.k[i]), c.cur, <<cells[i]>>)],
        cur |-> c.cur + 1,
        len |-> [i \in DOMAIN c.len |-> c.len[i] + 1],
        pos |-> [i \in DOMAIN c.pos |-> c.pos[i] + 1]]

\* attend: the columns row i reads.  stacked_attention walks them, the masked
\* product hides all others.
RowOf(c, i) == SubSeq(c.k[i], c.cur - c.len[i] + 1, c.cur)

\* forward_stacked: every row's key goes in at its own position (forward_rows),
\* then every row reads its own.
StackForwarded(c, xs) == Pushed(c, [i \in DOMAIN xs |-> [x |-> xs[i], at |-> c.pos[i]]])

\* StreamingTransformerLayer::forward_stacked: layer l of the caches takes its
\* column, and every row's input becomes LayerOut of what it read.
StackedLayer(model, l, before, forwarded) ==
    [xs     |-> [i \in DOMAIN before.xs |->
                   LayerOut(<<model.name, l>>, before.xs[i], before.caches[l].pos[i],
                            RowOf(forwarded, i))],
     caches |-> [before.caches EXCEPT ![l] = forwarded]]

\* StreamingTransformer::forward_stacked up to layer n: the caches and what is
\* left of the inputs, the layers above untouched.
StacksForwarded(model, caches, xs, n) ==
    LET after[l \in 0..n] ==
          IF l = 0 THEN [xs |-> xs, caches |-> caches]
          ELSE StackedLayer(model, l, after[l - 1], StackForwarded(caches[l], after[l - 1].xs))
    IN after[n]
=============================================================================
