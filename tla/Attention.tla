------------------------------ MODULE Attention ------------------------------
(***************************************************************************)
(* The streaming attention of the engine (modules/attention.rs, sdpa.rs,   *)
(* rope.rs, models/transformer.rs): a cache per layer, linear in the flow  *)
(* LM and a ring in the codec, and what each query reads of it.  A key and *)
(* its value are one entry: what they were projected from and the position *)
(* the key was rotated by.  The arithmetic of a layer is LayerOut, any     *)
(* function of its input, its position and the entries read.               *)
(***************************************************************************)
EXTENDS Integers, Sequences

Seqs == INSTANCE SequencesExt

CONSTANTS
    LayerOut(_, _, _, _),  \* a layer's output: layer, input, position, entries read
    InitialCap,            \* columns of a new linear buffer (64)
    TilingThreshold,       \* TILING_THRESHOLD of sdpa (512)
    BlockSize              \* block_size of sdpa (128)

ASSUME AttentionAssumption ==
    /\ InitialCap \in Nat \ {0}
    /\ TilingThreshold \in Nat \ {0} /\ BlockSize \in Nat \ {0}

NoWindow == -1

Lesser(a, b) == IF a <= b THEN a ELSE b
Greater(a, b) == IF a >= b THEN a ELSE b

\* usize::next_power_of_two.
NextPowerOfTwo(n) ==
    LET power[i \in 0..n] == IF i = 0 THEN 1 ELSE 2 * power[i - 1]
        enough == {p \in {power[i] : i \in 0..n} : p >= n}
    IN CHOOSE p \in enough : \A q \in enough : p <= q

Zero == [x |-> 0, at |-> -1]
Zeros(n) == [i \in 1..n |-> Zero]

\* Tensor::slice_set along the columns: cells replace those from start on.
SliceSet(buf, start, cells) ==
    [i \in DOMAIN buf |->
       IF i \in (start + 1)..(start + Len(cells)) THEN cells[i - start] ELSE buf[i]]

\* RotaryEmbedding::forward: one position after another, from offset.
Rotated(xs, offset) == [i \in DOMAIN xs |-> [x |-> xs[i], at |-> offset + i - 1]]

InitCache(window) ==
    [buf |-> Zeros(IF window = NoWindow THEN InitialCap ELSE window),
     pos |-> 0, len |-> 0, head |-> 0]

-----------------------------------------------------------------------------
(* Which keys a query reads *)

\* can_skip_mask_for_single_query.
CanSkipMask(nq, nk, window) == nq = 1 /\ (window = NoWindow \/ nk <= window)

\* The row of generate_mask_chunk for query i of the block that starts after
\* `start` of nq queries, whose own keys are the last nq: no later key, and of
\* the earlier ones those in the window.
Seen(keys, nq, window, start, i) ==
    LET at == Len(keys) - nq + start + i IN
      SubSeq(keys, IF window = NoWindow THEN 1 ELSE Greater(1, at - window + 1), at)

\* sdpa: what each query reads.  Many queries go by blocks.
Sdpa(keys, nq, window) ==
    [i \in 1..nq |->
       IF nq >= TilingThreshold
       THEN LET start == ((i - 1) \div BlockSize) * BlockSize IN
              Seen(keys, nq, window, start, i - start)
       ELSE IF CanSkipMask(nq, Len(keys), window) THEN keys
       ELSE Seen(keys, nq, window, 0, i)]

\* sdpa_chunked: the scores of every chunk side by side, under one mask.
SdpaChunked(chunks, nq, window) ==
    LET keys == Seqs!FlattenSeq(chunks) IN
      [i \in 1..nq |-> IF CanSkipMask(nq, Len(keys), window) THEN keys
                       ELSE Seen(keys, nq, window, 0, i)]

-----------------------------------------------------------------------------
(* The linear cache of the flow LM *)

\* The buffer doubles when the new keys do not fit, and they go after the rest.
LinearWritten(c, keys) ==
    LET len   == Lesser(c.len, Len(c.buf))
        need  == len + Len(keys)
        grown == IF need > Len(c.buf)
                 THEN c.buf \o Zeros(NextPowerOfTwo(need) - Len(c.buf))
                 ELSE c.buf
    IN [buf |-> SliceSet(grown, len, keys), pos |-> keys[1].at + Len(keys),
        len |-> need, head |-> 0]

LinearRead(written, nq) == Sdpa(SubSeq(written.buf, 1, written.len), nq, NoWindow)

LinearAttended(written, nq) == [cache |-> written, read |-> LinearRead(written, nq)]

-----------------------------------------------------------------------------
(* The ring cache of the codec *)

\* Mutant: the ring is read from its first column.
RingChunksUnordered(buf, head, len) == IF len = 0 THEN <<>> ELSE <<SubSeq(buf, 1, len)>>

\* ring_chunks: the ring in the order of time, in the one or two pieces it is in.
RingChunks(buf, head, len) ==
    LET first == Lesser(len, Len(buf) - head)
    IN IF len = 0 THEN <<>>
       ELSE IF len > first
            THEN <<SubSeq(buf, head + 1, head + first), SubSeq(buf, 1, len - first)>>
            ELSE <<SubSeq(buf, head + 1, head + first)>>

\* The chunks of the ring, then the new keys.
RingRead(c, keys, window) ==
    LET chunks == Append(RingChunks(c.buf, c.head, c.len), keys) IN
      IF Len(chunks) = 1 THEN Sdpa(keys, Len(keys), window)
                         ELSE SdpaChunked(chunks, Len(keys), window)

\* The oldest keys make room, and the new ones go behind the youngest, around
\* the end of the ring; as many as the ring holds replace it.
RingWritten(c, keys, window) ==
    LET t     == Len(keys)
        evict == Greater(0, c.len + t - window)
        head  == (c.head + evict) % window
        len   == c.len - evict
        start == (head + len) % window
        first == Lesser(t, window - start)
    IN IF t >= window
       THEN [buf |-> SubSeq(keys, t - window + 1, t), pos |-> keys[1].at + t,
             len |-> window, head |-> 0]
       ELSE [buf |-> SliceSet(SliceSet(c.buf, start, SubSeq(keys, 1, first)),
                              0, SubSeq(keys, first + 1, t)),
             pos |-> keys[1].at + t, len |-> len + t, head |-> head]

-----------------------------------------------------------------------------
(* The transformer *)

\* StreamingMultiheadAttention::forward: the cache after the keys, rotated from
\* the position it is given, and what each query reads.
Attended(c, keys, window) ==
    IF window = NoWindow
    THEN LinearAttended(LinearWritten(c, keys), Len(keys))
    ELSE [cache |-> RingWritten(c, keys, window), read |-> RingRead(c, keys, window)]

\* StreamingTransformerLayer::forward after the attention: LayerOut of what
\* each input read.  The layer's cache goes behind those of the layers before.
LayerOutputs(layer, before, pos, attended) ==
    [xs     |-> [i \in DOMAIN before.xs |->
                   LayerOut(layer, before.xs[i], pos + i - 1, attended.read[i])],
     caches |-> Append(before.caches, attended.cache)]

TransformerLayer(model, l, cache, before, pos) ==
    LayerOutputs(<<model.name, l>>, before, pos,
                 Attended(cache, Rotated(before.xs, pos), model.window))

\* StreamingTransformer::forward: every layer goes by the position of the
\* first one's cursor.  model names the transformer, its depth and its window;
\* caches is empty until the first call.
Forwarded(model, caches, xs) ==
    LET old == IF caches = <<>> THEN [l \in 1..model.depth |-> InitCache(model.window)]
               ELSE caches
        pos == old[1].pos
        after[l \in 0..model.depth] ==
          IF l = 0 THEN [xs |-> xs, caches |-> <<>>]
          ELSE TransformerLayer(model, l, old[l], after[l - 1], pos)
    IN after[model.depth]

\* The reference: the whole sequence at once, every input reading itself and
\* those before it, the last `window` of them.
WholeForwarded(model, xs) ==
    LET Own(ys, i) ==
          SubSeq(Rotated(ys, 0),
                 IF model.window = NoWindow THEN 1 ELSE Greater(1, i - model.window + 1), i)
        after[l \in 0..model.depth] ==
          IF l = 0 THEN xs
          ELSE LET ys == after[l - 1] IN
                 [i \in DOMAIN xs |->
                    LayerOut(<<model.name, l>>, ys[i], i - 1, Own(ys, i))]
    IN after[model.depth]
=============================================================================
