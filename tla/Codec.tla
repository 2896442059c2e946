-------------------------------- MODULE Codec --------------------------------
(***************************************************************************)
(* The Mimi codec as it streams (modules/conv.rs, models/seanet.rs,        *)
(* models/mimi.rs): convolutions that carry their left context from call   *)
(* to call, transposed ones that carry the overlap of their last window,   *)
(* and a windowed transformer in between.  One channel; samples are        *)
(* residues modulo Prime, on which sums and products are what they are on  *)
(* reals; the weights are any.                                             *)
(***************************************************************************)
EXTENDS Attention

CONSTANTS
    Prime, Weight(_, _), Bias(_),  \* of a layer, by its name
    Elu(_),                        \* any function that keeps zero
    Ratios,                        \* ratios of the SEANet decoder
    KernelSize, LastKernelSize, ResidualKernelSize,
    ResidualLayers, DilationBase,
    ResampleBy,                    \* encoder_frame_rate / frame_rate
    MimiDepth, MimiWindow          \* the codec's transformers

ASSUME CodecAssumption ==
    /\ Prime \in Nat \ {0, 1}
    /\ Ratios \in Seq(Nat \ {0})
    /\ {KernelSize, LastKernelSize, ResidualKernelSize, DilationBase, ResampleBy,
        MimiDepth, MimiWindow} \subseteq Nat \ {0}
    /\ ResidualLayers \in Nat

Total(f(_), n) ==
    LET sum[i \in 0..n] == IF i = 0 THEN 0 ELSE sum[i - 1] + f(i) IN sum[n]

Silence(n) == [i \in 1..n |-> 0]
Suffix(s, n) == SubSeq(s, Len(s) - n + 1, Len(s))
Plus(x, y) == [i \in DOMAIN x |-> (x[i] + y[i]) % Prime]

\* ModelState: what every layer that has run left under its name.
Kept(state, name, value) ==
    [n \in DOMAIN state \cup {name} |-> IF n = name THEN value ELSE state[n]]

NoState == [n \in {} |-> <<>>]

-----------------------------------------------------------------------------
(* The layers *)

Conv(name, kernel, stride, dilation, bias, replicate) ==
    [kind |-> "conv", name |-> name, kernel |-> kernel, stride |-> stride,
     dilation |-> dilation, bias |-> bias, replicate |-> replicate]

ConvTranspose(name, kernel, stride, bias) ==
    [kind |-> "convtr", name |-> name, kernel |-> kernel, stride |-> stride,
     bias |-> bias]

EluLayer == [kind |-> "elu"]

EffectiveKernel(layer) == (layer.kernel - 1) * layer.dilation + 1
PadLeft(layer) == Greater(0, EffectiveKernel(layer) - layer.stride)
BiasOf(layer) == IF layer.bias THEN Bias(layer.name) ELSE 0

\* Conv1d without padding.
Convolved(layer, x) ==
    [j \in 1..((Len(x) - EffectiveKernel(layer)) \div layer.stride + 1) |->
       (BiasOf(layer) +
        Total(LAMBDA i : Weight(layer.name, i) *
                         x[(j - 1) * layer.stride + (i - 1) * layer.dilation + 1],
              layer.kernel)) % Prime]

\* ConvTranspose1d: every input adds a kernel's width of outputs.
ConvTransposed(layer, x) ==
    [j \in 1..((Len(x) - 1) * layer.stride + layer.kernel) |->
       (BiasOf(layer) +
        Total(LAMBDA i : LET tap == j - (i - 1) * layer.stride IN
                IF tap \in 1..layer.kernel THEN Weight(layer.name, tap) * x[i] ELSE 0,
              Len(x))) % Prime]

\* What goes before x: the first frame repeated at step 0 of a "replicate"
\* layer, or the end of the last call, zeros before the first one.
Context(layer, state, x, step) ==
    IF step = 0 /\ layer.replicate THEN [i \in 1..PadLeft(layer) |-> x[1]]
    ELSE IF layer.name \in DOMAIN state THEN state[layer.name]
    ELSE Silence(PadLeft(layer))

\* StreamingConv1d::forward: the end of what it convolves is the next context.
ConvPadded(layer, state, padded) ==
    [x     |-> Convolved(layer, padded),
     state |-> IF PadLeft(layer) = 0 THEN state
               ELSE Kept(state, layer.name, Suffix(padded, PadLeft(layer)))]

ConvForward(layer, state, x, step) ==
    ConvPadded(layer, state,
               (IF PadLeft(layer) = 0 THEN <<>> ELSE Context(layer, state, x, step)) \o x)

\* The overlap carried over, without the bias the next call adds again.
Carried(layer, y) ==
    LET tail == Suffix(y, layer.kernel - layer.stride) IN
      [i \in DOMAIN tail |-> (tail[i] - BiasOf(layer)) % Prime]

\* The samples two calls have in common, of the last call and of this one.
Overlap(layer) == Greater(0, layer.kernel - layer.stride)

OverlapAdded(layer, state, y) ==
    LET partial == IF layer.name \in DOMAIN state THEN state[layer.name]
                                                 ELSE Silence(Overlap(layer))
    IN Plus(SubSeq(y, 1, Overlap(layer)), partial) \o SubSeq(y, Overlap(layer) + 1, Len(y))

\* StreamingConvTranspose1d::forward: all but the overlap goes out.
OverlapHeld(layer, state, y) ==
    [x     |-> SubSeq(y, 1, Len(y) - Overlap(layer)),
     state |-> IF Overlap(layer) = 0 THEN state
               ELSE Kept(state, layer.name, Carried(layer, y))]

ConvTrForward(layer, state, x) ==
    OverlapHeld(layer, state, OverlapAdded(layer, state, ConvTransposed(layer, x)))

\* A layer on its own: x and the state it leaves.
Simple(layer, acc, step) ==
    CASE layer.kind = "conv" -> ConvForward(layer, acc.state, acc.x, step)
      [] layer.kind = "convtr" -> ConvTrForward(layer, acc.state, acc.x)
      [] layer.kind = "elu" -> [acc EXCEPT !.x = [i \in DOMAIN @ |-> Elu(@[i])]]

\* Layers one after another; a resnet block adds its input to what its own
\* layers make of it.
InTurn(Op(_, _), layers, start) ==
    LET after[n \in 0..Len(layers)] ==
          IF n = 0 THEN start ELSE Op(layers[n], after[n - 1])
    IN after[Len(layers)]

Residual(acc, inner) == [x |-> Plus(acc.x, inner.x), state |-> inner.state]

LayerForward(layer, acc, step) ==
    IF layer.kind # "resnet" THEN Simple(layer, acc, step)
    ELSE Residual(acc, InTurn(LAMBDA l, a : Simple(l, a, step), layer.block, acc))

\* SEANetDecoder::forward and SEANetEncoder::forward.
LayersForward(layers, state, x, step) ==
    InTurn(LAMBDA l, a : LayerForward(l, a, step), layers, [x |-> x, state |-> state])
=============================================================================
