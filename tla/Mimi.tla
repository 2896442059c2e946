--------------------------------- MODULE Mimi ---------------------------------
(***************************************************************************)
(* The codec put together (models/seanet.rs, models/mimi.rs): the layers   *)
(* of its encoder and decoder under the names their state is kept by, the  *)
(* two ways through it, and what they come to on a whole signal at once.   *)
(***************************************************************************)
EXTENDS Codec

\* SEANetResnetBlock::new: a dilated convolution, then one of width one.
Resnet(name, dilation) ==
    [kind |-> "resnet",
     block |-> <<EluLayer,
                 Conv(Append(name, 1), ResidualKernelSize, 1, dilation, TRUE, FALSE),
                 EluLayer,
                 Conv(Append(name, 3), 1, 1, 1, TRUE, FALSE)>>]

Resnets(part, from) ==
    [j \in 1..ResidualLayers |-> Resnet(<<part, from + j - 1>>, DilationBase ^ (j - 1))]

StageLength == ResidualLayers + 2

\* SEANetEncoder::new, the ratios taken from the last to the first.
EncoderLayers ==
    LET Stage(n) ==
          LET from  == 1 + (n - 1) * StageLength
              ratio == Ratios[Len(Ratios) - n + 1]
          IN Resnets("encoder", from) \o
             <<EluLayer, Conv(<<"encoder", from + ResidualLayers + 1>>,
                              2 * ratio, ratio, 1, TRUE, FALSE)>>
        last == 1 + Len(Ratios) * StageLength
    IN <<Conv(<<"encoder", 0>>, KernelSize, 1, 1, TRUE, FALSE)>>
         \o Seqs!FlattenSeq([n \in 1..Len(Ratios) |-> Stage(n)])
         \o <<EluLayer, Conv(<<"encoder", last + 1>>, LastKernelSize, 1, 1, TRUE, FALSE)>>

\* SEANetDecoder::new.
DecoderLayers ==
    LET Stage(n) ==
          LET from == 1 + (n - 1) * StageLength IN
            <<EluLayer, ConvTranspose(<<"decoder", from + 1>>,
                                      2 * Ratios[n], Ratios[n], TRUE)>>
              \o Resnets("decoder", from + 2)
        last == 1 + Len(Ratios) * StageLength
    IN <<Conv(<<"decoder", 0>>, KernelSize, 1, 1, TRUE, FALSE)>>
         \o Seqs!FlattenSeq([n \in 1..Len(Ratios) |-> Stage(n)])
         \o <<EluLayer, Conv(<<"decoder", last + 1>>, LastKernelSize, 1, 1, TRUE, FALSE)>>

\* ConvTrUpsample1d and ConvDownsample1d.
Upsample == ConvTranspose(<<"upsample">>, 2 * ResampleBy, ResampleBy, FALSE)
Downsample == Conv(<<"downsample">>, 2 * ResampleBy, ResampleBy, 1, FALSE, TRUE)

EncoderTransformer ==
    [name |-> "encoder_transformer", depth |-> MimiDepth, window |-> MimiWindow]
DecoderTransformer ==
    [name |-> "decoder_transformer", depth |-> MimiDepth, window |-> MimiWindow]

\* A ModelState of the codec: the convolutions' and the transformer's.
FreshMimi == [convs |-> NoState, caches |-> <<>>]

\* frame_size: the samples of a frame.
FrameSize ==
    LET product[n \in 0..Len(Ratios)] == IF n = 0 THEN 1 ELSE product[n - 1] * Ratios[n]
    IN product[Len(Ratios)] * ResampleBy

\* MimiModel::quantize: a projection of every latent by itself.
Quantized(latents) ==
    [i \in DOMAIN latents |-> (Weight(<<"quantizer">>, 1) * latents[i]) % Prime]

\* What goes through the codec, x, beside the state that the convolutions and
\* the transformer change as it does.
Enters(x, mimi) == [x |-> x, mimi |-> mimi]

AfterConvs(c, out) == [x |-> out.x, mimi |-> [c.mimi EXCEPT !.convs = out.state]]

AfterTransformer(c, out) == [x |-> out.xs, mimi |-> [c.mimi EXCEPT !.caches = out.caches]]

Upsampled(c) == AfterConvs(c, ConvTrForward(Upsample, c.mimi.convs, c.x))

Downsampled(c, step) == AfterConvs(c, ConvForward(Downsample, c.mimi.convs, c.x, step))

Transformed(model, c) == AfterTransformer(c, Forwarded(model, c.mimi.caches, c.x))

Layered(layers, c, step) == AfterConvs(c, LayersForward(layers, c.mimi.convs, c.x, step))

\* MimiModel::decode_from_latent.
DecodeFromLatent(mimi, latent, step) ==
    Layered(DecoderLayers, Transformed(DecoderTransformer, Upsampled(Enters(latent, mimi))),
            step)

\* MimiModel::encode_to_latent: the samples made up to whole frames.
EncodeToLatent(mimi, samples, step) ==
    LET over   == Len(samples) % FrameSize
        padded == samples \o Silence(IF over = 0 THEN 0 ELSE FrameSize - over)
    IN Downsampled(
         Transformed(EncoderTransformer, Layered(EncoderLayers, Enters(padded, mimi), step)),
         step)

-----------------------------------------------------------------------------
(* The reference: the same layers over a whole signal, nothing carried *)

\* What x has to its left: zeros, or its first frame again.
WholeConv(layer, x) ==
    LET left == IF layer.replicate THEN x[1] ELSE 0 IN
      Convolved(layer, [i \in 1..PadLeft(layer) |-> left] \o x)

WholeConvTr(layer, x) == SubSeq(ConvTransposed(layer, x), 1, Len(x) * layer.stride)

WholeSimple(layer, x) ==
    CASE layer.kind = "conv" -> WholeConv(layer, x)
      [] layer.kind = "convtr" -> WholeConvTr(layer, x)
      [] layer.kind = "elu" -> [i \in DOMAIN x |-> Elu(x[i])]

WholeLayer(layer, x) ==
    IF layer.kind # "resnet" THEN WholeSimple(layer, x)
    ELSE Plus(x, InTurn(WholeSimple, layer.block, x))

WholeDecode(latents) ==
    InTurn(WholeLayer, DecoderLayers,
           WholeForwarded(DecoderTransformer, WholeConvTr(Upsample, latents)))

WholeEncode(samples) ==
    WholeConv(Downsample,
      WholeForwarded(EncoderTransformer, InTurn(WholeLayer, EncoderLayers, samples)))
=============================================================================
