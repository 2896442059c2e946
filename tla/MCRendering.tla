----------------------------- MODULE MCRendering -----------------------------
(* Three readings of two voices through two layers, and a codec of two stages; *)
(* the weights are told apart by layer and by place.                           *)
EXTENDS Rendering

NameCode(name) == 7 * Len(name) + (IF Len(name) > 1 THEN 3 * name[2] ELSE 0)
MCWeight(name, i) == (NameCode(name) + 5 * i * i + 2) % Prime
MCBias(name) == (NameCode(name) + 11) % Prime
MCElu(x) == (x * x * 3 + x) % Prime
\* Softmax attention forgets the order of the keys and knows their distance.
MCLayerOut(layer, x, at, read) ==
    (x * (layer[2] + 1) +
     Total(LAMBDA i : (2 * (at - read[i].at) + 3) * (read[i].x + 1), Len(read))) % Prime

MCNoise(id, n) == (3 * id + 5 * n + 1) % Prime
MCTimeEmbedding(s) == 7 * s * s
MCModulation(block, y) == (y * y + 11 * block) % Prime
MCBlockOut(block, x, m) == (x * m + x + block + m) % Prime

MCVoiceOf(id) == IF id = 1 THEN <<21, 34>> ELSE <<8>>
MCVoiceOffset(id) == IF id = 1 THEN 2 ELSE 1
MCTextOf(id) == CASE id = 0 -> <<40>> [] id = 1 -> <<50, 51, 52>> [] id = 2 -> <<60, 61>>
MCRatios == <<2, 3>>
=============================================================================
