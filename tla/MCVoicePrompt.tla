----------------------------- MODULE MCVoicePrompt -----------------------------
(* A codec of two stages over a few samples, its weights told apart by layer. *)
EXTENDS VoicePrompt

NameCode(name) == 7 * Len(name) + (IF Len(name) > 1 THEN 3 * name[2] ELSE 0)
MCWeight(name, i) == (NameCode(name) + 5 * i * i + 2) % Prime
MCBias(name) == (NameCode(name) + 11) % Prime
MCElu(x) == (x * x * 3 + x) % Prime
\* Softmax attention forgets the order of the keys and knows their distance.
MCLayerOut(layer, x, at, read) ==
    (x * (layer[2] + 1) +
     Total(LAMBDA i : (2 * (at - read[i].at) + 3) * (read[i].x + 1), Len(read))) % Prime

Signal(n) == [i \in 1..n |-> (i * i + 3 * i) % Prime]
MCPrompts == {Signal(n) : n \in {3, 8, 13, 20}}
MCRatios == <<2>>
MCChunkTable == <<[upTo |-> 4, frames |-> 2]>>
=============================================================================
