------------------------------- MODULE FlowNet -------------------------------
(***************************************************************************)
(* The flow network (modules/mlp.rs, models/flow_lm.rs): noise is moved    *)
(* towards a latent in a few steps, by residual blocks modulated by where  *)
(* the transformer is and by the time of the step.  The modulations of all *)
(* rows and steps come out of one product per block, rows and steps in one *)
(* dimension, and are taken apart again.                                   *)
(***************************************************************************)
EXTENDS Codec

CONSTANTS
    DecodeSteps,        \* lsd_decode_steps
    ResBlocks,          \* res_blocks; the final layer comes after them
    TimeEmbedding(_),   \* what compute_time_embeddings gives for a step
    Modulation(_, _),   \* shift, scale and gate of a block, by its adaLN
    BlockOut(_, _, _)   \* a block's output: block, input and modulation

ASSUME FlowNetAssumption ==
    /\ DecodeSteps \in Nat \ {0}
    /\ ResBlocks \in Nat
    /\ \A s \in 1..DecodeSteps : TimeEmbedding(s) \in Int

\* Mutant: the flat dimension is taken for steps of rows, not rows of steps.
PerStepTransposed(flat, s) ==
    LET rows == Len(flat) \div DecodeSteps IN [i \in 1..rows |-> flat[(s - 1) * rows + i]]

\* per_step: what each row has for step s.
PerStep(flat, s) ==
    [i \in 1..(Len(flat) \div DecodeSteps) |-> flat[(i - 1) * DecodeSteps + s]]

\* precompute_modulations: of every step and block, one for each row.
PrecomputedModulations(rows) ==
    LET y == [n \in 1..(Len(rows) * DecodeSteps) |->
                (rows[((n - 1) \div DecodeSteps) + 1]
                 + TimeEmbedding(((n - 1) % DecodeSteps) + 1)) % Prime]
    IN [s \in 1..DecodeSteps |->
          [block \in 1..(ResBlocks + 1) |->
             PerStep([n \in DOMAIN y |-> Modulation(block, y[n])], s)]]

\* ResBlock::forward and FinalLayer::forward, for every row.
BlockForward(block, x, modulation) ==
    [i \in DOMAIN x |-> BlockOut(block, x[i], modulation[i])]

\* forward_step_cached: the blocks, then the final layer.
ForwardStepCached(x, modulations) ==
    LET after[block \in 0..(ResBlocks + 1)] ==
          IF block = 0 THEN x
          ELSE BlockForward(block, after[block - 1], modulations[block])
    IN after[ResBlocks + 1]

\* lsd_decode: Euler steps from the noise.
LsdDecode(modulations, noise) ==
    LET after[s \in 0..DecodeSteps] ==
          IF s = 0 THEN noise
          ELSE LET current == after[s - 1]
               IN Plus(current, ForwardStepCached(current, modulations[s]))
    IN after[DecodeSteps]

\* The next latent of every row of the transformer's last frame.
NextLatents(hidden, noise) == LsdDecode(PrecomputedModulations(hidden), noise)
=============================================================================
