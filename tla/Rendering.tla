------------------------------ MODULE Rendering ------------------------------
(***************************************************************************)
(* What the batcher renders (batch.rs over attention.rs, transformer.rs,   *)
(* flow_lm.rs and mimi.rs): BatcherSpec's actions with the caches and the  *)
(* samples they work on.  The reference beside it is                       *)
(* generate_stream_segment (tts_model.rs): the same text read alone, from  *)
(* a linear cache per layer, with the same noise.                          *)
(***************************************************************************)
EXTENDS BatcherSpec, StackedKv, Mimi, FlowNet

CONSTANTS
    VoiceOf(_),     \* the voice each reading is given: what its keys come from
    VoiceOffset(_), \* and the position it was exported at
    TextOf(_),      \* the embedded tokens of each reading's prepared text
    BosEmb,
    Noise(_, _)     \* sample_noise: for a frame of a reading

\* A voice and a text are numbers to the layers, and no text is empty: of an
\* empty one prepare_text_prompt makes a full stop.
ASSUME RenderingAssumption ==
    /\ \A id \in 0..(MaxStreams - 1) :
         /\ VoiceOf(id) \in Seq(Int) /\ VoiceOffset(id) \in Nat
         /\ TextOf(id) \in Seq(Int) \ {<<>>}
    /\ BosEmb \in Int
    /\ MaxStreams # 0

VARIABLES
    kv,       \* caches: one stack per layer of the flow LM
    reading,  \* of each stream: backbone_input, mimi_state and what it yielded
    finished, \* history: the same of the streams the last step was done with
    spoiled,  \* history: the streams a step failed on
    pushes    \* history: the steps that reached the caches

renderVars == <<batchVars, kv, reading, finished, spoiled, pushes>>

FlowLM == [name |-> "flow_lm", depth |-> Layers, window |-> NoWindow]

\* get_voice_state_from_kv_tensors: keys are there as exported, rotated.
VoiceState(id) ==
    [l \in 1..Layers |->
       [buf |-> Rotated(VoiceOf(id), 0), pos |-> VoiceOffset(id),
        len |-> Lesser(Len(VoiceOf(id)), VoiceOffset(id)), head |-> 0]]

\* The copy of the voice state after the text: a cache per layer.
Prompted(id) == Forwarded(FlowLM, VoiceState(id), TextOf(id)).caches

KeptKeys(cache) == SubSeq(cache.buf, 1, cache.len)

\* streams[i] in the order of the vector: ids only grow.
InOrder(ids) ==
    [i \in 1..Cardinality(ids) |->
       CHOOSE id \in ids : Cardinality({j \in ids : j <= id}) = i]

IndexOf(ids, id) == Cardinality({j \in ids : j <= id})

\* A stream of the batch as it starts.
FreshReading == [input |-> BosEmb, mimi |-> FreshMimi, audio |-> <<>>]

NoReadings == [id \in {} |-> FreshReading]

RenderInit ==
    /\ BatchInit
    /\ kv = [l \in 1..Layers |-> EmptyStack]
    /\ reading = NoReadings
    /\ finished = NoReadings
    /\ spoiled = {}
    /\ pushes = 0

\* Batcher::add: the prompt's rows into layers 1..n.
RowsAdded(prompted, n) ==
    [l \in 1..Layers |->
       IF l <= n THEN RowAdded(kv[l], KeptKeys(prompted[l]), prompted[l].pos)
                 ELSE kv[l]]

AddReading ==
    /\ Add
    /\ kv' = RowsAdded(Prompted(batch.next), Layers)
    /\ reading' = [id \in Ids(batch') |->
                     IF id = batch.next THEN FreshReading ELSE reading[id]]
    /\ finished' = NoReadings
    /\ UNCHANGED <<spoiled, pushes>>

AddReadingFails ==
    /\ batch.next < MaxStreams
    /\ \E n \in FailingLayers :
         /\ batch' = PartiallyAdded(batch, n)
         /\ kv' = RowsAdded(Prompted(batch.next), n)
    /\ faults' = faults + 1
    /\ finished' = NoReadings
    /\ UNCHANGED <<reading, spoiled, pushes>>

\* remove_at, for the places of some streams, from the last to the first.
RowsRemoved(stacks, ids, gone) ==
    LET places == {IndexOf(ids, id) : id \in gone}
        last   == Cardinality(ids)
        Out(c) == LET after[i \in 0..last] ==
                        IF i = 0 THEN c
                        ELSE IF last + 1 - i \in places
                             THEN RowRemoved(after[i - 1], last + 1 - i)
                             ELSE after[i - 1]
                  IN after[last]
    IN [l \in 1..Layers |-> Out(stacks[l])]

RemoveReading ==
    /\ \E id \in 0..(batch.next - 1) :
         /\ batch' = Removed(batch, id)
         /\ kv' = RowsRemoved(kv, Ids(batch), {id} \cap Ids(batch))
    /\ reading' = Restrict(reading, Ids(batch'))
    /\ finished' = NoReadings
    /\ UNCHANGED <<faults, spoiled, pushes>>

\* The caches through n layers over all streams, in the order of the rows, and
\* the last hidden values: forward_stacked of the transformer.
FramesOf(ids, n) ==
    LET order == InOrder(ids)
    IN StacksForwarded(FlowLM, kv, [i \in DOMAIN order |-> reading[order[i]].input], n)

\* FlowLMModel::forward_stacked after it: the next latent of every row.
LatentsOf(ids, hidden) ==
    LET order == InOrder(ids)
    IN NextLatents(hidden, [i \in DOMAIN order |->
                              Noise(order[i], batch.streams[order[i]].step)])

\* A latent out of the space the flow LM was trained in: emb_std and emb_mean.
Denormed(latent) == (latent * Weight(<<"emb_std">>, 1) + Bias(<<"emb_mean">>)) % Prime

\* What a stream is after its frame: the latent is its next input, and the
\* codec's state moves on.
FramePlayed(before, latent, decoded) ==
    [input |-> latent, mimi |-> decoded.mimi, audio |-> before.audio \o decoded.x]

\* Every stream decodes its own latent, at its own step, from its own state.
Decoded(id, latent) ==
    DecodeFromLatent(reading[id].mimi, Quantized(<<Denormed(latent)>>), batch.streams[id].step)

AllPlayed(ids, latents) ==
    [id \in ids |->
       FramePlayed(reading[id], latents[IndexOf(ids, id)],
                   Decoded(id, latents[IndexOf(ids, id)]))]

\* forward_stacked refuses a batch that is not Aligned in its first layer, before
\* any cache has changed: the first layer has what any addition left behind.
StepAll ==
    /\ Aligned(batch)
    /\ \E out \in {FramesOf(Ids(batch), Layers)} :
       \E latents \in {LatentsOf(Ids(batch), out.xs)} :
       \E played \in {AllPlayed(Ids(batch), latents)} :
         /\ Step
         /\ kv' = RowsRemoved(out.caches, Ids(batch), Ids(batch) \ Ids(batch'))
         /\ reading' = Restrict(played, Ids(batch'))
         /\ finished' = Restrict(played, Ids(batch) \ Ids(batch'))
    /\ pushes' = pushes + 1
    /\ UNCHANGED spoiled

\* A step that fails after some layers took their column, or while decoding:
\* every stream in it may have a key too many, and those that moved on more.
StepAllFails ==
    /\ Ids(batch) # {} /\ Aligned(batch)
    /\ CanFail("step")
    /\ \/ \E n \in 0..Layers :
            /\ kv' = FramesOf(Ids(batch), n).caches
            /\ batch' = StepFailed(batch, {}, {})
            /\ UNCHANGED reading
       \/ \E out \in {FramesOf(Ids(batch), Layers)} :
          \E latents \in {LatentsOf(Ids(batch), out.xs)} :
          \E played \in {AllPlayed(Ids(batch), latents)} :
          \E moved \in SUBSET Ids(batch) :
            /\ kv' = out.caches
            /\ reading' = [id \in Ids(batch) |->
                             IF id \in moved THEN played[id] ELSE reading[id]]
            /\ \E eos \in SUBSET moved : batch' = StepFailed(batch, moved, eos)
    /\ faults' = faults + 1
    /\ spoiled' = spoiled \cup Ids(batch)
    /\ finished' = NoReadings
    /\ pushes' = pushes + 1

RenderNext ==
    AddReading \/ AddReadingFails \/ RemoveReading \/ StepAll \/ StepAllFails

RenderSpec == RenderInit /\ [][RenderNext]_renderVars

-----------------------------------------------------------------------------
(* The reference: every text read alone *)

\* The latest latent, or the beginning of speech: what the flow LM goes on from.
NextInput(latents) == IF latents = <<>> THEN BosEmb ELSE latents[Len(latents)]

\* generate_stream_segment: the linear caches and the latents after n frames.
OneFrameMore(latents, noise, forwarded) ==
    [caches  |-> forwarded.caches,
     latents |-> Append(latents, NextLatents(forwarded.xs, <<noise>>)[1])]

Alone ==
    [id \in 0..(MaxStreams - 1) |->
       LET after[n \in 0..MaxGenLen] ==
             IF n = 0 THEN [caches |-> Prompted(id), latents |-> <<>>]
             ELSE OneFrameMore(after[n - 1].latents, Noise(id, n - 1),
                               Forwarded(FlowLM, after[n - 1].caches,
                                         <<NextInput(after[n - 1].latents)>>))
       IN after]

\* Its audio: the codec over all its latents at once.
AloneAudio ==
    [id \in 0..(MaxStreams - 1) |->
       [n \in 0..MaxGenLen |->
          IF n = 0 THEN <<>>
          ELSE WholeDecode(Quantized([i \in 1..n |-> Denormed(Alone[id][n].latents[i])]))]]

LongestPrompt ==
    CHOOSE n \in {Len(VoiceOf(id)) + Len(TextOf(id)) : id \in 0..(MaxStreams - 1)} :
      \A id \in 0..(MaxStreams - 1) : Len(VoiceOf(id)) + Len(TextOf(id)) <= n

-----------------------------------------------------------------------------
(* Properties *)

\* Streams no step failed on.
Sound == Ids(batch) \ spoiled

\* "one text must come out identical whether it is read alone [...] or next to
\* other streams" (examples/batch_parity.rs): whatever is added, removed, done
\* or failed around it, a stream no step failed on has in every layer the row
\* it would have alone, at the same position, and the same latent to go on from.
\* It says so of every batch forward_stacked would step: rows that an addition
\* left behind must never let the counts agree again with the rows mixed up.
ReadAsAlone ==
    Aligned(batch) => \A id \in Sound : \E alone \in {Alone[id][batch.streams[id].step]} :
      /\ reading[id].input = NextInput(alone.latents)
      /\ \A l \in 1..Layers :
           /\ RowOf(kv[l], IndexOf(Ids(batch), id)) = KeptKeys(alone.caches[l])
           /\ kv[l].pos[IndexOf(Ids(batch), id)] = alone.caches[l].pos

\* What such a stream yielded, frame by frame through a codec that carries its
\* state, is its latents decoded as one signal, to its last frame.
PlayedAsAlone ==
    /\ \A id \in Sound : reading[id].audio = AloneAudio[id][batch.streams[id].step]
    /\ \A id \in DOMAIN finished \ spoiled :
         \E n \in 1..MaxGenLen : finished[id].audio = AloneAudio[id][n]

\* A stack keeps the rows the batch counts, all in one buffer of so many columns, and
\* its columns are those of the longest prompt and one for every step since the
\* start.  None is ever given back, not even when the batch empties.
StacksBounded ==
    \A l \in 1..Layers :
      /\ GoodStack(kv[l]) /\ Rows(kv[l]) = batch.rows[l]
      /\ kv[l].cur <= LongestPrompt + pushes
=============================================================================
