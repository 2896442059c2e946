------------------------------ MODULE VoicePrompt ------------------------------
(***************************************************************************)
(* A voice cloned from audio (tts_model.rs, get_voice_state_from_tensor):  *)
(* the codec encodes it chunk by chunk with one state for all, and the     *)
(* flow LM is prompted with what comes out.                                *)
(***************************************************************************)
EXTENDS Mimi

CONSTANTS
    Prompts,         \* the signals a voice may be cloned from, none empty
    ChunkFrames,     \* voice_prompt_chunk_frames, 0 when there is none
    WholeUpTo,       \* prompts of so many frames are one chunk (120)
    ChunkTable,      \* longer ones: frames of a chunk, up to so many frames
    LongChunk,       \* the chunk of the longest (240)
    FlowDepth, BosBeforeVoice

VARIABLES
    audio,    \* the signal, made up to whole frames
    start,    \* the samples encoded
    mimi,     \* model_state
    encoded,  \* encoded_chunks
    voice     \* flow_state

vars == <<audio, start, mimi, encoded, voice>>

MadeUp(signal) ==
    LET over == Len(signal) % FrameSize
    IN signal \o Silence(IF over = 0 THEN 0 ELSE FrameSize - over)

\* adaptive_voice_prompt_chunk_frames.
AdaptiveChunkFrames(samples) ==
    LET frames == (samples + FrameSize - 1) \div FrameSize
        rows   == {i \in DOMAIN ChunkTable : frames <= ChunkTable[i].upTo}
    IN IF ChunkFrames # 0 THEN ChunkFrames
       ELSE IF frames <= WholeUpTo THEN Greater(1, frames)
       ELSE IF rows = {} THEN LongChunk
       ELSE ChunkTable[CHOOSE i \in rows : \A j \in rows : i <= j].frames

Init ==
    /\ \E signal \in Prompts : audio = MadeUp(signal)
    /\ start = 0 /\ mimi = FreshMimi /\ encoded = <<>> /\ voice = <<>>

\* One chunk; the step it is encoded at is always 0.
EncodeChunk ==
    LET size == FrameSize * AdaptiveChunkFrames(Len(audio))
        end  == Lesser(start + size, Len(audio))
        code == EncodeToLatent(mimi, SubSeq(audio, start + 1, end), 0)
    IN /\ start < Len(audio)
       /\ start' = end
       /\ mimi' = code.mimi
       /\ encoded' = encoded \o code.x
       /\ UNCHANGED <<audio, voice>>

\* run_flow_lm_prompt after the projection to the flow LM's space.  Its
\* increment_steps finds no "offset" in any module's state and changes nothing.
PromptFlowLM ==
    LET conditioning == [i \in DOMAIN encoded |-> (Weight(<<"speaker">>, 1) * encoded[i]) % Prime]
        flowLM       == [name |-> "flow_lm", depth |-> FlowDepth, window |-> NoWindow]
    IN /\ start = Len(audio) /\ voice = <<>>
       /\ voice' = Forwarded(flowLM, <<>>, <<BosBeforeVoice>> \o conditioning).caches
       /\ UNCHANGED <<audio, start, mimi, encoded>>

Next == EncodeChunk \/ PromptFlowLM

Spec == Init /\ [][Next]_vars

\* "Replicate the first frame for the initial padding" (modules/conv.rs): the
\* padding is the prompt's, so that the chunks, cut "to avoid OOM in SEANet
\* Conv1d layers" (tts_model.rs), are encoded as the whole signal would be.
ChunkedEncodesAsWhole ==
    start = Len(audio) => encoded = WholeEncode(audio)
=============================================================================
