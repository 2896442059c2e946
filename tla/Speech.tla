------------------------------- MODULE Speech -------------------------------
(***************************************************************************)
(* One request to the TTS server (server/src/main.rs): the handler splits  *)
(* the text and submits it, the engine sends frames and sentence ends down *)
(* an unbounded channel, a task of its own encodes them into a bounded     *)
(* body, and the listener reads the body or leaves.  Wav is answered whole *)
(* once the reading is over.  What Scheduler shows of the engine is taken  *)
(* here: sentences in order, each of at least one frame, the channel       *)
(* closed at the end, by a failure or once the receiver is gone.           *)
(***************************************************************************)
EXTENDS Encode, Text, FiniteSets

CONSTANTS
    Texts,        \* what a client may ask to be read
    FrameLen,     \* the samples of a frame
    VoiceAt,      \* where in its frame a voice may begin
    MaxSentences, \* texts of more chunks are split and not read (a bound)
    MaxFrames,    \* the frames of a sentence (a bound)
    BodyCap,      \* the body channel's capacity, 16 in the code
    MaxFaults     \* how many things may fail (a bound)

ASSUME SpeechAssumption ==
    /\ Texts \subseteq Seq(Word)
    /\ FrameLen \in Nat \ {0}
    /\ VoiceAt \subseteq 1 .. FrameLen
    /\ {MaxSentences, MaxFrames, MaxFaults} \subseteq Nat
    /\ BodyCap \in Nat \ {0}

VARIABLES
    text,     \* the text of the request, forgotten once it is submitted
    asked,    \* the format of the answer and whether it is framed
    answer,   \* the status answered, 0 before
    sentences, \* how many chunks the engine was given
    ended,    \* how many it has ended
    spoken,   \* the samples it has sent of each
    closed,   \* it has dropped the Job and with it the channel's sender
    channel,  \* pieces sent and not received
    task,     \* where the handler, then the body's task, is
    coder,    \* the encoder, whether it was fed, and the piece being made
    body,     \* pieces in the body channel
    heard,    \* what the listener has of the body
    gone,     \* the listener has left
    faults    \* things that may still fail

requestVars == <<text, asked, answer>>
engineVars == <<sentences, ended, spoken, closed>>
vars == <<requestVars, engineVars, channel, task, coder, body, heard, gone, faults>>

\* A frame is a sequence of samples, never empty; an empty piece ends a sentence.
SegmentEnd == <<>>

NoCoder == [enc |-> NewChunked("pcm"), fed |-> FALSE, segment |-> <<>>, sending |-> <<>>]

\* "idle"     not asked yet             "first"   waiting for the first frame
\* "stream"   the task encodes          "sending" and waits for room in the body
\* "tail"     sends what was left       "buffered" the handler collects a wav
\* "over"     the receiver is dropped    "cut"     so is it, by an encoder failing
Tasks == {"idle", "first", "stream", "sending", "tail", "buffered", "over", "cut"}

Receiving == task \notin {"over", "cut"}

Init ==
    /\ text \in Texts
    /\ asked = [format |-> "mp3", framed |-> FALSE]
    /\ answer = 0
    /\ sentences = 0 /\ ended = 0 /\ spoken = <<>> /\ closed = FALSE
    /\ channel = <<>> /\ task = "idle" /\ coder = NoCoder
    /\ body = <<>> /\ heard = <<>> /\ gone = FALSE
    /\ faults = MaxFaults

------------------------------------------------------------------------------
(* The handler, up to its answer.                                          *)

\* speech, up to submit: an empty text is refused, the rest split and
\* submitted, which every slot being busy refuses too.
Ask ==
    /\ task = "idle"
    /\ \E name \in Format \cup {""}, framed \in BOOLEAN :
           asked' = [format |-> Parsed(name), framed |-> framed /\ CanChunk(Parsed(name))]
    /\ LET chunks == Len(SplitIntoBestSentences(text))
       IN  IF text = <<>>
           THEN answer' = 400 /\ task' = "over" /\ sentences' = 0
           ELSE /\ chunks <= MaxSentences
                /\ \/ answer' = 503 /\ task' = "over" /\ sentences' = 0
                   \/ answer' = answer /\ task' = "first" /\ sentences' = chunks
    /\ closed' = (task' = "over")
    /\ text' = <<>>
    /\ UNCHANGED <<ended, spoken, channel, coder, body, heard, gone, faults>>

\* The handler waits for the first frame, which comes before any sentence's
\* end; a channel closed without one is an error, and so is an encoder that
\* fails.  Streamed, that frame is the first piece the body's task handles.
AwaitFirst ==
    /\ task = "first"
    /\ \/ /\ channel = <<>> /\ closed
          /\ answer' = 500 /\ task' = "over"
          /\ UNCHANGED <<coder, channel, faults>>
       \/ /\ channel # <<>> /\ CanChunk(asked.format)
          /\ answer' = 200 /\ task' = "stream"
          /\ coder' = [NoCoder EXCEPT !.enc = NewChunked(asked.format)]
          /\ UNCHANGED <<channel, faults>>
       \/ /\ channel # <<>> /\ ~ CanChunk(asked.format)
          /\ task' = "buffered"
          /\ coder' = [NoCoder EXCEPT !.segment = Head(channel)]
          /\ channel' = Tail(channel)
          /\ UNCHANGED <<answer, faults>>
       \/ /\ channel # <<>> /\ asked.format = "mp3" /\ faults > 0
          /\ answer' = 500 /\ task' = "over" /\ faults' = faults - 1
          /\ UNCHANGED <<coder, channel>>
    /\ UNCHANGED <<text, asked, engineVars, body, heard, gone>>

\* buffered: every frame is kept, sentence ends are not.
Collect ==
    /\ task = "buffered" /\ channel # <<>>
    /\ coder' = [coder EXCEPT !.segment = @ \o Head(channel)]
    /\ channel' = Tail(channel)
    /\ UNCHANGED <<requestVars, engineVars, task, body, heard, gone, faults>>

AnswerWhole ==
    /\ task = "buffered" /\ channel = <<>> /\ closed
    /\ answer' = 200 /\ task' = "over"
    /\ body' = <<Encoded(asked.format, TrimLeadingSilence(coder.segment))>>
    /\ UNCHANGED <<text, asked, engineVars, channel, coder, heard, gone, faults>>

------------------------------------------------------------------------------
(* The body's task.                                                        *)

\* What one piece makes of the encoder: a sentence's end flushes it and puts
\* a fresh one in its place.
Fed(piece) ==
    IF piece = SegmentEnd
    THEN [coder EXCEPT !.enc = NewChunked(asked.format), !.fed = FALSE,
                       !.sending = Finished(coder.enc)]
    ELSE LET pushed == Pushed(coder.enc, piece)
         IN  [coder EXCEPT !.enc = pushed.chunked, !.fed = TRUE, !.sending = pushed.bytes]

\* Framed, bytes are gathered until the sentence ends; otherwise they go out.
Gathered(made, end) ==
    IF ~ asked.framed THEN made
    ELSE IF end THEN [made EXCEPT !.segment = <<>>, !.sending = made.segment \o @]
    ELSE [made EXCEPT !.segment = @ \o made.sending, !.sending = <<>>]

Encode ==
    /\ task = "stream" /\ channel # <<>>
    /\ coder' = Gathered(Fed(Head(channel)), Head(channel) = SegmentEnd)
    /\ channel' = Tail(channel)
    /\ task' = IF coder'.sending = <<>> THEN "stream" ELSE "sending"
    /\ UNCHANGED <<requestVars, engineVars, body, heard, gone, faults>>

\* An encoder that cannot be made, fed or flushed cuts the body where it is.
EncodeFails ==
    /\ task = "stream" /\ asked.format = "mp3" /\ faults > 0
    /\ channel # <<>> \/ closed
    /\ task' = "cut" /\ faults' = faults - 1
    /\ UNCHANGED <<requestVars, engineVars, channel, coder, body, heard, gone>>

\* The channel closed: a sentence the engine did not end is flushed as it is.
FlushTail ==
    /\ task = "stream" /\ channel = <<>> /\ closed
    /\ LET tail == coder.segment \o Finished(coder.enc)
       IN  IF ~ coder.fed \/ tail = <<>>
           THEN task' = "over" /\ coder' = coder
           ELSE task' = "tail" /\ coder' = [coder EXCEPT !.segment = <<>>, !.sending = tail]
    /\ UNCHANGED <<requestVars, engineVars, channel, body, heard, gone, faults>>

\* A mutant of Send: it waits for room even when the listener has left.
SendWhenRoom ==
    /\ task \in {"sending", "tail"}
    /\ Len(body) < BodyCap /\ ~ gone
    /\ body' = Append(body, coder.sending)
    /\ coder' = [coder EXCEPT !.sending = <<>>]
    /\ task' = IF task = "tail" THEN "over" ELSE "stream"
    /\ UNCHANGED <<requestVars, engineVars, channel, heard, gone, faults>>

\* tx.send waits for room, or fails when the body was dropped.
Send ==
    /\ task \in {"sending", "tail"}
    /\ IF gone
       THEN task' = "over" /\ UNCHANGED <<body, coder>>
       ELSE /\ Len(body) < BodyCap
            /\ body' = Append(body, coder.sending)
            /\ coder' = [coder EXCEPT !.sending = <<>>]
            /\ task' = IF task = "tail" THEN "over" ELSE "stream"
    /\ UNCHANGED <<requestVars, engineVars, channel, heard, gone, faults>>

------------------------------------------------------------------------------
(* The listener.                                                           *)

Hear ==
    /\ ~ gone /\ body # <<>>
    /\ heard' = Append(heard, Head(body))
    /\ body' = Tail(body)
    /\ UNCHANGED <<requestVars, engineVars, channel, task, coder, gone, faults>>

\* Leaving drops the body, or the handler while it has not answered.
Leave ==
    /\ task # "idle" /\ ~ gone
    /\ gone' = TRUE
    /\ body' = <<>>
    /\ task' = IF task \in {"first", "buffered"} THEN "over" ELSE task
    /\ UNCHANGED <<requestVars, engineVars, channel, coder, heard, faults>>

------------------------------------------------------------------------------
(* The engine's side of the reading.                                       *)

otherVars == <<requestVars, task, coder, body, heard, gone>>

Begun == Len(spoken) > ended

\* What it has sent of the sentence it is at.
Sentence == IF Begun THEN spoken[ended + 1] ELSE <<>>

\* The next frame: silent, or loud from `at` on; loud once a voice was heard.
FrameFrom(at) ==
    LET before == Len(FlattenSeq(spoken))
    IN  [i \in 1 .. FrameLen |-> IF i >= at THEN before + i ELSE - (before + i)]

Voices ==
    IF \E i \in DOMAIN Sentence : Sentence[i] > 0 THEN {1} ELSE VoiceAt \cup {FrameLen + 1}

\* A frame is sent, or the reading dropped because nobody receives.
Speak ==
    /\ ~ closed /\ ended < sentences
    /\ Len(Sentence) < MaxFrames * FrameLen
    /\ IF Receiving
       THEN \E at \in Voices :
                /\ spoken' = Append(SubSeq(spoken, 1, ended), Sentence \o FrameFrom(at))
                /\ channel' = Append(channel, FrameFrom(at))
                /\ UNCHANGED closed
       ELSE closed' = TRUE /\ UNCHANGED <<spoken, channel>>
    /\ UNCHANGED <<otherVars, sentences, ended, faults>>

EndSentence ==
    /\ ~ closed /\ Begun
    /\ IF Receiving
       THEN /\ ended' = ended + 1 /\ channel' = Append(channel, SegmentEnd)
            /\ UNCHANGED closed
       ELSE closed' = TRUE /\ UNCHANGED <<ended, channel>>
    /\ UNCHANGED <<otherVars, sentences, spoken, faults>>

\* After the last sentence the Job is dropped, and its channel closed.
EndReading ==
    /\ ~ closed /\ sentences > 0 /\ ended = sentences
    /\ closed' = TRUE
    /\ UNCHANGED <<otherVars, channel, sentences, ended, spoken, faults>>

\* Whatever fails in the engine drops the Job as the end does.
ReadingFails ==
    /\ ~ closed /\ sentences > 0 /\ faults > 0
    /\ closed' = TRUE /\ faults' = faults - 1
    /\ UNCHANGED <<otherVars, channel, sentences, ended, spoken>>

------------------------------------------------------------------------------
EngineSteps == Speak \/ EndSentence \/ EndReading
TaskSteps == AwaitFirst \/ Collect \/ AnswerWhole \/ Encode \/ FlushTail \/ Send
Listener == Hear \/ Leave

Next == Ask \/ EngineSteps \/ ReadingFails \/ TaskSteps \/ EncodeFails \/ Listener

\* The engine's thread and the runtime's tasks go on; a sentence ends by its
\* budget of frames.  Nothing is asked of the listener.
Spec == Init /\ [][Next]_vars /\ WF_vars(EngineSteps) /\ WF_vars(TaskSteps)

------------------------------------------------------------------------------
(* Reference definitions.                                                  *)

\* The silence before the first loud hop, but for the last Keep samples of it.
WithoutLead(pcm) ==
    LET quiet == {n \in 0 .. Len(pcm) \div Hop : \A i \in 1 .. n * Hop : pcm[i] < 0}
        lead == CHOOSE n \in quiet : \A other \in quiet : other <= n
    IN  IF lead = Len(pcm) \div Hop \/ lead * Hop <= Keep THEN pcm
        ELSE After(pcm, lead * Hop - Keep)

EncodedAlone(pcm) == Encoded(asked.format, WithoutLead(pcm))

AllEncoded == FlattenSeq([i \in DOMAIN spoken |-> EncodedAlone(spoken[i])])

Sent == heard \o body

------------------------------------------------------------------------------
(* Properties.                                                             *)

\* What a listener holds can always be played: framed, every piece is one
\* sentence encoded on its own (main.rs:252); otherwise the bytes so far begin
\* the stream of all the sentences, each encoded on its own (main.rs:262).
HeardIsPlayable ==
    CanChunk(asked.format) =>
        IF asked.framed
        THEN \A i \in DOMAIN Sent : Sent[i] = EncodedAlone(spoken[i])
        ELSE IsPrefix(FlattenSeq(Sent), AllEncoded)

\* A body that ends, no encoder having failed and its listener still there,
\* holds all the engine sent, a sentence the engine did not end included.
NothingLost ==
    task = "over" /\ answer = 200 /\ ~ gone =>
        FlattenSeq(Sent) = IF CanChunk(asked.format) THEN AllEncoded
                           ELSE EncodedAlone(FlattenSeq(spoken))

\* Splitting (split_into_best_sentences) loses, doubles and moves no word; a
\* sentence is cut only when it is over the limit by itself, and a chunk over
\* the limit is half a batch of such a sentence at most.
SplitKeepsText ==
    LET chunks == SplitIntoBestSentences(text)
        cuts == {Len(FlattenSeq(SubSeq(chunks, 1, i))) : i \in DOMAIN chunks}
        whole == RawSentences(PrepareTextPrompt(text))
        From(i) == Len(FlattenSeq(SubSeq(whole, 1, i - 1)))
    IN  /\ FlattenSeq(chunks) = PrepareTextPrompt(text)
        /\ \A i \in DOMAIN whole : CountTokens(whole[i]) <= MaxTokens =>
             \A cut \in cuts : cut <= From(i) \/ cut >= From(i) + Len(whole[i])
        /\ \A i \in DOMAIN chunks : CountTokens(chunks[i]) <= MaxTokens
                                    \/ 2 * Len(chunks[i]) <= WordsPerBatch + 1

\* The engine is done with every reading whatever the listener does, who may
\* neither read the body nor leave; a listener who does one or the other sees
\* every body end.
EveryRequestEnds ==
    /\ task # "idle" ~> closed
    /\ WF_vars(Listener) => (task # "idle" ~> ~ Receiving)
=============================================================================
