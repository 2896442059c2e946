-------------------------------- MODULE Text --------------------------------
(***************************************************************************)
(* A text on its way to the engine (engine/src/tts_model.rs): the pause    *)
(* marks are taken out, the rest is cut after every mark that may end a    *)
(* sentence, and sentences are put together again up to a number of tokens.*)
(* A text is a sequence of words; what a word costs and how it ends is all *)
(* that is known of it.  The white space between words, the first capital  *)
(* and the spaces put before a short text are left out.                    *)
(***************************************************************************)
EXTENDS Integers, Sequences, SequencesExt

CONSTANTS
    MaxTokens,      \* MAX_TOKENS_PER_CHUNK
    WordsPerBatch   \* WORDS_PER_BATCH

ASSUME TextAssumption == /\ MaxTokens \in Nat \ {0}
                         /\ WordsPerBatch \in Nat \ {0}

\* ends: "mark" for one of . ! ? ; :, "letter", or "other" (a comma, a quote).
\* A pause mark costs no token: it never reaches the tokenizer.
Word == [ends : {"mark", "letter", "other", "pause"}, tokens : Nat]

FullStop == [ends |-> "mark", tokens |-> 1]

StripPauseMarkers(text) ==
    LET kept[i \in 0 .. Len(text)] ==
            IF i = 0 THEN <<>>
            ELSE IF text[i].ends = "pause" THEN kept[i - 1] ELSE Append(kept[i - 1], text[i])
    IN  kept[Len(text)]

PrepareTextPrompt(text) ==
    LET words == StripPauseMarkers(text)
    IN  IF words = <<>> THEN <<FullStop>>
        ELSE IF Last(words).ends = "letter"
        THEN Front(words) \o <<[Last(words) EXCEPT !.ends = "mark"]>>
        ELSE words

CountTokens(words) ==
    LET sum[i \in 0 .. Len(words)] == IF i = 0 THEN 0 ELSE sum[i - 1] + words[i].tokens
    IN  sum[Len(words)]

\* One word more: a mark ends the sentence that is open.
Read(cut, word) ==
    IF word.ends = "mark"
    THEN [done |-> Append(cut.done, Append(cut.open, word)), open |-> <<>>]
    ELSE [done |-> cut.done, open |-> Append(cut.open, word)]

\* split_inclusive: each sentence with the mark it ends with.
RawSentences(words) ==
    LET cut[i \in 0 .. Len(words)] ==
            IF i = 0 THEN [done |-> <<>>, open |-> <<>>] ELSE Read(cut[i - 1], words[i])
        all == cut[Len(words)]
    IN  IF all.open = <<>> THEN all.done ELSE Append(all.done, all.open)

\* words.chunks(WORDS_PER_BATCH)
Batches(words) ==
    [i \in 1 .. (Len(words) + WordsPerBatch - 1) \div WordsPerBatch |->
        SubSeq(words, (i - 1) * WordsPerBatch + 1,
               IF i * WordsPerBatch < Len(words) THEN i * WordsPerBatch ELSE Len(words))]

\* A batch over the limit is halved, once: a lone word leaves an empty half.
Halved(batch) ==
    LET mid == Len(batch) \div 2
    IN  IF CountTokens(batch) <= MaxTokens THEN <<batch>>
        ELSE <<SubSeq(batch, 1, mid), SubSeq(batch, mid + 1, Len(batch))>>

LongSentence(words) == FlattenSeq([i \in DOMAIN Batches(words) |-> Halved(Batches(words)[i])])

NoChunk == [words |-> <<>>, tokens |-> 0]

Flush(chunks) ==
    IF chunks.current.words = <<>> THEN chunks.done ELSE Append(chunks.done, chunks.current.words)

\* A mutant of Accumulate: a sentence added to a chunk is not counted.
AccumulateUncounted(chunks, sentence) ==
    LET tokens == CountTokens(sentence)
    IN  IF tokens > MaxTokens
        THEN [done |-> Flush(chunks) \o LongSentence(sentence), current |-> NoChunk]
        ELSE IF chunks.current.tokens + tokens > MaxTokens
        THEN [done |-> Flush(chunks), current |-> [words |-> sentence, tokens |-> tokens]]
        ELSE [done |-> chunks.done,
              current |-> [words |-> chunks.current.words \o sentence, tokens |-> tokens]]

\* One sentence more: cut up, begun anew or added to the current chunk.
Accumulate(chunks, sentence) ==
    LET tokens == CountTokens(sentence)
    IN  IF tokens > MaxTokens
        THEN [done |-> Flush(chunks) \o LongSentence(sentence), current |-> NoChunk]
        ELSE IF chunks.current.tokens + tokens > MaxTokens
        THEN [done |-> Flush(chunks), current |-> [words |-> sentence, tokens |-> tokens]]
        ELSE [done |-> chunks.done,
              current |-> [words |-> chunks.current.words \o sentence,
                           tokens |-> chunks.current.tokens + tokens]]

SplitIntoBestSentences(text) ==
    LET prepared == PrepareTextPrompt(text)
        sentences == RawSentences(prepared)
        chunks[i \in 0 .. Len(sentences)] ==
            IF i = 0 THEN [done |-> <<>>, current |-> NoChunk]
            ELSE Accumulate(chunks[i - 1], sentences[i])
    IN  IF sentences = <<>> THEN <<prepared>> ELSE Flush(chunks[Len(sentences)])
=============================================================================
