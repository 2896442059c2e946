------------------------------- MODULE Encode -------------------------------
(***************************************************************************)
(* From samples to bytes (server/src/encode.rs, server/src/lame.rs): the   *)
(* silence a reading opens with is cut short, and the rest is encoded      *)
(* whole or frame by frame.  A sample is a number, above zero when it is   *)
(* loud; the bytes of a sample are that sample, the bytes of an mp3 a      *)
(* sequence of blocks that can only be decoded from the first.             *)
(***************************************************************************)
EXTENDS Integers, Sequences, SequencesExt

CONSTANTS
    Hop,        \* the samples whose loudness is measured together
    Keep,       \* how much of the silence is kept: LEAD_KEEP_S
    Mp3Block    \* how many samples LAME puts in a block

ASSUME EncodeAssumption ==
    /\ Hop \in Nat \ {0}
    /\ Keep \in Nat
    /\ Mp3Block \in Nat \ {0}

Format == {"mp3", "wav", "pcm"}

\* Format::parse: a request that names none is answered in mp3.
Parsed(name) == IF name = "" THEN "mp3" ELSE name

After(pcm, n) == SubSeq(pcm, n + 1, Len(pcm))

------------------------------------------------------------------------------
\* LeadTrimmer
NewTrimmer == [held |-> <<>>, scanned |-> 0, passing |-> FALSE]

\* Whole hops only, from where the last scan stopped.
LoudHops(held, scanned) ==
    {at \in {scanned + i * Hop : i \in 0 .. (Len(held) - scanned) \div Hop - 1} :
        \E i \in at + 1 .. at + Hop : held[i] > 0}

\* A mutant of Trimmed: the scan forgets that a hop may straddle two frames.
TrimmedByFrame(trimmer, pcm) ==
    LET held == trimmer.held \o pcm
        loud == LoudHops(held, trimmer.scanned)
        start == CHOOSE at \in loud : \A other \in loud : at <= other
    IN  IF trimmer.passing THEN [trimmer |-> trimmer, pcm |-> pcm]
        ELSE IF loud = {}
        THEN [trimmer |-> [trimmer EXCEPT !.held = held, !.scanned = Len(held)], pcm |-> <<>>]
        ELSE [trimmer |-> [trimmer EXCEPT !.held = <<>>, !.passing = TRUE],
              pcm |-> After(held, IF start > Keep THEN start - Keep ELSE 0)]

\* What the trimmer becomes and what it lets through.
Trimmed(trimmer, pcm) ==
    LET held == trimmer.held \o pcm
        loud == LoudHops(held, trimmer.scanned)
        start == CHOOSE at \in loud : \A other \in loud : at <= other
    IN  IF trimmer.passing THEN [trimmer |-> trimmer, pcm |-> pcm]
        ELSE IF loud = {}
        THEN [trimmer |-> [trimmer EXCEPT !.held = held, !.scanned = (Len(held) \div Hop) * Hop],
              pcm |-> <<>>]
        ELSE [trimmer |-> [trimmer EXCEPT !.held = <<>>, !.passing = TRUE],
              pcm |-> After(held, IF start > Keep THEN start - Keep ELSE 0)]

TrimLeadingSilence(pcm) ==
    LET pushed == Trimmed(NewTrimmer, pcm) IN pushed.pcm \o pushed.trimmer.held

------------------------------------------------------------------------------
\* Mp3Encoder: the samples it holds back and the blocks it has made.
NewMp3 == [held |-> <<>>, made |-> 0]

Mp3Encoded(mp3, pcm) ==
    LET all == mp3.held \o pcm
        blocks == Len(all) \div Mp3Block
    IN  [mp3 |-> [held |-> After(all, blocks * Mp3Block), made |-> mp3.made + blocks],
         bytes |-> [i \in 1 .. blocks |->
                       [at |-> mp3.made + i,
                        pcm |-> SubSeq(all, (i - 1) * Mp3Block + 1, i * Mp3Block)]]]

Mp3Flushed(mp3) == <<[at |-> mp3.made + 1, pcm |-> mp3.held]>>

\* encode: a whole reading at once.
Encoded(format, pcm) ==
    CASE format = "pcm" -> pcm
      [] format = "wav" -> <<[length |-> Len(pcm)]>> \o pcm
      [] format = "mp3" ->
             LET fed == Mp3Encoded(NewMp3, pcm) IN fed.bytes \o Mp3Flushed(fed.mp3)

------------------------------------------------------------------------------
\* Chunked: no encoder for wav, whose header carries the total length.
CanChunk(format) == format # "wav"

NewChunked(format) == [format |-> format, trimmer |-> NewTrimmer, mp3 |-> NewMp3]

Coded(chunked, pcm) ==
    IF pcm = <<>> THEN [chunked |-> chunked, bytes |-> <<>>]
    ELSE IF chunked.format = "mp3"
    THEN LET fed == Mp3Encoded(chunked.mp3, pcm)
         IN  [chunked |-> [chunked EXCEPT !.mp3 = fed.mp3], bytes |-> fed.bytes]
    ELSE [chunked |-> chunked, bytes |-> pcm]

Pushed(chunked, frame) ==
    LET trimmed == Trimmed(chunked.trimmer, frame)
    IN  Coded([chunked EXCEPT !.trimmer = trimmed.trimmer], trimmed.pcm)

\* A mutant of Finished: what the trimmer still holds is not encoded.
FinishedWithoutTail(chunked) ==
    IF chunked.format = "mp3" THEN Mp3Flushed(chunked.mp3) ELSE <<>>

Finished(chunked) ==
    LET tail == Coded(chunked, chunked.trimmer.held)
    IN  tail.bytes \o (IF chunked.format = "mp3" THEN Mp3Flushed(tail.chunked.mp3) ELSE <<>>)
=============================================================================
