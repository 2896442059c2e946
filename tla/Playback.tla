------------------------------ MODULE Playback ------------------------------
(***************************************************************************)
(* A reading played in the browser (sdk-react/src/useVoicePlayback.ts and  *)
(* frames.ts): the hook's play, stop and toggle, the async function a press *)
(* starts, the callbacks its pieces are decoded and heard by.  A press is a *)
(* reading of its own; one that was stopped lives on until its promises    *)
(* settle, beside the next.  Times are relative to the context's clock.    *)
(***************************************************************************)
EXTENDS Integers, Sequences, FiniteSets, SequencesExt

CONSTANTS
    Bodies,    \* what may be answered: pieces by their lengths, and bytes cut off
    MaxPlays,  \* bound: presses that start a reading
    MaxBad     \* bound: pieces that do not decode and bodies that break

ASSUME PlaybackAssumption ==
    /\ MaxPlays \in Nat /\ MaxBad \in Nat
    /\ Bodies \subseteq [pieces : Seq(Nat), cut : Nat]

VARIABLES
    state,     \* the hook's state
    current,   \* the reading stopRef and abortRef belong to, or 0
    readings   \* every reading started, oldest first

vars == <<state, current, readings>>

Later(a, b) == IF a >= b THEN a ELSE b

------------------------------------------------------------------------------
(* frames.ts *)

\* DataView.getUint32: four bytes, the most significant first.
GetUint32(buffer) == ((buffer[1] * 256 + buffer[2]) * 256 + buffer[3]) * 256 + buffer[4]

\* Whether the buffer begins with a whole frame.
HoldsFrame(buffer) == Len(buffer) >= 4 /\ Len(buffer) >= 4 + GetUint32(buffer)

\* A mutant: the rest is taken without counting the length in.
FrameTakenShort(read) ==
    [frames |-> Append(read.frames, SubSeq(read.rest, 5, 4 + GetUint32(read.rest))),
     rest   |-> SubSeq(read.rest, GetUint32(read.rest) + 1, Len(read.rest))]

\* onFrame is given what is behind the length, the buffer goes on after it.
FrameTaken(read) ==
    LET total == 4 + GetUint32(read.rest)
    IN  [frames |-> Append(read.frames, SubSeq(read.rest, 5, total)),
         rest   |-> SubSeq(read.rest, total + 1, Len(read.rest))]

\* The inner loop of readFrames: every frame the buffer holds, and the rest.  A
\* frame has four bytes at least.
FramesRead(buffer) ==
    LET turns == Len(buffer) \div 4
        read[turn \in 0 .. turns] ==
          IF turn = 0 THEN [frames |-> <<>>, rest |-> buffer]
          ELSE IF HoldsFrame(read[turn - 1].rest) THEN FrameTaken(read[turn - 1])
          ELSE read[turn - 1]
    IN  read[turns]

\* The body a server writes: each piece behind its length; what it holds of
\* piece i is told by the number i.
Framed(pieces) ==
    LET body[n \in 0 .. Len(pieces)] ==
          IF n = 0 THEN <<>>
          ELSE body[n - 1] \o <<0, 0, 0, pieces[n]>> \o [b \in 1 .. pieces[n] |-> n]
    IN  body[Len(pieces)]

BytesOf(body) == SubSeq(Framed(body.pieces), 1, Len(Framed(body.pieces)) - body.cut)

------------------------------------------------------------------------------
(* The variables of play()'s closure, its context and its sources. *)

NoBody == [pieces |-> <<>>, cut |-> 0]

Pressed ==
    [phase |-> "asking", cancelled |-> FALSE, open |-> TRUE,
     body |-> NoBody, arrived |-> 0, buffer |-> <<>>, given |-> <<>>,
     decoding |-> {}, sources |-> <<>>, nextStartAt |-> 0,
     scheduled |-> 0, sourcesDone |-> 0, streamDone |-> FALSE, bad |-> 0]

Init == state = "idle" /\ current = 0 /\ readings = <<>>

Update(r, reading) == readings' = [readings EXCEPT ![r] = reading]

\* A mutant: done as soon as all that was scheduled has been heard.
FinishIfDoneEarly(reading) ==
    IF reading.scheduled = reading.sourcesDone /\ state = "playing" THEN "idle" ELSE state

\* finishIfDone: the state after it, whichever reading calls.
FinishIfDone(reading) ==
    IF /\ reading.streamDone /\ reading.scheduled = reading.sourcesDone
       /\ state = "playing"
    THEN "idle" ELSE state

\* source.start(startAt), and where the next piece may start.
Started(reading, piece, startAt) ==
    [reading EXCEPT
        !.decoding = @ \ {piece},
        !.sources = Append(@, [piece |-> piece, wait |-> startAt,
                               left |-> Len(reading.given[piece]), ended |-> FALSE]),
        !.nextStartAt = startAt + Len(reading.given[piece])]

Undecoded(reading, piece) == [reading EXCEPT !.decoding = @ \ {piece}, !.bad = @ + 1]

\* A mutant: the context stays open.
CancelledOnly(reading) == [reading EXCEPT !.cancelled = TRUE]

\* stopRef.current and abortRef.current.abort().
Cancelled(reading) == [reading EXCEPT !.cancelled = TRUE, !.open = FALSE]

Bad == FoldSeq(LAMBDA reading, n : reading.bad + n, 0, readings)

------------------------------------------------------------------------------
(* The button *)

Stop ==
    /\ readings' = IF current = 0 THEN readings
                   ELSE [readings EXCEPT ![current] = Cancelled(@)]
    /\ current' = 0
    /\ state' = IF state = "unavailable" THEN state ELSE "idle"

Play ==
    /\ Len(readings) < MaxPlays
    /\ readings' = Append(readings, Pressed)
    /\ current' = Len(readings')
    /\ state' = "loading"

Toggle == IF state \in {"playing", "loading"} THEN Stop ELSE Play

------------------------------------------------------------------------------
(* The async function of reading r *)

\* catch: what a stopped reading throws is nobody's concern.
Thrown(r, reading) ==
    /\ Update(r, [reading EXCEPT !.phase = "failed"])
    /\ state' = IF reading.cancelled THEN state ELSE "unavailable"
    /\ UNCHANGED current

\* Whatever is awaited of the network throws once the controller is aborted.
Aborted(r) ==
    /\ readings[r].phase \in {"asking", "frames", "whole"} /\ readings[r].cancelled
    /\ Thrown(r, readings[r])

\* resolve, fetch and the look at the answer: nothing between them is read.
Refused(r) ==
    /\ readings[r].phase = "asking" /\ ~ readings[r].cancelled
    /\ Thrown(r, readings[r])

Answered(r) ==
    /\ readings[r].phase = "asking" /\ ~ readings[r].cancelled
    /\ \E body \in Bodies, phase \in {"frames", "whole"} :
         Update(r, [readings[r] EXCEPT !.phase = phase, !.body = body])
    /\ UNCHANGED <<state, current>>

\* read() gives some bytes more, and every frame they complete is handed over:
\* the decoding of all of them begins at once.
Read(r) ==
    LET reading == readings[r]
        bytes == BytesOf(reading.body)
    IN  /\ reading.phase = "frames" /\ ~ reading.cancelled
        /\ \E to \in (reading.arrived + 1) .. Len(bytes) :
             LET read == FramesRead(reading.buffer \o SubSeq(bytes, reading.arrived + 1, to))
                 given == reading.given \o read.frames
             IN  Update(r, [reading EXCEPT
                              !.arrived = to, !.buffer = read.rest, !.given = given,
                              !.scheduled = Len(given),
                              !.decoding = @ \cup ((Len(reading.given) + 1) .. Len(given))])
        /\ UNCHANGED <<state, current>>

\* A mutant: the end of the body finishes nothing.
BodyEndsOnly(r) ==
    LET reading == [readings[r] EXCEPT !.phase = "over", !.streamDone = TRUE]
    IN  /\ readings[r].phase = "frames" /\ ~ readings[r].cancelled
        /\ readings[r].arrived = Len(BytesOf(readings[r].body))
        /\ Update(r, reading)
        /\ state' = IF reading.scheduled = 0 THEN "unavailable" ELSE state
        /\ UNCHANGED current

\* The body ends; what is left in the buffer is dropped.
BodyEnds(r) ==
    LET reading == [readings[r] EXCEPT !.phase = "over", !.streamDone = TRUE]
    IN  /\ readings[r].phase = "frames" /\ ~ readings[r].cancelled
        /\ readings[r].arrived = Len(BytesOf(readings[r].body))
        /\ Update(r, reading)
        /\ state' = IF reading.scheduled = 0 THEN "unavailable" ELSE FinishIfDone(reading)
        /\ UNCHANGED current

BodyBreaks(r) ==
    /\ readings[r].phase \in {"frames", "whole"} /\ ~ readings[r].cancelled
    /\ Bad < MaxBad
    /\ Thrown(r, [readings[r] EXCEPT !.bad = @ + 1])

\* arrayBuffer gives the whole file, one piece as long as its pieces are many.
WholeArrives(r) ==
    /\ readings[r].phase = "whole" /\ ~ readings[r].cancelled
    /\ Update(r, [readings[r] EXCEPT !.phase = "decoding", !.scheduled = 1,
                                     !.given = <<[i \in DOMAIN readings[r].body.pieces |-> i]>>,
                                     !.decoding = {1}])
    /\ UNCHANGED <<state, current>>

WholeDecoded(r) ==
    LET reading == [readings[r] EXCEPT !.phase = "over"]
    IN  /\ readings[r].phase = "decoding"
        /\ IF reading.cancelled
           THEN Update(r, [reading EXCEPT !.decoding = {}]) /\ UNCHANGED state
           ELSE /\ Update(r, [Started(reading, 1, 0) EXCEPT !.streamDone = TRUE])
                /\ state' = "playing"
        /\ UNCHANGED current

WholeUndecoded(r) ==
    /\ readings[r].phase = "decoding" /\ Bad < MaxBad
    /\ Thrown(r, Undecoded(readings[r], 1))

------------------------------------------------------------------------------
(* The callbacks of reading r, whatever its function is at *)

\* Decodings are independent of each other: the first to settle may be any.
PieceDecoded(r) ==
    LET reading == readings[r]
    IN  /\ reading.phase # "decoding"
        /\ \E piece \in reading.decoding :
             IF reading.cancelled
             THEN Update(r, [reading EXCEPT !.decoding = @ \ {piece}]) /\ UNCHANGED state
             ELSE /\ Update(r, Started(reading, piece, Later(reading.nextStartAt, 0)))
                  /\ state' = IF reading.scheduled = 1 THEN "playing" ELSE state
        /\ UNCHANGED current

\* This one does not ask whether the reading was stopped.
PieceUndecoded(r) ==
    /\ readings[r].phase # "decoding" /\ Bad < MaxBad
    /\ \E piece \in readings[r].decoding :
         LET reading == [Undecoded(readings[r], piece) EXCEPT !.sourcesDone = @ + 1]
         IN  Update(r, reading) /\ state' = FinishIfDone(reading)
    /\ UNCHANGED current

Over(source) == source.left = 0 /\ ~ source.ended

\* onended; a closed context has nothing more to say.
SourceEnds(r) ==
    /\ readings[r].open
    /\ \E i \in DOMAIN readings[r].sources :
         LET reading == [readings[r] EXCEPT !.sources[i].ended = TRUE, !.sourcesDone = @ + 1]
         IN  /\ Over(readings[r].sources[i])
             /\ Update(r, reading) /\ state' = FinishIfDone(reading)
    /\ UNCHANGED current

Sounds(source) == source.wait = 0 /\ source.left > 0
Waits(source) == source.wait > 0

Moved(source) ==
    IF Waits(source) THEN [source EXCEPT !.wait = @ - 1]
    ELSE IF Sounds(source) THEN [source EXCEPT !.left = @ - 1] ELSE source

\* currentTime moves in every open context that has something to play.
Tick ==
    /\ \E r \in DOMAIN readings :
         readings[r].open /\ \E i \in DOMAIN readings[r].sources : readings[r].sources[i].left > 0
    /\ readings' = [r \in DOMAIN readings |->
                      IF readings[r].open
                      THEN [readings[r] EXCEPT
                              !.sources = [i \in DOMAIN @ |-> Moved(@[i])],
                              !.nextStartAt = Later(@ - 1, 0)]
                      ELSE readings[r]]
    /\ UNCHANGED <<state, current>>

------------------------------------------------------------------------------
Network(r) ==
    \/ Aborted(r) \/ Refused(r) \/ Answered(r)
    \/ Read(r) \/ BodyEnds(r) \/ WholeArrives(r)

Audio(r) == WholeDecoded(r) \/ PieceDecoded(r) \/ SourceEnds(r)

Faulty(r) == BodyBreaks(r) \/ WholeUndecoded(r) \/ PieceUndecoded(r)

Next ==
    \/ Toggle \/ Stop \/ Tick
    \/ \E r \in DOMAIN readings : Network(r) \/ Audio(r) \/ Faulty(r)

\* Bodies are answered and end, decodings settle, time passes; nobody need press.
Spec ==
    /\ Init /\ [][Next]_vars /\ WF_vars(Tick)
    /\ WF_vars(\E r \in DOMAIN readings : Network(r))
    /\ WF_vars(\E r \in DOMAIN readings : Audio(r))

------------------------------------------------------------------------------
(* Properties *)

\* A reading failed after it was answered, and was not stopped since.
Failed ==
    \E r \in DOMAIN readings :
      readings[r].phase = "failed" /\ readings[r].bad > 0 /\ ~ readings[r].cancelled

\* A piece of a reading that was stopped did not decode: its callback acts all
\* the same.
Stale == \E r \in DOMAIN readings : readings[r].cancelled /\ readings[r].bad > 0

Sounding(r) ==
    {i \in DOMAIN readings[r].sources : readings[r].open /\ Sounds(readings[r].sources[i])}

\* "A frame can straddle several network chunks, or a chunk can hold several
\* frames" (frames.ts): however the body is cut on its way, the frames handed
\* over are those that have arrived whole, as the server wrote them.
FramesAsSent ==
    \A r \in DOMAIN readings :
      LET reading == readings[r]
          whole == {n \in 0 .. Len(reading.body.pieces) :
                      Len(Framed(SubSeq(reading.body.pieces, 1, n))) <= reading.arrived}
          n == CHOOSE n \in whole : \A m \in whole : m <= n
      IN  reading.phase \in {"frames", "over"} /\ reading.arrived > 0 =>
            reading.given = [i \in 1 .. n |-> [b \in 1 .. reading.body.pieces[i] |-> i]]

\* Pieces of a reading are laid end to end, whenever each was decoded.  A
\* reading that is stopped is silent from then on, so two are never heard at
\* once, unless one failed in the middle (its pieces play on, and the next press
\* starts another).
OneVoice ==
    /\ \A r \in DOMAIN readings : Cardinality(Sounding(r)) <= 1
    /\ ~ Failed /\ ~ Stale =>
         Cardinality({r \in DOMAIN readings : Sounding(r) # {}}) <= 1

\* The state is idle between readings, not between two pieces of one.
IdleIsSilent ==
    state = "idle" /\ ~ Failed /\ ~ Stale =>
      \A r \in DOMAIN readings :
        readings[r].open => /\ Sounding(r) = {} /\ readings[r].decoding = {}
                            /\ readings[r].phase \in {"over", "failed"}

\* A reading that plays stops playing when it is over, whatever piece of it does
\* not decode: finishIfDone counts pieces, and the last to settle must be the
\* one to call it after the body has ended.
PlayingEnds == [](~ Failed) => (state = "playing" ~> state # "playing")
=============================================================================
