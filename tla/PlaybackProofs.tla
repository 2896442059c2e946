---------------------------- MODULE PlaybackProofs ----------------------------
(***************************************************************************)
(* Proofs about the readings in the browser: the frames handed over are the *)
(* ones sent, however the body is cut on its way; pieces are heard one at a *)
(* time; and the button is idle only in silence.  For any bodies, any number *)
(* of presses, of pieces and of failures.                                  *)
(***************************************************************************)
EXTENDS Playback, Recursion, FiniteSetTheorems, SequenceTheorems, TLAPS

\* The types.
States == {"idle", "loading", "playing", "unavailable"}
Phases == {"asking", "frames", "whole", "decoding", "over", "failed"}

Source == [piece : Nat, wait : Nat, left : Nat, ended : BOOLEAN]

Reading ==
    [phase : Phases, cancelled : BOOLEAN, open : BOOLEAN,
     body : [pieces : Seq(Nat), cut : Nat], arrived : Nat, buffer : Seq(Nat),
     given : Seq(Seq(Nat)), decoding : SUBSET Nat, sources : Seq(Source),
     nextStartAt : Nat, scheduled : Nat, sourcesDone : Nat, streamDone : BOOLEAN, bad : Nat]

\* Where the pieces end among the bytes of their body.
Wire(pieces, n) == Len(Framed(SubSeq(pieces, 1, n)))
Ends(pieces) == [n \in 0 .. Len(pieces) |-> Wire(pieces, n)]

\* What is handed over of piece i, and of the pieces behind n0, up to n.
Frame(pieces, i) == [b \in 1 .. pieces[i] |-> i]
FramesOf(pieces, n0, n) == [i \in 1 .. (n - n0) |-> Frame(pieces, n0 + i)]

\* Behind n pieces, which end at w[n], the next one has come whole.
Here(pieces, w, to, n) == n < Len(pieces) /\ w[n + 1] <= to

\* The pieces that have come whole are the first n.
Received(a, n) ==
    LET pieces == a.body.pieces
    IN  /\ a.given = FramesOf(pieces, 0, n)
        /\ Ends(pieces)[n] <= a.arrived /\ ~ Here(pieces, Ends(pieces), a.arrived, n)

\* The buffer is what came behind them.
FrameInv(a) ==
    /\ a.phase \in {"asking", "whole", "decoding"} => a.arrived = 0
    /\ a.phase = "frames" =>
         /\ a.arrived <= Len(BytesOf(a.body))
         /\ \E n \in 0 .. Len(a.body.pieces) :
              /\ Received(a, n)
              /\ a.buffer = SubSeq(BytesOf(a.body), Ends(a.body.pieces)[n] + 1, a.arrived)
    /\ a.phase = "over" /\ a.arrived > 0 =>
         \E n \in 0 .. Len(a.body.pieces) : Received(a, n)

\* Pieces laid end to end, the last before the place for the next; a source
\* that has said so is heard to its end.
EndOf(source) == source.wait + source.left

EndToEnd(sources, nextStartAt) ==
    /\ \A i, j \in DOMAIN sources : i < j => EndOf(sources[i]) <= sources[j].wait
    /\ \A i \in DOMAIN sources : /\ EndOf(sources[i]) <= nextStartAt
                                 /\ sources[i].ended => sources[i].left = 0

Ended(sources) == {i \in DOMAIN sources : sources[i].ended}

\* Nothing has come of the reading.
Untouched(a) ==
    /\ a.given = <<>> /\ a.decoding = {} /\ a.sources = <<>> /\ a.buffer = <<>>
    /\ a.arrived = 0 /\ a.sourcesDone = 0 /\ a.bad = 0 /\ a.nextStartAt = 0

\* What was given is decoding, laid or bad; what is done has ended or is bad.
Counted(a) ==
    /\ Cardinality(a.decoding) + Len(a.sources) + a.bad = Len(a.given)
    /\ a.sourcesDone = Cardinality(Ended(a.sources)) + a.bad

\* Nothing is left to hear, and nothing will come.
Quiet(a) ==
    /\ a.phase \in {"over", "failed"} /\ a.decoding = {}
    /\ \A i \in DOMAIN a.sources : a.sources[i].ended

\* One reading: its frames are as they were sent, its counts agree.
GoodReading(a) ==
    /\ a \in Reading /\ FrameInv(a)
    /\ a.cancelled = ~ a.open
    /\ a.scheduled = Len(a.given) /\ a.decoding \subseteq 1 .. Len(a.given)
    /\ EndToEnd(a.sources, a.nextStartAt)
    /\ a.streamDone => a.phase = "over"
    /\ a.phase \in {"asking", "whole"} => Untouched(a)
    /\ a.phase = "decoding" =>
         a.decoding = {1} /\ a.sources = <<>> /\ a.bad = 0 /\ a.sourcesDone = 0
         /\ Len(a.given) = 1
    /\ a.open /\ a.phase # "failed" => Counted(a)
    /\ a.open /\ a.phase = "failed" /\ a.bad = 0 => Quiet(a)

\* A reading that something went wrong with, and that was stopped or failed.
Marred(a) == a.bad > 0 /\ (a.cancelled \/ a.phase = "failed")

\* The states a press starts a reading in.
Still == {"idle", "unavailable"}

\* What is open besides the current reading, or in a still state, is quiet.
AloneIn(a, r) == a.open /\ (r # current \/ state \in Still) => Quiet(a)

\* The inductive invariant.
PlayInv ==
    /\ state \in States
    /\ current \in 0 .. Len(readings)
    /\ readings \in Seq(Reading)
    /\ \A r \in DOMAIN readings : GoodReading(readings[r])
    /\ (\A r \in DOMAIN readings : ~ Marred(readings[r])) =>
         \A r \in DOMAIN readings : AloneIn(readings[r], r)
LEMMA PressedGood == GoodReading(Pressed) /\ ~ Marred(Pressed)
  <1>1. /\ Pressed.body = [pieces |-> <<>>, cut |-> 0] /\ Pressed.given = <<>>
        /\ Pressed.sources = <<>> /\ Pressed.buffer = <<>>
    BY DEF Pressed, NoBody
  <1>2. Pressed \in Reading
    <2>1. [pieces |-> <<>>, cut |-> 0] \in [pieces : Seq(Nat), cut : Nat]
      OBVIOUS
    <2>2. <<>> \in Seq(Seq(Nat)) /\ <<>> \in Seq(Source)
      OBVIOUS
    <2> QED
      BY <2>1, <2>2 DEF Pressed, NoBody, Reading, Phases
  <1>3. Ended(<<>>) = {}
    BY DEF Ended
  <1>4. Counted(Pressed) /\ EndToEnd(Pressed.sources, Pressed.nextStartAt) /\ Untouched(Pressed)
    BY <1>1, <1>3, FS_EmptySet DEF Pressed, Counted, EndToEnd, Untouched
  <1>5. FrameInv(Pressed)
    BY DEF FrameInv, Pressed
  <1> QED
    BY <1>1, <1>2, <1>4, <1>5 DEF GoodReading, Marred, Pressed

\* What a step does not do with the frames it does not undo.
LEMMA SameFrames ==
    ASSUME NEW a, FrameInv(a), NEW b,
           b.body = a.body, b.arrived = a.arrived, b.given = a.given, b.buffer = a.buffer,
           \/ b.phase \in {a.phase, "failed"}
           \/ a.phase \in {"frames", "decoding"} /\ b.phase = "over"
    PROVE  FrameInv(b)
  <1>1. \A n : Received(b, n) <=> Received(a, n)
    BY DEF Received
  <1>2. CASE b.phase = a.phase
    BY <1>1, <1>2 DEF FrameInv
  <1>3. CASE b.phase = "failed"
    BY <1>3 DEF FrameInv
  <1>4. CASE a.phase \in {"frames", "decoding"} /\ b.phase = "over"
    <2>1. a.arrived > 0 => \E n \in 0 .. Len(a.body.pieces) : Received(a, n)
      BY <1>4 DEF FrameInv
    <2> QED
      BY <1>1, <1>4, <2>1 DEF FrameInv
  <1> QED
    BY <1>2, <1>3, <1>4

LEMMA CancelledGood ==
    ASSUME NEW a, GoodReading(a)
    PROVE  LET b == Cancelled(a) IN
             GoodReading(b) /\ ~ b.open /\ (Marred(a) => Marred(b))
  <1> DEFINE b == Cancelled(a)
  <1>1. a \in Reading
    BY DEF GoodReading
  <1>2. /\ b \in Reading /\ b.cancelled /\ ~ b.open /\ b.phase = a.phase
        /\ b.given = a.given /\ b.decoding = a.decoding /\ b.sources = a.sources
        /\ b.buffer = a.buffer /\ b.arrived = a.arrived /\ b.sourcesDone = a.sourcesDone
        /\ b.bad = a.bad /\ b.nextStartAt = a.nextStartAt /\ b.scheduled = a.scheduled
        /\ b.streamDone = a.streamDone /\ b.body = a.body
    BY <1>1 DEF Cancelled, Reading
  <1> HIDE DEF b
  <1>a. FrameInv(b)
    BY <1>2, SameFrames DEF GoodReading
  <1>3. GoodReading(b)
    BY <1>2, <1>a DEF GoodReading, Untouched
  <1> QED
    BY <1>2, <1>3 DEF b, Marred

LEMMA OneReading ==
    ASSUME PlayInv, NEW r \in DOMAIN readings, NEW a, Update(r, a), GoodReading(a),
           current' = current, state' \in States,
           Marred(readings[r]) => Marred(a),
           AloneIn(readings[r], r) /\ ~ Marred(a) =>
             /\ a.open /\ (r # current \/ state' \in Still) => Quiet(a)
             /\ state' \in Still /\ state \notin Still => r = current
    PROVE  PlayInv'
  <1>1. /\ readings \in Seq(Reading) /\ a \in Reading
        /\ \A i \in DOMAIN readings : GoodReading(readings[i])
    BY DEF PlayInv, GoodReading
  <1>2. readings' = [readings EXCEPT ![r] = a]
    BY DEF Update
  <1>3. /\ readings' \in Seq(Reading) /\ Len(readings') = Len(readings)
        /\ DOMAIN readings' = DOMAIN readings
        /\ readings'[r] = a /\ \A i \in DOMAIN readings : i # r => readings'[i] = readings[i]
    BY <1>1, <1>2
  <1>4. \A i \in DOMAIN readings' : GoodReading(readings'[i])
    BY <1>1, <1>3
  <1>5. ASSUME \A i \in DOMAIN readings' : ~ Marred(readings'[i]), NEW i \in DOMAIN readings
        PROVE  AloneIn(readings[i], i)'
    <2>1. \A k \in DOMAIN readings : ~ Marred(readings[k])
      BY <1>3, <1>5
    <2>2. \A k \in DOMAIN readings : AloneIn(readings[k], k)
      BY <2>1 DEF PlayInv
    <2>3. ~ Marred(a) /\ AloneIn(readings[r], r)
      BY <1>3, <1>5, <2>2
    <2>4. AloneIn(readings[i], i)' <=>
            (readings'[i].open /\ (i # current \/ state' \in Still) => Quiet(readings'[i]))
      BY DEF AloneIn
    <2>5. CASE i = r
      BY <1>3, <2>3, <2>4, <2>5
    <2>6. CASE i # r
      <3>1. readings'[i] = readings[i]
        BY <1>3, <2>6
      <3>2. state' \in Still => state \in Still \/ i # current
        BY <2>3, <2>6
      <3> QED
        BY <2>2, <2>4, <3>1, <3>2 DEF AloneIn
    <2> QED
      BY <2>5, <2>6
  <1>6. current' \in 0 .. Len(readings')
    BY <1>3 DEF PlayInv
  <1>7. (\A i \in DOMAIN readings' : ~ Marred(readings'[i])) =>
          \A i \in DOMAIN readings' : AloneIn(readings[i], i)'
    BY <1>3, <1>5
  <1> QED
    BY <1>3, <1>4, <1>6, <1>7 DEF PlayInv

-----------------------------------------------------------------------------
(* The bytes a server writes for its pieces. *)

-----------------------------------------------------------------------------
(* The bytes of a body *)

Behind(pieces, n, before) == before \o <<0, 0, 0, pieces[n]>> \o Frame(pieces, n)

\* The pieces up to each of them, as they are written.
Written(pieces) ==
    CHOOSE f : f = [n \in 0 .. Len(pieces) |->
                      IF n = 0 THEN <<>> ELSE Behind(pieces, n, f[n - 1])]

WrittenOf(pieces, f) ==
    /\ f[0] = <<>>
    /\ \A n \in 1 .. Len(pieces) : f[n] = Behind(pieces, n, f[n - 1])
    /\ \A n \in 0 .. Len(pieces) : f[n] \in Seq(Nat)

LEMMA Joined ==
    ASSUME NEW s \in Seq(Nat), NEW t \in Seq(Nat)
    PROVE  /\ s \o t \in Seq(Nat) /\ Len(s \o t) = Len(s) + Len(t)
           /\ \A b \in 1 .. Len(s) : (s \o t)[b] = s[b]
           /\ \A b \in 1 .. Len(t) : (s \o t)[Len(s) + b] = t[b]
  <1>1. /\ s \o t \in Seq(Nat) /\ Len(s \o t) = Len(s) + Len(t)
        /\ \A i \in 1 .. Len(s) + Len(t) :
             (s \o t)[i] = IF i <= Len(s) THEN s[i] ELSE t[i - Len(s)]
    BY ConcatProperties
  <1>2. \A b \in 1 .. Len(s) : b \in 1 .. Len(s) + Len(t) /\ b <= Len(s)
    OBVIOUS
  <1>3. \A b \in 1 .. Len(t) : /\ Len(s) + b \in 1 .. Len(s) + Len(t)
                               /\ ~ (Len(s) + b <= Len(s)) /\ (Len(s) + b) - Len(s) = b
    OBVIOUS
  <1> QED
    BY <1>1, <1>2, <1>3

\* What the bytes of one piece more are.
Adds(pieces, n, before, next) ==
    /\ next \in Seq(Nat) /\ pieces[n] \in Nat
    /\ Len(next) = Len(before) + 4 + pieces[n]
    /\ \A b \in 1 .. Len(before) : next[b] = before[b]
    /\ \A b \in 1 .. 4 : next[Len(before) + b] = <<0, 0, 0, pieces[n]>>[b]
    /\ \A b \in 1 .. pieces[n] : next[Len(before) + 4 + b] = n

LEMMA BehindType ==
    ASSUME NEW pieces \in Seq(Nat), NEW n \in 1 .. Len(pieces), NEW before \in Seq(Nat)
    PROVE  Adds(pieces, n, before, Behind(pieces, n, before))
  <1> DEFINE p == pieces[n]
             head == <<0, 0, 0, p>>
             frame == Frame(pieces, n)
  <1>1. p \in Nat /\ n \in Nat
    OBVIOUS
  <1>2. head \in Seq(Nat) /\ Len(head) = 4
    BY <1>1
  <1>3. frame \in Seq(Nat) /\ Len(frame) = p /\ \A b \in 1 .. p : frame[b] = n
    BY <1>1 DEF Frame
  <1>4. Behind(pieces, n, before) = before \o head \o frame
    BY DEF Behind
  <1> HIDE DEF head, frame
  <1>a. /\ before \o head \in Seq(Nat) /\ Len(before \o head) = Len(before) + Len(head)
        /\ \A b \in 1 .. Len(before) : (before \o head)[b] = before[b]
        /\ \A b \in 1 .. Len(head) : (before \o head)[Len(before) + b] = head[b]
    BY <1>2, Joined
  <1> HIDE DEF p
  <1>5. /\ before \o head \in Seq(Nat) /\ Len(before \o head) = Len(before) + 4
        /\ \A b \in 1 .. Len(before) : (before \o head)[b] = before[b]
        /\ \A b \in 1 .. 4 : (before \o head)[Len(before) + b] = head[b]
    BY <1>2, <1>a
  <1> DEFINE start == before \o head
  <1> HIDE DEF start
  <1>6. /\ start \in Seq(Nat) /\ Len(start) = Len(before) + 4
        /\ \A b \in 1 .. Len(before) : start[b] = before[b]
        /\ \A b \in 1 .. 4 : start[Len(before) + b] = head[b]
    BY <1>5 DEF start
  <1>7. /\ start \o frame \in Seq(Nat) /\ Len(start \o frame) = Len(start) + p
        /\ \A b \in 1 .. Len(start) : (start \o frame)[b] = start[b]
        /\ \A b \in 1 .. p : (start \o frame)[Len(start) + b] = frame[b]
    BY <1>3, <1>6, Joined
  <1>8. Behind(pieces, n, before) = start \o frame
    BY <1>4 DEF start
  <1>9. \A b \in 1 .. 4 : Len(before) + b \in 1 .. Len(start)
    <2>1. Len(before) \in Nat
      OBVIOUS
    <2>2. Len(start) = Len(before) + 4
      BY <1>6
    <2>3. \A l, m \in Nat : m = l + 4 => \A b \in 1 .. 4 : l + b \in 1 .. m
      OBVIOUS
    <2>4. Len(start) \in Nat
      BY <2>1, <2>2
    <2> QED
      BY <2>1, <2>2, <2>3, <2>4
  <1>10. \A b \in 1 .. Len(before) : b \in 1 .. Len(start)
    BY <1>6
  <1> QED
    BY <1>1, <1>3, <1>6, <1>7, <1>8, <1>9, <1>10 DEF head, frame, p, Adds

LEMMA WrittenIs ==
    ASSUME NEW pieces \in Seq(Nat)
    PROVE  WrittenOf(pieces, Written(pieces)) /\ Framed(pieces) = Written(pieces)[Len(pieces)]
  <1> DEFINE N == Len(pieces)
             S == [n \in 0 .. N |-> Seq(Nat)]
             G == [q \in (1 .. N) \X Seq(Nat) |-> Behind(pieces, q[1], q[2])]
             f == Written(pieces)
  <1>0. /\ N \in Nat /\ <<>> \in Seq(Nat)
        /\ \A n \in 0 .. N : S[n] = Seq(Nat)
        /\ \A n \in 1 .. N : n \in 0 .. N /\ n - 1 \in 0 .. N /\ n # 0
        /\ 0 \in 0 .. N /\ \A n \in 0 .. N : n # 0 => n \in 1 .. N
    OBVIOUS
  <1>1. \A n \in 1 .. N, s \in Seq(Nat) :
          G[<<n, s>>] = Behind(pieces, n, s) /\ Behind(pieces, n, s) \in Seq(Nat)
    BY BehindType DEF Adds
  <1> HIDE DEF S, G, N
  <1>2. PICK g : Solves(N, S, <<>>, G, g)
    <2>1. ASSUME NEW n \in 1 .. N, NEW s \in S[n - 1] PROVE G[<<n, s>>] \in S[n]
      <3>1. s \in Seq(Nat) /\ S[n] = Seq(Nat)
        BY <1>0
      <3> QED
        BY <1>1, <3>1
    <2>2. StaysIn(N, S, G)
      BY <2>1 DEF StaysIn
    <2> QED
      BY <1>0, <2>2, RecursionExists
  <1>3. g = [n \in 0 .. N |-> IF n = 0 THEN <<>> ELSE Behind(pieces, n, g[n - 1])]
    <2>1. \A n \in 1 .. N : g[n] = Behind(pieces, n, g[n - 1])
      BY <1>0, <1>1, <1>2 DEF Solves
    <2> QED
      BY <1>0, <1>2, <2>1 DEF Solves
  <1>4. f = [n \in 0 .. N |-> IF n = 0 THEN <<>> ELSE Behind(pieces, n, f[n - 1])]
    BY <1>3 DEF Written, N
  <1>5. Framed(pieces) = f[N]
    BY DEF Framed, Written, Behind, Frame, N
  <1> HIDE DEF f
  <1>6. f[0] = <<>> /\ \A n \in 1 .. N : f[n] = Behind(pieces, n, f[n - 1])
    BY <1>0, <1>4
  <1>7. \A n \in 0 .. N : f[n] \in S[n]
    <2>1. f[0] \in S[0]
      BY <1>0, <1>6
    <2>2. ASSUME NEW n \in 1 .. N, f[n - 1] \in S[n - 1] PROVE f[n] \in S[n]
      <3>1. f[n - 1] \in Seq(Nat)
        BY <1>0, <2>2
      <3>2. f[n] = Behind(pieces, n, f[n - 1])
        BY <1>6
      <3>3. f[n] \in Seq(Nat)
        BY <1>1, <3>1, <3>2
      <3>4. S[n] = Seq(Nat)
        BY <1>0
      <3> QED
        BY <3>3, <3>4
    <2> QED
      BY <1>0, <2>1, <2>2, RecursionStays
  <1> QED
    BY <1>0, <1>5, <1>6, <1>7 DEF WrittenOf, N, f

\* The bytes of the first n pieces are the same whatever comes after them.
LEMMA WireIs ==
    ASSUME NEW pieces \in Seq(Nat), NEW n \in 0 .. Len(pieces)
    PROVE  Framed(SubSeq(pieces, 1, n)) = Written(pieces)[n]
  <1> DEFINE some == SubSeq(pieces, 1, n)
             f == Written(pieces)
             g == Written(some)
             S == [k \in 0 .. n |-> {s \in Seq(Nat) : s = f[k]}]
  <1>1. /\ some \in Seq(Nat) /\ Len(some) = n /\ n \in Nat
        /\ \A k \in 1 .. n : some[k] = pieces[k]
    <2>1. \A i \in 1 .. n : pieces[i] \in Nat
      OBVIOUS
    <2> QED
      BY <2>1, SubSeqProperties
  <1>2. WrittenOf(pieces, f) /\ WrittenOf(some, g) /\ Framed(some) = g[n]
    BY <1>1, WrittenIs
  <1> HIDE DEF some, f, g
  <1>3. \A k \in 1 .. n : f[k] = Behind(pieces, k, f[k - 1]) /\ g[k] = Behind(some, k, g[k - 1])
    BY <1>1, <1>2 DEF WrittenOf
  <1>4. \A s : \A k \in 1 .. n : Behind(some, k, s) = Behind(pieces, k, s)
    BY <1>1 DEF Behind, Frame
  <1>5. \A k \in 0 .. n : g[k] \in S[k]
    <2>1. g[0] \in S[0]
      BY <1>1, <1>2 DEF WrittenOf
    <2>2. \A k \in 1 .. n : g[k - 1] \in S[k - 1] => g[k] \in S[k]
      <3>1. \A k \in 1 .. n : k \in 0 .. Len(pieces) /\ k \in 0 .. n /\ k - 1 \in 0 .. n
        BY <1>1
      <3>2. \A k \in 0 .. n : f[k] \in Seq(Nat)
        BY <1>1, <1>2 DEF WrittenOf
      <3> QED
        BY <1>3, <1>4, <3>1, <3>2
    <2> HIDE DEF S
    <2> QED
      BY <1>1, <2>1, <2>2, RecursionStays
  <1>6. g[n] = f[n]
    BY <1>1, <1>5
  <1> QED
    BY <1>2, <1>6 DEF some, f

\* Where each piece ends among the bytes, and what is at each place.
Laid(pieces, w, total) ==
    /\ total \in Seq(Nat)
    /\ \A n \in 0 .. Len(pieces) : w[n] \in Nat /\ w[n] <= Len(total)
    /\ w[0] = 0 /\ w[Len(pieces)] = Len(total)
    /\ \A m, n \in 0 .. Len(pieces) : m <= n => w[m] <= w[n]
    /\ \A n \in 1 .. Len(pieces) :
         /\ w[n] = w[n - 1] + 4 + pieces[n]
         /\ \A b \in 1 .. 4 : total[w[n - 1] + b] = <<0, 0, 0, pieces[n]>>[b]
         /\ \A b \in 1 .. pieces[n] : total[w[n - 1] + 4 + b] = n

LEMMA WrittenGrows ==
    ASSUME NEW pieces \in Seq(Nat), NEW n \in 0 .. Len(pieces), NEW m \in 0 .. n
    PROVE  LET f == Written(pieces) IN
             /\ f[m] \in Seq(Nat) /\ f[n] \in Seq(Nat) /\ Len(f[m]) <= Len(f[n])
             /\ \A b \in 1 .. Len(f[m]) : f[n][b] = f[m][b]
  <1> DEFINE N == Len(pieces)
             f == Written(pieces)
             S == [k \in 0 .. N |->
                     {s \in Seq(Nat) : \A j \in 0 .. k :
                        Len(f[j]) <= Len(s) /\ \A b \in 1 .. Len(f[j]) : s[b] = f[j][b]}]
  <1>1. WrittenOf(pieces, f)
    BY WrittenIs
  <1>2. N \in Nat
    OBVIOUS
  <1> HIDE DEF f
  <1>3. \A k \in 0 .. N : f[k] \in Seq(Nat) /\ Len(f[k]) \in Nat
    BY <1>1 DEF WrittenOf
  <1>4. f[0] \in S[0]
    <2>1. \A j \in 0 .. 0 : j = 0
      OBVIOUS
    <2>2. 0 \in 0 .. N
      BY <1>2
    <2> QED
      BY <1>3, <2>1, <2>2
  <1>5. ASSUME NEW k \in 1 .. N, f[k - 1] \in S[k - 1] PROVE f[k] \in S[k]
    <2>1. k \in 0 .. N /\ k - 1 \in 0 .. N
      BY <1>2
    <2>2. /\ \A b \in 1 .. Len(f[k - 1]) : f[k][b] = f[k - 1][b]
          /\ Len(f[k]) = Len(f[k - 1]) + 4 + pieces[k] /\ pieces[k] \in Nat
      <3>1. f[k] = Behind(pieces, k, f[k - 1]) /\ f[k - 1] \in Seq(Nat)
        BY <1>1, <1>3, <2>1 DEF WrittenOf
      <3>2. Adds(pieces, k, f[k - 1], f[k])
        BY <3>1, BehindType
      <3> QED
        BY <3>2 DEF Adds
    <2>3. ASSUME NEW j \in 0 .. k
          PROVE  Len(f[j]) <= Len(f[k]) /\ \A b \in 1 .. Len(f[j]) : f[k][b] = f[j][b]
      <3>1. CASE j = k
        BY <1>3, <2>1, <3>1
      <3>2. CASE j # k
        <4>1. j \in 0 .. (k - 1)
          BY <3>2
        <4>2. /\ Len(f[j]) <= Len(f[k - 1])
              /\ \A b \in 1 .. Len(f[j]) : f[k - 1][b] = f[j][b]
          BY <1>5, <2>1, <4>1
        <4>3. Len(f[j]) \in Nat /\ Len(f[k - 1]) \in Nat /\ Len(f[k - 1]) <= Len(f[k])
          <5>1. j \in 0 .. N
            BY <1>2
          <5>2. Len(f[j]) \in Nat /\ Len(f[k - 1]) \in Nat
            BY <1>3, <2>1, <5>1
          <5>3. \A a, b, c \in Nat : b = a + 4 + c => a <= b
            OBVIOUS
          <5>4. Len(f[k]) \in Nat
            BY <1>3, <2>1
          <5> QED
            BY <2>2, <5>2, <5>3, <5>4
        <4>4. \A b \in 1 .. Len(f[j]) : b \in 1 .. Len(f[k - 1])
          BY <4>2, <4>3
        <4>5. Len(f[k]) \in Nat
          BY <1>3, <2>1
        <4>6. Len(f[j]) <= Len(f[k])
          BY <4>2, <4>3, <4>5
        <4> QED
          BY <2>2, <4>2, <4>4, <4>6
      <3> QED
        BY <3>1, <3>2
    <2> QED
      BY <1>3, <2>1, <2>3
  <1>6. \A k \in 0 .. N : f[k] \in S[k]
    <2> HIDE DEF S, N
    <2> QED
      BY <1>2, <1>4, <1>5, RecursionStays
  <1>7. m \in 0 .. N /\ n \in 0 .. N
    BY <1>2
  <1>8. f[n] \in S[n]
    BY <1>6, <1>7
  <1> QED
    BY <1>3, <1>7, <1>8 DEF f

LEMMA BytesLaid ==
    ASSUME NEW pieces \in Seq(Nat)
    PROVE  Laid(pieces, Ends(pieces), Framed(pieces))
  <1> DEFINE N == Len(pieces)
             f == Written(pieces)
             w == Ends(pieces)
             total == Framed(pieces)
  <1>1. WrittenOf(pieces, f) /\ total = f[N]
    BY WrittenIs
  <1>2. N \in Nat /\ N \in 0 .. N /\ 0 \in 0 .. N
    OBVIOUS
  <1>3. \A n \in 0 .. N : w[n] = Len(f[n])
    BY WireIs DEF Ends, Wire
  <1>4. \A n \in 0 .. N : \A m \in 0 .. n :
          /\ f[m] \in Seq(Nat) /\ f[n] \in Seq(Nat) /\ Len(f[m]) <= Len(f[n])
          /\ \A b \in 1 .. Len(f[m]) : f[n][b] = f[m][b]
    BY WrittenGrows
  <1> HIDE DEF N, f, w, total
  <1>5. \A n \in 0 .. N : /\ n \in 0 .. n /\ n \in 0 .. N
                          /\ n \in Nat
    BY <1>2
  <1>6. total \in Seq(Nat)
    BY <1>1, <1>2, <1>4, <1>5
  <1>7. \A n \in 0 .. N : w[n] \in Nat /\ w[n] <= Len(total)
    <2> TAKE n \in 0 .. N
    <2>1. n \in 0 .. N /\ f[n] \in Seq(Nat) /\ Len(f[n]) <= Len(f[N])
      BY <1>2, <1>4
    <2> QED
      BY <1>1, <1>3, <2>1
  <1>8. w[0] = 0 /\ w[N] = Len(total)
    BY <1>1, <1>2, <1>3 DEF WrittenOf
  <1>9. \A m, n \in 0 .. N : m <= n => w[m] <= w[n]
    <2> TAKE m, n \in 0 .. N
    <2>1. m <= n => m \in 0 .. n
      BY <1>2
    <2> QED
      BY <1>3, <1>4, <2>1
  <1>10. ASSUME NEW n \in 1 .. N
         PROVE  /\ w[n] = w[n - 1] + 4 + pieces[n]
                /\ \A b \in 1 .. 4 : total[w[n - 1] + b] = <<0, 0, 0, pieces[n]>>[b]
                /\ \A b \in 1 .. pieces[n] : total[w[n - 1] + 4 + b] = n
    <2>1. n \in 0 .. N /\ n - 1 \in 0 .. N
      BY <1>2
    <2>2. f[n] = Behind(pieces, n, f[n - 1]) /\ f[n - 1] \in Seq(Nat)
      BY <1>1, <2>1 DEF WrittenOf, N
    <2>3. /\ pieces[n] \in Nat
          /\ Len(f[n]) = Len(f[n - 1]) + 4 + pieces[n]
          /\ \A b \in 1 .. 4 : f[n][Len(f[n - 1]) + b] = <<0, 0, 0, pieces[n]>>[b]
          /\ \A b \in 1 .. pieces[n] : f[n][Len(f[n - 1]) + 4 + b] = n
      <3>1. n \in 1 .. Len(pieces)
        BY DEF N
      <3>2. Adds(pieces, n, f[n - 1], f[n])
        BY <2>2, <3>1, BehindType
      <3> QED
        BY <3>2 DEF Adds
    <2>4. \A b \in 1 .. Len(f[n]) : total[b] = f[n][b]
      BY <1>1, <1>2, <1>4, <2>1
    <2>5. w[n] = Len(f[n]) /\ w[n - 1] = Len(f[n - 1]) /\ w[n - 1] \in Nat
      BY <1>3, <1>7, <2>1
    <2> HIDE DEF w
    <2>6. w[n] = w[n - 1] + 4 + pieces[n]
      BY <2>3, <2>5
    <2>a. \A v, x, p \in Nat : x = v + 4 + p =>
            /\ \A b \in 1 .. 4 : v + b \in 1 .. x
            /\ \A b \in 1 .. p : v + 4 + b \in 1 .. x
      OBVIOUS
    <2>b. w[n] \in Nat /\ w[n - 1] \in Nat /\ pieces[n] \in Nat
      BY <1>7, <2>1, <2>3
    <2>7. \A b \in 1 .. 4 : w[n - 1] + b \in 1 .. w[n]
      BY <2>6, <2>a, <2>b
    <2>8. \A b \in 1 .. pieces[n] : w[n - 1] + 4 + b \in 1 .. w[n]
      BY <2>6, <2>a, <2>b
    <2> QED
      BY <2>3, <2>4, <2>5, <2>6, <2>7, <2>8
  <1> QED
    BY <1>6, <1>7, <1>8, <1>9, <1>10 DEF Laid, N, w, total

-----------------------------------------------------------------------------
(* Slices of a sequence *)

LEMMA Slice ==
    ASSUME NEW s \in Seq(Nat), NEW m \in Nat, NEW n \in Nat, m <= n, n <= Len(s)
    PROVE  /\ SubSeq(s, m + 1, n) \in Seq(Nat) /\ Len(SubSeq(s, m + 1, n)) = n - m
           /\ \A i \in 1 .. (n - m) : SubSeq(s, m + 1, n)[i] = s[m + i]
  <1>1. \A i \in (m + 1) .. n : s[i] \in Nat
    OBVIOUS
  <1>2. SubSeq(s, m + 1, n) = [i \in 1 .. (n - m) |-> s[m + i]]
    BY <1>1
  <1>3. \A i \in 1 .. (n - m) : s[m + i] \in Nat
    OBVIOUS
  <1> QED
    BY <1>2, <1>3

LEMMA SliceOfSlice ==
    ASSUME NEW s \in Seq(Nat), NEW m \in Nat, NEW n \in Nat, m <= n, n <= Len(s),
           NEW k \in Nat, NEW l \in Nat, k <= l, l <= n - m
    PROVE  SubSeq(SubSeq(s, m + 1, n), k + 1, l) = SubSeq(s, m + k + 1, m + l)
  <1> DEFINE t == SubSeq(s, m + 1, n)
             u == SubSeq(t, k + 1, l)
             v == SubSeq(s, (m + k) + 1, m + l)
  <1>1. t \in Seq(Nat) /\ Len(t) = n - m /\ \A i \in 1 .. (n - m) : t[i] = s[m + i]
    BY Slice
  <1> HIDE DEF t
  <1>2. u \in Seq(Nat) /\ Len(u) = l - k /\ \A i \in 1 .. (l - k) : u[i] = t[k + i]
    BY <1>1, Slice
  <1>3. /\ v \in Seq(Nat) /\ Len(v) = (m + l) - (m + k)
        /\ \A i \in 1 .. ((m + l) - (m + k)) : v[i] = s[(m + k) + i]
    <2>1. m + k \in Nat /\ m + l \in Nat /\ m + k <= m + l /\ m + l <= Len(s)
      BY LenProperties
    <2> HIDE DEF v
    <2> QED
      BY <2>1, Slice DEF v
  <1> HIDE DEF u, v
  <1>4. \A i \in 1 .. (l - k) : u[i] = v[i]
    <2> TAKE i \in 1 .. (l - k)
    <2>1. k + i \in 1 .. (n - m) /\ i \in 1 .. ((m + l) - (m + k)) /\ m + (k + i) = (m + k) + i
      OBVIOUS
    <2> QED
      BY <1>1, <1>2, <1>3, <2>1
  <1>5. Len(u) = Len(v)
    BY <1>2, <1>3
  <1>6. u = v
    BY <1>2, <1>3, <1>4, <1>5, SeqEqual
  <1> QED
    BY <1>6 DEF t, u, v

LEMMA SlicesJoined ==
    ASSUME NEW s \in Seq(Nat), NEW m \in Nat, NEW k \in Nat, NEW n \in Nat,
           m <= k, k <= n, n <= Len(s)
    PROVE  SubSeq(s, m + 1, k) \o SubSeq(s, k + 1, n) = SubSeq(s, m + 1, n)
  <1> DEFINE t == SubSeq(s, m + 1, k)
             u == SubSeq(s, k + 1, n)
             v == SubSeq(s, m + 1, n)
  <1>1. k <= Len(s) /\ m <= n
    BY LenProperties
  <1>2. t \in Seq(Nat) /\ Len(t) = k - m /\ \A i \in 1 .. (k - m) : t[i] = s[m + i]
    BY <1>1, Slice
  <1>3. u \in Seq(Nat) /\ Len(u) = n - k /\ \A i \in 1 .. (n - k) : u[i] = s[k + i]
    BY <1>1, Slice
  <1>4. v \in Seq(Nat) /\ Len(v) = n - m /\ \A i \in 1 .. (n - m) : v[i] = s[m + i]
    BY <1>1, Slice
  <1> HIDE DEF t, u, v
  <1>5. /\ t \o u \in Seq(Nat) /\ Len(t \o u) = Len(t) + Len(u)
        /\ \A b \in 1 .. Len(t) : (t \o u)[b] = t[b]
        /\ \A b \in 1 .. Len(u) : (t \o u)[Len(t) + b] = u[b]
    BY <1>2, <1>3, Joined
  <1>6. ASSUME NEW i \in 1 .. (n - m) PROVE (t \o u)[i] = v[i]
    <2>1. CASE i <= k - m
      <3>1. i \in 1 .. (k - m) /\ i \in 1 .. (n - m)
        BY <2>1
      <3> QED
        BY <1>2, <1>4, <1>5, <3>1
    <2>2. CASE ~ (i <= k - m)
      <3> DEFINE b == i - (k - m)
      <3>1. b \in 1 .. (n - k) /\ i = (k - m) + b /\ k + b = m + i
        BY <2>2
      <3> HIDE DEF b
      <3>2. (t \o u)[i] = u[b] /\ u[b] = s[k + b]
        BY <1>2, <1>3, <1>5, <3>1
      <3> QED
        BY <1>4, <3>1, <3>2
    <2> QED
      BY <2>1, <2>2
  <1>7. Len(t \o u) = Len(v) /\ \A i \in 1 .. Len(v) : (t \o u)[i] = v[i]
    <2>1. Len(t \o u) = (k - m) + (n - k) /\ Len(v) = n - m
      BY <1>2, <1>3, <1>4, <1>5
    <2>2. (k - m) + (n - k) = n - m
      OBVIOUS
    <2> QED
      BY <1>6, <2>1, <2>2
  <1>8. t \o u = v
    BY <1>4, <1>5, <1>7, SeqEqual
  <1> QED
    BY <1>8 DEF t, u, v

-----------------------------------------------------------------------------
(* What the loop of readFrames takes out of what has come. *)

\* What comes of them down the wire: all of them or some of the first.
CutFrom(total, bytes) ==
    /\ bytes \in Seq(Nat) /\ Len(bytes) <= Len(total)
    /\ \A i \in 1 .. Len(bytes) : bytes[i] = total[i]

LEMMA BytesCut ==
    ASSUME NEW body \in [pieces : Seq(Nat), cut : Nat]
    PROVE  CutFrom(Framed(body.pieces), BytesOf(body))
  <1> DEFINE total == Framed(body.pieces)
             k == Len(total) - body.cut
             bytes == SubSeq(total, 1, k)
  <1>1. body.pieces \in Seq(Nat) /\ body.cut \in Nat
    OBVIOUS
  <1>2. total \in Seq(Nat)
    BY <1>1, BytesLaid DEF Laid
  <1>3. bytes = BytesOf(body)
    BY DEF BytesOf
  <1>4. Len(total) \in Nat /\ k \in Int /\ k <= Len(total)
    BY <1>1, <1>2
  <1> HIDE DEF total, k
  <1>5. CASE k >= 0
    <2>1. k \in Nat /\ 0 \in Nat /\ 0 <= k /\ 0 + 1 = 1 /\ k - 0 = k /\ \A i \in 1 .. k : 0 + i = i
      BY <1>4, <1>5
    <2>2. /\ SubSeq(total, 0 + 1, k) \in Seq(Nat) /\ Len(SubSeq(total, 0 + 1, k)) = k - 0
          /\ \A i \in 1 .. (k - 0) : SubSeq(total, 0 + 1, k)[i] = total[0 + i]
      BY <1>2, <1>4, <2>1, Slice
    <2>3. /\ bytes \in Seq(Nat) /\ Len(bytes) = k
          /\ \A i \in 1 .. k : bytes[i] = total[i]
      BY <2>1, <2>2
    <2> HIDE DEF bytes
    <2> QED
      BY <1>3, <1>4, <2>3 DEF CutFrom, total
  <1>6. CASE k < 0
    <2>1. bytes = <<>>
      BY <1>2, <1>4, <1>6
    <2> HIDE DEF bytes
    <2>2. bytes \in Seq(Nat) /\ Len(bytes) = 0
      BY <2>1
    <2> QED
      BY <1>3, <1>4, <2>2 DEF CutFrom, total
  <1> QED
    BY <1>4, <1>5, <1>6

\* What the bytes behind n pieces are to the loop.
Begins(pieces, w, bytes, to, n) ==
    LET rest == SubSeq(bytes, w[n] + 1, to)
        all  == 4 + GetUint32(rest)
    IN  /\ Len(rest) = to - w[n]
        /\ HoldsFrame(rest) <=> Here(pieces, w, to, n)
        /\ Here(pieces, w, to, n) =>
             /\ SubSeq(rest, 5, all) = Frame(pieces, n + 1)
             /\ SubSeq(rest, all + 1, Len(rest)) = SubSeq(bytes, w[n + 1] + 1, to)

LEMMA NextFrame ==
    ASSUME NEW pieces \in Seq(Nat), NEW w, NEW total, Laid(pieces, w, total),
           NEW bytes, CutFrom(total, bytes), NEW to \in 0 .. Len(bytes),
           NEW n \in 0 .. Len(pieces), w[n] <= to
    PROVE  Begins(pieces, w, bytes, to, n)
  <1> DEFINE N == Len(pieces)
             a == w[n]
             rest == SubSeq(bytes, a + 1, to)
             p == pieces[n + 1]
             all == 4 + GetUint32(rest)
  <1>1. /\ N \in Nat /\ n \in Nat /\ a \in Nat /\ to \in Nat /\ a <= to
        /\ bytes \in Seq(Nat) /\ Len(bytes) \in Nat /\ to <= Len(bytes)
        /\ total \in Seq(Nat) /\ Len(total) \in Nat /\ Len(bytes) <= Len(total)
    BY DEF Laid, CutFrom
  <1>2. /\ rest \in Seq(Nat) /\ Len(rest) = to - a
        /\ \A i \in 1 .. (to - a) : rest[i] = bytes[a + i]
    <2> HIDE DEF a
    <2>1. a <= to /\ to <= Len(bytes)
      BY <1>1
    <2> QED
      BY <1>1, <2>1, Slice
  <1>3. \A i \in 1 .. (to - a) : rest[i] = total[a + i]
    <2> TAKE i \in 1 .. (to - a)
    <2>0. \A l, t, k \in Nat : k <= t /\ t <= l => \A j \in 1 .. (t - k) : k + j \in 1 .. l
      OBVIOUS
    <2>1. a + i \in 1 .. Len(bytes)
      BY <1>1, <2>0
    <2> QED
      BY <1>2, <2>1 DEF CutFrom
  <1> HIDE DEF a, rest
  <1>4. CASE n = N
    <2>1. a = Len(total)
      BY <1>4 DEF Laid, a
    <2>2. Len(rest) = 0
      BY <1>1, <1>2, <2>1
    <2>3. ~ HoldsFrame(rest) /\ ~ Here(pieces, w, to, n)
      BY <1>1, <1>4, <2>2 DEF HoldsFrame, Here
    <2> QED
      BY <1>2, <2>3 DEF rest, a, Begins
  <1>5. CASE n # N
    <2>1. n + 1 \in 1 .. N /\ (n + 1) - 1 = n /\ n < N
      BY <1>1, <1>5
    <2>2. /\ w[n + 1] = a + 4 + p
          /\ \A b \in 1 .. 4 : total[a + b] = <<0, 0, 0, p>>[b]
          /\ \A b \in 1 .. p : total[a + 4 + b] = n + 1
      <3> DEFINE m == n + 1
      <3>1. /\ w[m] = w[m - 1] + 4 + pieces[m]
            /\ \A b \in 1 .. 4 : total[w[m - 1] + b] = <<0, 0, 0, pieces[m]>>[b]
            /\ \A b \in 1 .. pieces[m] : total[w[m - 1] + 4 + b] = m
        <4>1. m \in 1 .. N
          BY <2>1
        <4> HIDE DEF m
        <4> QED
          BY <4>1 DEF Laid
      <3>2. m - 1 = n
        BY <2>1
      <3> QED
        BY <3>1, <3>2 DEF a
    <2>3. p \in Nat
      BY <2>1
    <2> HIDE DEF p
    <2>4. Here(pieces, w, to, n) <=> a + 4 + p <= to
      BY <2>1, <2>2 DEF Here
    <2>5. ASSUME Len(rest) >= 4 PROVE GetUint32(rest) = p
      <3>1. \A b \in 1 .. 4 : b \in 1 .. (to - a)
        <4>1. to - a \in Int /\ to - a >= 4
          BY <1>1, <1>2, <2>5
        <4>2. \A l \in Int : l >= 4 => \A b \in 1 .. 4 : b \in 1 .. l
          OBVIOUS
        <4> QED
          BY <4>1, <4>2
      <3>2. rest[1] = 0 /\ rest[2] = 0 /\ rest[3] = 0 /\ rest[4] = p
        <4>1. \A b \in 1 .. 4 : rest[b] = <<0, 0, 0, p>>[b]
          BY <1>3, <2>2, <3>1
        <4>2. 1 \in 1 .. 4 /\ 2 \in 1 .. 4 /\ 3 \in 1 .. 4 /\ 4 \in 1 .. 4
          OBVIOUS
        <4>3. rest[1] = <<0, 0, 0, p>>[1] /\ rest[2] = <<0, 0, 0, p>>[2]
              /\ rest[3] = <<0, 0, 0, p>>[3] /\ rest[4] = <<0, 0, 0, p>>[4]
          BY <4>1, <4>2
        <4> QED
          BY <4>3
      <3> QED
        BY <2>3, <3>2 DEF GetUint32
    <2>6. HoldsFrame(rest) <=> Here(pieces, w, to, n)
      BY <1>1, <1>2, <2>3, <2>4, <2>5 DEF HoldsFrame
    <2>7. ASSUME Here(pieces, w, to, n)
          PROVE  /\ SubSeq(rest, 5, all) = Frame(pieces, n + 1)
                 /\ SubSeq(rest, all + 1, Len(rest)) = SubSeq(bytes, w[n + 1] + 1, to)
      <3>1. all = 4 + p
        BY <1>1, <1>2, <2>3, <2>4, <2>5, <2>7
      <3>2. 4 + p <= to - a /\ to - a \in Nat
        BY <1>1, <2>3, <2>4, <2>7
      <3>3. SubSeq(rest, 5, all) = Frame(pieces, n + 1)
        <4> DEFINE piece == SubSeq(rest, 4 + 1, 4 + p)
        <4>1. /\ 4 \in Nat /\ 4 + p \in Nat /\ 4 <= 4 + p /\ 4 + p <= Len(rest)
              /\ (4 + p) - 4 = p /\ 4 + 1 = 5
          BY <1>2, <2>3, <3>2
        <4>2. /\ piece \in Seq(Nat) /\ Len(piece) = (4 + p) - 4
              /\ \A i \in 1 .. ((4 + p) - 4) : piece[i] = rest[4 + i]
          BY <1>2, <4>1, Slice
        <4>3. piece = SubSeq(rest, 5, all)
          BY <3>1, <4>1
        <4> HIDE DEF piece
        <4>4. /\ piece \in Seq(Nat) /\ Len(piece) = p
              /\ \A i \in 1 .. p : piece[i] = rest[4 + i]
          BY <4>1, <4>2
        <4>5. ASSUME NEW i \in 1 .. p PROVE piece[i] = n + 1
          <5>1. 4 + i \in 1 .. (to - a) /\ a + (4 + i) = a + 4 + i
            BY <1>1, <2>3, <3>2
          <5>2. rest[4 + i] = total[a + 4 + i]
            BY <1>3, <5>1
          <5> QED
            BY <2>2, <4>4, <5>2
        <4>6. piece = [i \in 1 .. p |-> piece[i]]
          BY <4>4
        <4>7. piece = [i \in 1 .. p |-> n + 1]
          BY <4>5, <4>6
        <4> QED
          BY <4>3, <4>7 DEF Frame, p
      <3>4. SubSeq(rest, all + 1, Len(rest)) = SubSeq(bytes, w[n + 1] + 1, to)
        <4> DEFINE k == 4 + p
                   l == to - a
        <4>1. k \in Nat /\ l \in Nat /\ k <= l /\ l <= to - a
          BY <2>3, <3>2
        <4> HIDE DEF k, l
        <4>2. SubSeq(SubSeq(bytes, a + 1, to), k + 1, l) = SubSeq(bytes, a + k + 1, a + l)
          BY <1>1, <4>1, SliceOfSlice
        <4>3. a + k + 1 = w[n + 1] + 1 /\ a + l = to /\ all = k /\ Len(rest) = l
          BY <1>1, <1>2, <2>2, <2>3, <3>1 DEF k, l
        <4> QED
          BY <4>2, <4>3 DEF rest
      <3> QED
        BY <3>3, <3>4
    <2> QED
      BY <1>2, <2>6, <2>7 DEF rest, a, Begins
  <1> QED
    BY <1>4, <1>5

LEMMA FramesType ==
    ASSUME NEW pieces \in Seq(Nat), NEW n \in 0 .. Len(pieces), NEW n0 \in 0 .. n
    PROVE  /\ FramesOf(pieces, n0, n) \in Seq(Seq(Nat)) /\ Len(FramesOf(pieces, n0, n)) = n - n0
           /\ n < Len(pieces) =>
                Append(FramesOf(pieces, n0, n), Frame(pieces, n + 1)) = FramesOf(pieces, n0, n + 1)
           /\ FramesOf(pieces, 0, n0) \o FramesOf(pieces, n0, n) = FramesOf(pieces, 0, n)
  <1>1. ASSUME NEW i \in 1 .. Len(pieces) PROVE Frame(pieces, i) \in Seq(Nat)
    <2>1. pieces[i] \in Nat /\ i \in Nat
      OBVIOUS
    <2> QED
      BY <2>1 DEF Frame
  <1>2. \A m \in 0 .. Len(pieces) : \A k \in 0 .. m :
          /\ FramesOf(pieces, k, m) \in Seq(Seq(Nat)) /\ Len(FramesOf(pieces, k, m)) = m - k
          /\ \A i \in 1 .. (m - k) : FramesOf(pieces, k, m)[i] = Frame(pieces, k + i)
    <2> TAKE m \in 0 .. Len(pieces)
    <2> TAKE k \in 0 .. m
    <2>1. \A i \in 1 .. (m - k) : k + i \in 1 .. Len(pieces)
      OBVIOUS
    <2>2. \A i \in 1 .. (m - k) : Frame(pieces, k + i) \in Seq(Nat)
      BY <1>1, <2>1
    <2>3. m - k \in Nat
      OBVIOUS
    <2> QED
      BY <2>2, <2>3 DEF FramesOf
  <1>3. n \in Nat /\ n0 \in Nat /\ n0 \in 0 .. Len(pieces) /\ n0 <= n /\ n \in 0 .. n /\ 0 \in 0 .. n /\ 0 \in 0 .. n0
    OBVIOUS
  <1> DEFINE s == FramesOf(pieces, n0, n)
  <1>4. s \in Seq(Seq(Nat)) /\ Len(s) = n - n0 /\ \A i \in 1 .. (n - n0) : s[i] = Frame(pieces, n0 + i)
    BY <1>2
  <1>5. ASSUME n < Len(pieces)
        PROVE  Append(s, Frame(pieces, n + 1)) = FramesOf(pieces, n0, n + 1)
    <2> DEFINE t == FramesOf(pieces, n0, n + 1)
               u == Append(s, Frame(pieces, n + 1))
    <2>1. n + 1 \in 1 .. Len(pieces) /\ n + 1 \in 0 .. Len(pieces) /\ n0 \in 0 .. (n + 1)
      BY <1>5
    <2>2. /\ t \in Seq(Seq(Nat)) /\ Len(t) = (n + 1) - n0
          /\ \A i \in 1 .. ((n + 1) - n0) : t[i] = Frame(pieces, n0 + i)
      BY <1>2, <2>1
    <2> DEFINE e == Frame(pieces, n + 1)
    <2>3. e \in Seq(Nat)
      BY <1>1, <2>1
    <2> HIDE DEF s, t, e
    <2>4. /\ u \in Seq(Seq(Nat)) /\ Len(u) = Len(s) + 1
          /\ \A i \in 1 .. Len(s) : u[i] = s[i]
          /\ u[Len(s) + 1] = e
      BY <1>4, <2>3, AppendProperties DEF e
    <2> HIDE DEF u
    <2>5. Len(u) = (n + 1) - n0
      BY <1>3, <1>4, <2>4
    <2>6. ASSUME NEW i \in 1 .. Len(t) PROVE u[i] = t[i]
      <3>1. CASE i = Len(s) + 1
        <4>1. n0 + i = n + 1 /\ i \in 1 .. ((n + 1) - n0)
          BY <1>3, <1>4, <3>1
        <4> QED
          BY <2>2, <2>4, <3>1, <4>1 DEF e
      <3>2. CASE i # Len(s) + 1
        <4>1. i \in 1 .. Len(s) /\ i \in 1 .. (n - n0) /\ i \in 1 .. ((n + 1) - n0)
          BY <1>3, <1>4, <2>2, <3>2
        <4> QED
          BY <1>4, <2>2, <2>4, <4>1
      <3> QED
        BY <3>1, <3>2
    <2>7. Len(u) = Len(t)
      BY <2>2, <2>5
    <2>8. u = t
      BY <2>2, <2>4, <2>6, <2>7, SeqEqual
    <2> QED
      BY <2>8 DEF u, t, e
  <1>6. FramesOf(pieces, 0, n0) \o s = FramesOf(pieces, 0, n)
    <2> DEFINE h == FramesOf(pieces, 0, n0)
               t == FramesOf(pieces, 0, n)
               u == h \o s
    <2>1. h \in Seq(Seq(Nat)) /\ Len(h) = n0 - 0 /\ \A i \in 1 .. (n0 - 0) : h[i] = Frame(pieces, 0 + i)
      BY <1>2, <1>3
    <2>2. t \in Seq(Seq(Nat)) /\ Len(t) = n - 0 /\ \A i \in 1 .. (n - 0) : t[i] = Frame(pieces, 0 + i)
      BY <1>2, <1>3
    <2>a. Len(h) = n0 /\ Len(t) = n
      BY <1>3, <2>1, <2>2
    <2>b. \A i \in 1 .. n0 : h[i] = Frame(pieces, i)
      <3>1. \A i \in 1 .. n0 : i \in 1 .. (n0 - 0) /\ 0 + i = i
        BY <1>3
      <3> QED
        BY <2>1, <3>1
    <2>c. \A i \in 1 .. n : t[i] = Frame(pieces, i)
      <3>1. \A i \in 1 .. n : i \in 1 .. (n - 0) /\ 0 + i = i
        BY <1>3
      <3> QED
        BY <2>2, <3>1
    <2> HIDE DEF h, s, t
    <2>3. /\ u \in Seq(Seq(Nat)) /\ Len(u) = Len(h) + Len(s)
          /\ \A i \in 1 .. Len(h) + Len(s) : u[i] = IF i <= Len(h) THEN h[i] ELSE s[i - Len(h)]
      BY <1>4, <2>1, ConcatProperties
    <2> HIDE DEF u
    <2>4. Len(u) = n
      BY <1>3, <1>4, <2>a, <2>3
    <2>5. ASSUME NEW i \in 1 .. n PROVE u[i] = t[i]
      <3>0. i \in 1 .. Len(h) + Len(s)
        BY <2>3, <2>4
      <3>1. CASE i <= n0
        <4>1. i \in 1 .. n0
          BY <1>3, <3>1
        <4> QED
          BY <2>3, <2>a, <2>b, <2>c, <3>0, <3>1, <4>1
      <3>2. CASE ~ (i <= n0)
        <4>1. i - n0 \in 1 .. (n - n0) /\ n0 + (i - n0) = i
          BY <1>3, <3>2
        <4>2. u[i] = s[i - n0]
          BY <2>3, <2>a, <3>0, <3>2
        <4> QED
          BY <1>4, <2>c, <4>1, <4>2
      <3> QED
        BY <3>1, <3>2
    <2>6. u = t
      BY <2>2, <2>3, <2>4, <2>5, <2>a, SeqEqual
    <2> QED
      BY <2>6 DEF u, h, t
  <1> QED
    BY <1>4, <1>5, <1>6

\* What the loop holds when n pieces have been taken out of the bytes to there.
TakenTo(pieces, w, bytes, to, n0, n) ==
    [frames |-> FramesOf(pieces, n0, n), rest |-> SubSeq(bytes, w[n] + 1, to)]

LEMMA TakesNext ==
    ASSUME NEW pieces \in Seq(Nat), NEW w, NEW total, Laid(pieces, w, total),
           NEW bytes, CutFrom(total, bytes), NEW to \in 0 .. Len(bytes),
           NEW n \in 0 .. Len(pieces), NEW n0 \in 0 .. n, w[n] <= to
    PROVE  LET read == TakenTo(pieces, w, bytes, to, n0, n) IN
             /\ HoldsFrame(read.rest) <=> Here(pieces, w, to, n)
             /\ Here(pieces, w, to, n) =>
                  /\ n + 1 \in n0 .. Len(pieces) /\ w[n + 1] >= w[n] + 4
                  /\ FrameTaken(read) = TakenTo(pieces, w, bytes, to, n0, n + 1)
  <1> DEFINE read == TakenTo(pieces, w, bytes, to, n0, n)
             rest == SubSeq(bytes, w[n] + 1, to)
             all  == 4 + GetUint32(rest)
             frames == FramesOf(pieces, n0, n)
  <1>1. read.rest = rest /\ read.frames = frames
    BY DEF TakenTo
  <1>2. /\ HoldsFrame(rest) <=> Here(pieces, w, to, n)
        /\ Here(pieces, w, to, n) =>
             /\ SubSeq(rest, 5, all) = Frame(pieces, n + 1)
             /\ SubSeq(rest, all + 1, Len(rest)) = SubSeq(bytes, w[n + 1] + 1, to)
    <2>1. Begins(pieces, w, bytes, to, n)
      BY NextFrame
    <2> QED
      BY <2>1 DEF Begins
  <1>3. ASSUME Here(pieces, w, to, n)
        PROVE  /\ n + 1 \in n0 .. Len(pieces) /\ w[n + 1] >= w[n] + 4
               /\ FrameTaken(read) = TakenTo(pieces, w, bytes, to, n0, n + 1)
    <2>1. n < Len(pieces) /\ n + 1 \in 1 .. Len(pieces) /\ n + 1 \in n0 .. Len(pieces) /\ (n + 1) - 1 = n
      BY <1>3 DEF Here
    <2>2. w[n + 1] >= w[n] + 4
      <3> DEFINE m == n + 1
      <3>1. w[m] = w[m - 1] + 4 + pieces[m] /\ pieces[m] \in Nat
        <4>1. m \in 1 .. Len(pieces)
          BY <2>1
        <4> HIDE DEF m
        <4> QED
          BY <4>1 DEF Laid
      <3>2. w[n] \in Nat
        BY DEF Laid
      <3> QED
        BY <2>1, <3>1, <3>2
    <2>3. Append(frames, Frame(pieces, n + 1)) = FramesOf(pieces, n0, n + 1)
      BY <2>1, FramesType
    <2>4. FrameTaken(read) = [frames |-> Append(frames, SubSeq(rest, 5, all)),
                              rest |-> SubSeq(rest, all + 1, Len(rest))]
      BY <1>1 DEF FrameTaken
    <2> HIDE DEF read, rest, all, frames
    <2>5. FrameTaken(read) = [frames |-> FramesOf(pieces, n0, n + 1),
                              rest |-> SubSeq(bytes, w[n + 1] + 1, to)]
      BY <1>2, <1>3, <2>3, <2>4
    <2> QED
      BY <2>1, <2>2, <2>5 DEF TakenTo
  <1> HIDE DEF rest, all, frames
  <1> QED
    BY <1>1, <1>2, <1>3

LEMMA ReadsWhole ==
    ASSUME NEW pieces \in Seq(Nat), NEW w, NEW total, Laid(pieces, w, total),
           NEW bytes, CutFrom(total, bytes), NEW to \in 0 .. Len(bytes),
           NEW n0 \in 0 .. Len(pieces), w[n0] <= to
    PROVE  \E n \in n0 .. Len(pieces) :
             /\ w[n] <= to /\ ~ Here(pieces, w, to, n)
             /\ FramesRead(SubSeq(bytes, w[n0] + 1, to)) = TakenTo(pieces, w, bytes, to, n0, n)
  <1> DEFINE N == Len(pieces)
             buffer == SubSeq(bytes, w[n0] + 1, to)
             turns == Len(buffer) \div 4
             At(n) == TakenTo(pieces, w, bytes, to, n0, n)
             Fit(turn, n) == /\ w[n] <= to
                             /\ w[n] >= w[n0] + 4 * turn \/ ~ Here(pieces, w, to, n)
             S == [turn \in 0 .. turns |-> {At(n) : n \in {k \in n0 .. N : Fit(turn, k)}}]
             After(s) == IF HoldsFrame(s.rest) THEN FrameTaken(s) ELSE s
             G == [q \in (1 .. turns) \X {At(n) : n \in n0 .. N} |-> After(q[2])]
  <1>1. /\ N \in Nat /\ n0 \in Nat /\ to \in Nat /\ n0 \in n0 .. N
        /\ \A n \in n0 .. N : n \in 0 .. N /\ n0 \in 0 .. n
    BY DEF CutFrom
  <1>2. \A n \in 0 .. N : w[n] \in Nat
    BY DEF Laid
  <1>3. Len(buffer) = to - w[n0]
    <2>1. Begins(pieces, w, bytes, to, n0)
      BY NextFrame
    <2> QED
      BY <2>1 DEF Begins
  <1>4. turns \in Nat /\ 4 * turns <= to - w[n0] /\ to - w[n0] < 4 * turns + 4
    <2>1. to - w[n0] \in Nat
      BY <1>1, <1>2
    <2>2. \A k \in Nat : k \div 4 \in Nat /\ 4 * (k \div 4) <= k /\ k < 4 * (k \div 4) + 4
      OBVIOUS
    <2> QED
      BY <1>3, <2>1, <2>2
  <1>5. ASSUME NEW n \in n0 .. N, w[n] <= to
        PROVE  /\ HoldsFrame(At(n).rest) <=> Here(pieces, w, to, n)
               /\ Here(pieces, w, to, n) =>
                    /\ n + 1 \in n0 .. N /\ w[n + 1] >= w[n] + 4
                    /\ FrameTaken(At(n)) = At(n + 1)
    BY <1>1, <1>5, TakesNext
  <1> HIDE DEF buffer, turns, At
  <1>6. At(n0) = [frames |-> <<>>, rest |-> buffer]
    <2>1. FramesOf(pieces, n0, n0) = <<>>
      BY <1>1 DEF FramesOf
    <2> QED
      BY <2>1 DEF At, TakenTo, buffer
  <1>7. At(n0) \in S[0]
    <2>1. w[n0] \in Nat /\ 4 * 0 = 0
      BY <1>2
    <2>2. Fit(0, n0)
      BY <2>1
    <2>3. 0 \in 0 .. turns
      BY <1>4
    <2> HIDE DEF Fit
    <2> QED
      BY <1>1, <2>2, <2>3
  <1>8. ASSUME NEW turn \in 1 .. turns, NEW n \in n0 .. N, Fit(turn - 1, n)
        PROVE  \E k \in n0 .. N : Fit(turn, k) /\ After(At(n)) = At(k)
    <2>1. CASE Here(pieces, w, to, n)
      <3>1. HoldsFrame(At(n).rest) /\ n + 1 \in n0 .. N /\ w[n + 1] >= w[n] + 4 /\ FrameTaken(At(n)) = At(n + 1)
        BY <1>5, <1>8, <2>1
      <3>2. w[n + 1] <= to
        BY <2>1 DEF Here
      <3>3. w[n] >= w[n0] + 4 * (turn - 1)
        BY <1>8, <2>1
      <3>4. w[n + 1] >= w[n0] + 4 * turn
        <4>1. w[n + 1] \in Nat /\ w[n] \in Nat /\ w[n0] \in Nat /\ turn \in Nat
          BY <1>1, <1>2, <1>4, <3>1
        <4>2. \A x, y, z, m \in Nat : x >= y + 4 /\ y >= z + 4 * (m - 1) => x >= z + 4 * m
          OBVIOUS
        <4> QED
          BY <3>1, <3>3, <4>1, <4>2
      <3>5. Fit(turn, n + 1)
        BY <3>2, <3>4
      <3> HIDE DEF Fit
      <3> QED
        BY <3>1, <3>5
    <2>2. CASE ~ Here(pieces, w, to, n)
      <3>1. Fit(turn, n) /\ ~ HoldsFrame(At(n).rest)
        BY <1>5, <1>8, <2>2
      <3> HIDE DEF Fit
      <3> QED
        BY <3>1
    <2> QED
      BY <2>1, <2>2
  <1> HIDE DEF Fit, After
  <1>9. \A turn \in 1 .. turns : turn \in 0 .. turns /\ turn - 1 \in 0 .. turns /\ turn # 0
    BY <1>4
  <1>10. \A turn \in 0 .. turns : \A s : s \in S[turn] <=> \E n \in n0 .. N : Fit(turn, n) /\ s = At(n)
    OBVIOUS
  <1>11. \A turn \in 1 .. turns : \A n \in n0 .. N : G[<<turn, At(n)>>] = After(At(n))
    OBVIOUS
  <1> HIDE DEF S, G
  <1>12. \A turn \in 1 .. turns : \A s \in S[turn - 1] : G[<<turn, s>>] = After(s) /\ After(s) \in S[turn]
    <2> TAKE turn \in 1 .. turns
    <2> TAKE s \in S[turn - 1]
    <2>1. PICK n \in n0 .. N : Fit(turn - 1, n) /\ s = At(n)
      BY <1>9, <1>10
    <2>2. PICK k \in n0 .. N : Fit(turn, k) /\ After(At(n)) = At(k)
      BY <1>8, <2>1
    <2> QED
      BY <1>9, <1>10, <1>11, <2>1, <2>2
  <1>13. StaysIn(turns, S, G)
    BY <1>12 DEF StaysIn
  <1>14. PICK g : Solves(turns, S, At(n0), G, g)
    BY <1>4, <1>7, <1>13, RecursionExists
  <1> DEFINE Sol == CHOOSE read : read = [turn \in 0 .. turns |->
                      IF turn = 0 THEN [frames |-> <<>>, rest |-> buffer]
                      ELSE IF HoldsFrame(read[turn - 1].rest) THEN FrameTaken(read[turn - 1])
                      ELSE read[turn - 1]]
  <1>15. g = [turn \in 0 .. turns |->
                IF turn = 0 THEN [frames |-> <<>>, rest |-> buffer]
                ELSE IF HoldsFrame(g[turn - 1].rest) THEN FrameTaken(g[turn - 1])
                ELSE g[turn - 1]]
    <2>1. \A turn \in 1 .. turns : g[turn] = After(g[turn - 1])
      BY <1>9, <1>12, <1>14 DEF Solves
    <2>2. g[0] = [frames |-> <<>>, rest |-> buffer] /\ g = [turn \in 0 .. turns |-> g[turn]]
      BY <1>6, <1>14 DEF Solves
    <2>3. \A turn \in 0 .. turns : turn = 0 \/ turn \in 1 .. turns
      BY <1>4
    <2> QED
      BY <2>1, <2>2, <2>3 DEF After
  <1>16. Sol = [turn \in 0 .. turns |->
                 IF turn = 0 THEN [frames |-> <<>>, rest |-> buffer]
                 ELSE IF HoldsFrame(Sol[turn - 1].rest) THEN FrameTaken(Sol[turn - 1])
                 ELSE Sol[turn - 1]]
    BY <1>15
  <1>17. FramesRead(buffer) = Sol[turns]
    BY DEF FramesRead, turns
  <1> HIDE DEF Sol
  <1>18. \A turn \in 0 .. turns : Sol[turn] \in S[turn]
    <2>1. Sol[0] \in S[0]
      <3>1. 0 \in 0 .. turns
        BY <1>4
      <3> QED
        BY <1>6, <1>7, <1>16, <3>1
    <2>2. \A turn \in 1 .. turns : Sol[turn - 1] \in S[turn - 1] => Sol[turn] \in S[turn]
      <3> TAKE turn \in 1 .. turns
      <3>1. Sol[turn] = After(Sol[turn - 1])
        BY <1>9, <1>16 DEF After
      <3> QED
        BY <1>12, <3>1
    <2> QED
      BY <1>4, <2>1, <2>2, RecursionStays
  <1>19. PICK n \in n0 .. N : Fit(turns, n) /\ FramesRead(buffer) = At(n)
    <2>1. turns \in 0 .. turns
      BY <1>4
    <2> QED
      BY <1>10, <1>17, <1>18, <2>1
  <1>20. ~ Here(pieces, w, to, n)
    <2> SUFFICES ASSUME Here(pieces, w, to, n) PROVE FALSE
      OBVIOUS
    <2>1. w[n] <= to /\ w[n] >= w[n0] + 4 * turns
      BY <1>19 DEF Fit
    <2>2. n + 1 \in n0 .. N /\ w[n + 1] >= w[n] + 4 /\ w[n + 1] <= to
      BY <1>5, <2>1 DEF Here
    <2>3. w[n + 1] \in Nat /\ w[n] \in Nat /\ w[n0] \in Nat
      BY <1>1, <1>2, <2>2
    <2>4. \A x, y, z, m \in Nat :
            x >= y + 4 /\ y >= z + 4 * m /\ x <= to /\ to \in Nat => to - z >= 4 * m + 4
      OBVIOUS
    <2>5. to \in Nat /\ turns \in Nat /\ to - w[n0] < 4 * turns + 4
      BY <1>1, <1>4
    <2>6. to - w[n0] >= 4 * turns + 4
      BY <2>1, <2>2, <2>3, <2>4, <2>5
    <2>7. to - w[n0] \in Int /\ 4 * turns + 4 \in Int
      BY <2>3, <2>5
    <2> QED
      BY <2>5, <2>6, <2>7
  <1>21. w[n] <= to
    BY <1>19 DEF Fit
  <1> QED
    BY <1>19, <1>20, <1>21 DEF At, buffer

-----------------------------------------------------------------------------
(* One reading: what each step makes of its closure, its context and its sources. *)

Unanswered(a) == a.phase \in {"asking", "frames", "whole"}

LEMMA Fields ==
    ASSUME NEW a, GoodReading(a)
    PROVE  /\ a.phase \in Phases /\ a.cancelled \in BOOLEAN /\ a.open \in BOOLEAN
           /\ a.body \in [pieces : Seq(Nat), cut : Nat] /\ a.arrived \in Nat /\ a.buffer \in Seq(Nat)
           /\ a.given \in Seq(Seq(Nat)) /\ a.decoding \subseteq 1 .. Len(a.given)
           /\ a.sources \in Seq(Source)
           /\ a.nextStartAt \in Nat /\ a.scheduled = Len(a.given) /\ a.sourcesDone \in Nat
           /\ a.streamDone \in BOOLEAN /\ a.bad \in Nat
           /\ Len(a.given) \in Nat /\ Len(a.sources) \in Nat
           /\ IsFiniteSet(a.decoding) /\ Cardinality(a.decoding) \in Nat
           /\ Cardinality(a.decoding) = 0 => a.decoding = {}
           /\ Cardinality(Ended(a.sources)) \in Nat
           /\ Cardinality(Ended(a.sources)) <= Len(a.sources)
           /\ Cardinality(Ended(a.sources)) = Len(a.sources) =>
                \A i \in DOMAIN a.sources : a.sources[i].ended
  <1>1. /\ a.phase \in Phases /\ a.cancelled \in BOOLEAN /\ a.open \in BOOLEAN
        /\ a.body \in [pieces : Seq(Nat), cut : Nat] /\ a.arrived \in Nat /\ a.buffer \in Seq(Nat)
        /\ a.given \in Seq(Seq(Nat)) /\ a.decoding \subseteq 1 .. Len(a.given)
        /\ a.sources \in Seq(Source)
        /\ a.nextStartAt \in Nat /\ a.scheduled = Len(a.given) /\ a.sourcesDone \in Nat
        /\ a.streamDone \in BOOLEAN /\ a.bad \in Nat
    BY DEF GoodReading, Reading
  <1>2. Len(a.given) \in Nat /\ Len(a.sources) \in Nat /\ DOMAIN a.sources = 1 .. Len(a.sources)
    BY <1>1
  <1>3. IsFiniteSet(a.decoding) /\ Cardinality(a.decoding) \in Nat
    <2>1. IsFiniteSet(1 .. Len(a.given))
      <3> DEFINE n == Len(a.given)
      <3>1. 1 \in Int /\ n \in Int
        BY <1>2
      <3> HIDE DEF n
      <3>2. IsFiniteSet(1 .. n)
        BY <3>1, FS_Interval
      <3> QED
        BY <3>2 DEF n
    <2>2. IsFiniteSet(a.decoding)
      BY <1>1, <2>1, FS_Subset
    <2> QED
      BY <2>2, FS_CardinalityType
  <1>4. Cardinality(a.decoding) = 0 => a.decoding = {}
    BY <1>3, FS_EmptySet
  <1>5. IsFiniteSet(1 .. Len(a.sources)) /\ Cardinality(1 .. Len(a.sources)) = Len(a.sources)
    BY <1>2, FS_Interval
  <1>6. Ended(a.sources) \in SUBSET (1 .. Len(a.sources))
    BY <1>2 DEF Ended
  <1>7. /\ Cardinality(Ended(a.sources)) <= Len(a.sources)
        /\ Len(a.sources) = Cardinality(Ended(a.sources)) => Ended(a.sources) = 1 .. Len(a.sources)
        /\ IsFiniteSet(Ended(a.sources))
    BY <1>5, <1>6, FS_Subset
  <1>8. Cardinality(Ended(a.sources)) \in Nat
    BY <1>7, FS_CardinalityType
  <1>9. Ended(a.sources) = 1 .. Len(a.sources) => \A i \in DOMAIN a.sources : a.sources[i].ended
    BY <1>2 DEF Ended
  <1> QED
    BY <1>1, <1>2, <1>3, <1>4, <1>7, <1>8, <1>9

\* When as many are done as there are pieces, none is left to decode or to end.
LEMMA AllDone ==
    ASSUME NEW a, GoodReading(a), Counted(a), a.scheduled = a.sourcesDone
    PROVE  a.decoding = {} /\ \A i \in DOMAIN a.sources : a.sources[i].ended
  <1> DEFINE c == Cardinality(a.decoding)
             e == Cardinality(Ended(a.sources))
             l == Len(a.sources)
  <1>1. /\ c \in Nat /\ e \in Nat /\ l \in Nat /\ a.bad \in Nat /\ e <= l
        /\ a.scheduled = Len(a.given) /\ Len(a.given) \in Nat
        /\ c = 0 => a.decoding = {}
        /\ e = l => \A i \in DOMAIN a.sources : a.sources[i].ended
    BY Fields
  <1>2. c + l + a.bad = Len(a.given) /\ a.sourcesDone = e + a.bad
    BY DEF Counted
  <1> HIDE DEF c, e, l
  <1>3. c = 0 /\ e = l
    <2>1. \A i, j, k, n \in Nat : i + k + n = j + n /\ j <= k => i = 0 /\ j = k
      OBVIOUS
    <2>2. c + l + a.bad = e + a.bad
      BY <1>1, <1>2
    <2> QED
      BY <1>1, <2>1, <2>2
  <1> QED
    BY <1>1, <1>3

FailedAs(a, bad, decoding) ==
    [a EXCEPT !.phase = "failed", !.bad = bad, !.decoding = decoding]

\* A reading that throws where nothing is left to hear, or that something marred.
LEMMA FailedGood ==
    ASSUME NEW a, GoodReading(a), Unanswered(a) \/ a.phase = "decoding",
           NEW bad \in Nat, NEW decoding \in SUBSET a.decoding,
           bad = 0 => a.bad = 0 /\ (a.open => Untouched(a))
    PROVE  LET b == FailedAs(a, bad, decoding)
           IN  GoodReading(b) /\ b.phase = "failed" /\ b.bad = bad /\ b.cancelled = a.cancelled /\ b.open = a.open
  <1> DEFINE b == FailedAs(a, bad, decoding)
  <1>1. a \in Reading /\ FrameInv(a) /\ ~ a.streamDone
    BY DEF GoodReading, Unanswered
  <1>2. /\ b \in Reading /\ b.phase = "failed" /\ b.bad = bad /\ b.decoding = decoding
        /\ b.given = a.given /\ b.sources = a.sources /\ b.buffer = a.buffer
        /\ b.arrived = a.arrived /\ b.sourcesDone = a.sourcesDone /\ b.body = a.body
        /\ b.nextStartAt = a.nextStartAt /\ b.scheduled = a.scheduled
        /\ b.streamDone = a.streamDone /\ b.cancelled = a.cancelled /\ b.open = a.open
    BY <1>1 DEF Reading, Phases, FailedAs
  <1> HIDE DEF b
  <1>3. FrameInv(b)
    BY <1>1, <1>2, SameFrames
  <1>4. b.open /\ bad = 0 => Quiet(b)
    BY <1>2 DEF Quiet, Untouched
  <1>5. GoodReading(b)
    BY <1>1, <1>2, <1>3, <1>4 DEF GoodReading
  <1> QED
    BY <1>2, <1>5 DEF b

AnsweredAs(a, phase, body) == [a EXCEPT !.phase = phase, !.body = body]

\* Nothing has come of what was answered.
LEMMA AnsweredGood ==
    ASSUME NEW a, GoodReading(a), a.phase = "asking",
           NEW body \in Bodies, NEW phase \in {"frames", "whole"}
    PROVE  LET b == AnsweredAs(a, phase, body)
           IN  GoodReading(b) /\ b.open = a.open /\ b.bad = a.bad /\ b.cancelled = a.cancelled
               /\ b.phase = phase
  <1> DEFINE b == AnsweredAs(a, phase, body)
  <1>0. a \in Reading /\ Untouched(a) /\ ~ a.streamDone
    BY DEF GoodReading
  <1>1. body \in [pieces : Seq(Nat), cut : Nat]
    BY PlaybackAssumption
  <1>2. /\ b \in Reading /\ b.phase = phase /\ b.bad = a.bad /\ b.decoding = a.decoding
        /\ b.given = a.given /\ b.sources = a.sources /\ b.buffer = a.buffer
        /\ b.arrived = a.arrived /\ b.sourcesDone = a.sourcesDone /\ b.body = body
        /\ b.nextStartAt = a.nextStartAt /\ b.scheduled = a.scheduled
        /\ b.streamDone = a.streamDone /\ b.cancelled = a.cancelled /\ b.open = a.open
    BY <1>0, <1>1 DEF Reading, Phases, AnsweredAs
  <1> HIDE DEF b
  <1>3. FrameInv(b)
    <2> DEFINE pieces == body.pieces
               w == Ends(pieces)
               bytes == BytesOf(body)
    <2>1. pieces \in Seq(Nat) /\ Len(pieces) \in Nat /\ 0 \in 0 .. Len(pieces)
      BY <1>1
    <2>2. Laid(pieces, w, Framed(pieces)) /\ CutFrom(Framed(pieces), bytes)
      BY <1>1, <2>1, BytesLaid, BytesCut
    <2> HIDE DEF pieces, w, bytes
    <2>3. /\ w[0] = 0 /\ bytes \in Seq(Nat) /\ Len(bytes) \in Nat
          /\ Len(pieces) > 0 => w[1] \in Nat /\ w[1] > 0
      <3>1. Len(pieces) > 0 => w[1] = w[1 - 1] + 4 + pieces[1] /\ pieces[1] \in Nat
        <4>1. Len(pieces) > 0 => 1 \in 1 .. Len(pieces)
          BY <2>1
        <4> QED
          BY <2>1, <2>2, <4>1 DEF Laid
      <3>2. w[0] = 0 /\ bytes \in Seq(Nat) /\ 1 - 1 = 0
        BY <2>2 DEF Laid, CutFrom
      <3> QED
        BY <3>1, <3>2
    <2>4. ~ Here(pieces, w, 0, 0)
      <3>1. 0 + 1 = 1
        OBVIOUS
      <3> QED
        BY <2>1, <2>3, <3>1 DEF Here, Laid
    <2>5. FramesOf(pieces, 0, 0) = <<>>
      BY DEF FramesOf
    <2>6. SubSeq(bytes, w[0] + 1, 0) = <<>>
      BY <2>3
    <2>7. b.arrived = 0 /\ b.given = <<>> /\ b.buffer = <<>>
      BY <1>0, <1>2 DEF Untouched
    <2>8. Received(b, 0)
      BY <1>2, <2>3, <2>4, <2>5, <2>7 DEF Received, pieces, w
    <2>9. 0 <= Len(bytes)
      BY <2>3
    <2> QED
      BY <1>2, <2>1, <2>6, <2>7, <2>8, <2>9 DEF FrameInv, pieces, w, bytes
  <1>4. Untouched(b)
    BY <1>0, <1>2 DEF Untouched
  <1>5. a.cancelled = ~ a.open /\ (a.open => Counted(a))
    BY DEF GoodReading
  <1>6. a.open => Counted(b)
    BY <1>2, <1>5 DEF Counted
  <1>7. GoodReading(b)
    BY <1>2, <1>3, <1>4, <1>5, <1>6, <1>0, Fields DEF GoodReading
  <1> QED
    BY <1>2, <1>7 DEF b

\* However many bytes come, the frames they complete are handed over as sent.
LEMMA ReadGood ==
    ASSUME NEW a, GoodReading(a), a.phase = "frames",
           NEW to \in (a.arrived + 1) .. Len(BytesOf(a.body))
    PROVE  LET read == FramesRead(a.buffer \o SubSeq(BytesOf(a.body), a.arrived + 1, to))
               given == a.given \o read.frames
               b == [a EXCEPT !.arrived = to, !.buffer = read.rest, !.given = given,
                              !.scheduled = Len(given),
                              !.decoding = @ \cup ((Len(a.given) + 1) .. Len(given))]
           IN  GoodReading(b) /\ b.open = a.open /\ b.bad = a.bad /\ b.cancelled = a.cancelled
               /\ b.phase = a.phase
  <1> DEFINE pieces == a.body.pieces
             N == Len(pieces)
             w == Ends(pieces)
             bytes == BytesOf(a.body)
             read == FramesRead(a.buffer \o SubSeq(bytes, a.arrived + 1, to))
             given == a.given \o read.frames
             more == (Len(a.given) + 1) .. Len(given)
             decoding == a.decoding \cup more
             b == [a EXCEPT !.arrived = to, !.buffer = read.rest, !.given = given,
                            !.scheduled = Len(given), !.decoding = @ \cup more]
  <1>1. /\ a \in Reading /\ a.body \in [pieces : Seq(Nat), cut : Nat] /\ a.arrived \in Nat
        /\ a.given \in Seq(Seq(Nat)) /\ a.decoding \subseteq 1 .. Len(a.given)
        /\ Len(a.given) \in Nat /\ IsFiniteSet(a.decoding) /\ Cardinality(a.decoding) \in Nat
        /\ Len(a.sources) \in Nat /\ a.bad \in Nat
    BY Fields DEF GoodReading
  <1>2. pieces \in Seq(Nat) /\ N \in Nat
    BY <1>1
  <1>3. Laid(pieces, w, Framed(pieces)) /\ CutFrom(Framed(pieces), bytes)
    BY <1>1, <1>2, BytesLaid, BytesCut
  <1>4. PICK n0 \in 0 .. N : Received(a, n0) /\ a.buffer = SubSeq(bytes, w[n0] + 1, a.arrived)
    BY DEF GoodReading, FrameInv
  <1>5. bytes \in Seq(Nat) /\ Len(bytes) \in Nat /\ w[n0] \in Nat
    <2> HIDE DEF w, bytes, pieces
    <2>1. bytes \in Seq(Nat)
      BY <1>3 DEF CutFrom
    <2>2. w[n0] \in Nat
      BY <1>3, <1>4 DEF Laid
    <2> QED
      BY <2>1, <2>2
  <1>6. /\ a.given = FramesOf(pieces, 0, n0) /\ w[n0] <= a.arrived
    BY <1>4 DEF Received
  <1>7. to \in Nat /\ to \in 0 .. Len(bytes) /\ a.arrived < to /\ a.arrived <= to /\ to <= Len(bytes) /\ w[n0] <= to
    <2> DEFINE m == w[n0]
               k == a.arrived
               l == Len(bytes)
    <2>1. m \in Nat /\ k \in Nat /\ l \in Nat /\ m <= k /\ to \in (k + 1) .. l
      BY <1>1, <1>5, <1>6
    <2> HIDE DEF m, k, l
    <2>2. to \in Nat /\ to \in 0 .. l /\ k < to /\ k <= to /\ to <= l /\ m <= to
      BY <2>1
    <2> QED
      BY <2>2 DEF m, k, l
  <1> HIDE DEF w, bytes
  <1>8. a.buffer \o SubSeq(bytes, a.arrived + 1, to) = SubSeq(bytes, w[n0] + 1, to)
    <2> DEFINE m == w[n0]
               k == a.arrived
    <2>1. m \in Nat /\ k \in Nat /\ m <= k /\ k <= to
      BY <1>1, <1>5, <1>6, <1>7
    <2> HIDE DEF m, k
    <2>2. SubSeq(bytes, m + 1, k) \o SubSeq(bytes, k + 1, to) = SubSeq(bytes, m + 1, to)
      <3>1. bytes \in Seq(Nat) /\ to \in Nat /\ to <= Len(bytes)
        BY <1>5, <1>7
      <3> HIDE DEF pieces, N, read, given, more, decoding, b
      <3> QED
        BY <2>1, <3>1, SlicesJoined
    <2> QED
      BY <1>4, <2>2 DEF m, k
  <1> HIDE DEF pieces
  <1>9. PICK n \in n0 .. N : /\ w[n] <= to /\ ~ Here(pieces, w, to, n)
                             /\ read = TakenTo(pieces, w, bytes, to, n0, n)
    <2>1. read = FramesRead(SubSeq(bytes, w[n0] + 1, to))
      BY <1>8
    <2>2. to \in 0 .. Len(bytes) /\ w[n0] <= to /\ n0 \in 0 .. Len(pieces) /\ pieces \in Seq(Nat)
      BY <1>2, <1>7
    <2> HIDE DEF read
    <2>3. \E n \in n0 .. Len(pieces) :
            /\ w[n] <= to /\ ~ Here(pieces, w, to, n)
            /\ FramesRead(SubSeq(bytes, w[n0] + 1, to)) = TakenTo(pieces, w, bytes, to, n0, n)
      BY <1>3, <2>2, ReadsWhole
    <2> QED
      BY <2>1, <2>3
  <1>10. n \in 0 .. N /\ n0 \in 0 .. n /\ n0 \in Nat /\ n \in Nat
    BY <1>2
  <1>11. /\ read.frames = FramesOf(pieces, n0, n) /\ read.rest = SubSeq(bytes, w[n] + 1, to)
    BY <1>9 DEF TakenTo
  <1>12. given = FramesOf(pieces, 0, n)
    BY <1>2, <1>6, <1>10, <1>11, FramesType
  <1>13. given \in Seq(Seq(Nat)) /\ Len(given) = n /\ Len(a.given) = n0
    <2>1. 0 \in 0 .. n /\ 0 \in 0 .. n0 /\ n - 0 = n /\ n0 - 0 = n0 /\ n0 \in 0 .. N
      BY <1>2, <1>10
    <2>2. FramesOf(pieces, 0, n) \in Seq(Seq(Nat)) /\ Len(FramesOf(pieces, 0, n)) = n - 0
      BY <1>2, <1>10, <2>1, FramesType
    <2>3. Len(FramesOf(pieces, 0, n0)) = n0 - 0
      BY <1>2, <1>10, <2>1, FramesType
    <2> QED
      BY <1>6, <1>12, <2>1, <2>2, <2>3
  <1>14. read.rest \in Seq(Nat)
    <2>1. w[n] \in Nat
      BY <1>2, <1>3, <1>10 DEF Laid
    <2> QED
      BY <1>5, <1>7, <1>9, <1>11, <2>1, Slice
  <1> HIDE DEF read, given
  <1>15. more = (n0 + 1) .. n
    BY <1>13
  <1>16. decoding \subseteq 1 .. Len(given)
    BY <1>1, <1>10, <1>13, <1>15
  <1>17. decoding \subseteq Nat
    BY <1>10, <1>13, <1>16
  <1> HIDE DEF more
  <1>18. /\ b \in Reading /\ b.phase = a.phase /\ b.bad = a.bad
         /\ b.decoding = decoding
         /\ b.given = given /\ b.sources = a.sources /\ b.buffer = read.rest
         /\ b.arrived = to /\ b.sourcesDone = a.sourcesDone /\ b.body = a.body
         /\ b.nextStartAt = a.nextStartAt /\ b.scheduled = Len(given)
         /\ b.streamDone = a.streamDone /\ b.cancelled = a.cancelled /\ b.open = a.open
    <2>1. Len(given) \in Nat
      BY <1>10, <1>13
    <2> HIDE DEF decoding
    <2>2. b = [a EXCEPT !.arrived = to, !.buffer = read.rest, !.given = given,
                        !.scheduled = Len(given), !.decoding = decoding]
      BY <1>1 DEF decoding, Reading
    <2> HIDE DEF b
    <2> QED
      BY <1>1, <1>7, <1>13, <1>14, <1>17, <2>1, <2>2 DEF Reading
  <1> HIDE DEF b
  <1>19. FrameInv(b)
    <2>1. Received(b, n)
      BY <1>9, <1>12, <1>18 DEF Received, pieces, w
    <2> QED
      BY <1>7, <1>10, <1>11, <1>18, <2>1 DEF FrameInv, pieces, w, bytes, N
  <1>20. Cardinality(decoding) = Cardinality(a.decoding) + (n - n0)
    <2>1. IsFiniteSet(more) /\ Cardinality(more) = n - n0
      <3>1. n0 + 1 \in Int /\ n \in Int /\ (IF n0 + 1 > n THEN 0 ELSE n - (n0 + 1) + 1) = n - n0
        BY <1>10
      <3> QED
        BY <1>15, <3>1, FS_Interval
    <2>2. a.decoding \cap more = {}
      BY <1>1, <1>10, <1>13, <1>15
    <2>3. /\ IsFiniteSet(a.decoding \cup more)
          /\ Cardinality(a.decoding \cup more)
               = Cardinality(a.decoding) + Cardinality(more) - Cardinality(a.decoding \cap more)
      BY <1>1, <2>1, FS_Union
    <2>4. Cardinality(a.decoding \cap more) = 0
      BY <2>2, FS_EmptySet
    <2> QED
      BY <1>1, <1>10, <2>1, <2>3, <2>4
  <1>21. a.open => Counted(b)
    <2> SUFFICES ASSUME a.open PROVE Counted(b)
      OBVIOUS
    <2>1. Counted(a)
      BY DEF GoodReading
    <2>2. Cardinality(decoding) + Len(a.sources) + a.bad = n
      <3> HIDE DEF decoding
      <3>1. Cardinality(a.decoding) + Len(a.sources) + a.bad = n0
        BY <1>13, <2>1 DEF Counted
      <3>2. \A c, l, e, x, y \in Nat : c + l + e = x => c + (y - x) + l + e = y
        OBVIOUS
      <3> DEFINE c == Cardinality(a.decoding)
                 l == Len(a.sources)
                 e == a.bad
      <3>3. c \in Nat /\ l \in Nat /\ e \in Nat /\ n0 \in Nat /\ n \in Nat
        BY <1>1, <1>10
      <3>4. c + l + e = n0 /\ Cardinality(decoding) = c + (n - n0)
        BY <1>20, <3>1
      <3> HIDE DEF c, l, e
      <3>5. c + (n - n0) + l + e = n
        BY <3>2, <3>3, <3>4
      <3> QED
        BY <3>4, <3>5 DEF c, l, e
    <2> QED
      BY <1>13, <1>18, <2>1, <2>2 DEF Counted
  <1>22. GoodReading(b)
    BY <1>16, <1>18, <1>19, <1>21 DEF GoodReading
  <1> QED
    BY <1>18, <1>22 DEF b, more, given, read, bytes

\* The body has ended: what is left to hear counts.
LEMMA OverGood ==
    ASSUME NEW a, GoodReading(a), a.phase = "frames"
    PROVE  LET b == [a EXCEPT !.phase = "over", !.streamDone = TRUE]
           IN  GoodReading(b) /\ b.open = a.open /\ b.bad = a.bad /\ b.cancelled = a.cancelled
               /\ b.phase = "over" /\ (b.open => Counted(b))
               /\ b.scheduled = Len(b.given)
  <1> DEFINE b == [a EXCEPT !.phase = "over", !.streamDone = TRUE]
  <1>1. a \in Reading /\ FrameInv(a)
    BY DEF GoodReading
  <1>2. /\ b \in Reading /\ b.phase = "over" /\ b.bad = a.bad /\ b.decoding = a.decoding
        /\ b.given = a.given /\ b.sources = a.sources /\ b.buffer = a.buffer
        /\ b.arrived = a.arrived /\ b.sourcesDone = a.sourcesDone /\ b.body = a.body
        /\ b.nextStartAt = a.nextStartAt /\ b.scheduled = a.scheduled
        /\ b.streamDone = TRUE /\ b.cancelled = a.cancelled /\ b.open = a.open
    BY <1>1 DEF Reading, Phases
  <1> HIDE DEF b
  <1>3. FrameInv(b)
    BY <1>1, <1>2, SameFrames
  <1>4. b.open => Counted(b)
    BY <1>2 DEF GoodReading, Counted
  <1>5. GoodReading(b)
    BY <1>2, <1>3, <1>4 DEF GoodReading
  <1> QED
    BY <1>2, <1>4, <1>5 DEF b, GoodReading

LEMMA ArrivedGood ==
    ASSUME NEW a, GoodReading(a), a.phase = "whole"
    PROVE  LET b == [a EXCEPT !.phase = "decoding", !.scheduled = 1,
                              !.given = <<[i \in DOMAIN a.body.pieces |-> i]>>,
                              !.decoding = {1}]
           IN  GoodReading(b) /\ b.open = a.open /\ b.bad = a.bad /\ b.cancelled = a.cancelled
               /\ b.phase = "decoding"
  <1> DEFINE file == [i \in DOMAIN a.body.pieces |-> i]
             b == [a EXCEPT !.phase = "decoding", !.scheduled = 1,
                            !.given = <<file>>, !.decoding = {1}]
  <1>1. a \in Reading /\ FrameInv(a) /\ Untouched(a) /\ ~ a.streamDone
    BY DEF GoodReading
  <1>2. file \in Seq(Nat)
    <2>1. a.body.pieces \in Seq(Nat)
      BY <1>1 DEF Reading
    <2>2. Len(a.body.pieces) \in Nat /\ DOMAIN a.body.pieces = 1 .. Len(a.body.pieces)
      BY <2>1
    <2> QED
      BY <2>2
  <1> HIDE DEF file
  <1>3. <<file>> \in Seq(Seq(Nat)) /\ Len(<<file>>) = 1
    BY <1>2
  <1>4. /\ b \in Reading /\ b.phase = "decoding" /\ b.bad = a.bad /\ b.decoding = {1}
        /\ b.given = <<file>> /\ b.sources = a.sources /\ b.buffer = a.buffer
        /\ b.arrived = a.arrived /\ b.sourcesDone = a.sourcesDone /\ b.body = a.body
        /\ b.nextStartAt = a.nextStartAt /\ b.scheduled = 1
        /\ b.streamDone = a.streamDone /\ b.cancelled = a.cancelled /\ b.open = a.open
    <2> DEFINE sent == <<file>>
    <2>1. sent \in Seq(Seq(Nat))
      BY <1>3
    <2> HIDE DEF sent
    <2>2. b = [a EXCEPT !.phase = "decoding", !.scheduled = 1, !.given = sent, !.decoding = {1}]
      BY DEF sent
    <2> HIDE DEF b
    <2>3. {1} \in SUBSET Nat /\ 1 \in Nat
      OBVIOUS
    <2>4. /\ b \in Reading /\ b.phase = "decoding" /\ b.bad = a.bad /\ b.decoding = {1}
          /\ b.given = sent /\ b.sources = a.sources /\ b.buffer = a.buffer
          /\ b.arrived = a.arrived /\ b.sourcesDone = a.sourcesDone /\ b.body = a.body
          /\ b.nextStartAt = a.nextStartAt /\ b.scheduled = 1
          /\ b.streamDone = a.streamDone /\ b.cancelled = a.cancelled /\ b.open = a.open
      BY <1>1, <2>1, <2>2, <2>3 DEF Reading, Phases
    <2> QED
      BY <2>4 DEF sent
  <1> HIDE DEF b
  <1>5. FrameInv(b)
    BY <1>1, <1>4 DEF FrameInv, Untouched
  <1>6. Counted(b)
    <2>1. Ended(<<>>) = {}
      BY DEF Ended
    <2>2. b.sources = <<>> /\ b.bad = 0 /\ b.sourcesDone = 0
      BY <1>1, <1>4 DEF Untouched
    <2>3. Cardinality(b.decoding) = 1 /\ Cardinality(Ended(b.sources)) = 0
      <3>1. Cardinality({1}) = 1 /\ Cardinality({}) = 0
        BY FS_EmptySet, FS_Singleton
      <3> QED
        BY <1>4, <2>1, <2>2, <3>1
    <2> QED
      BY <1>3, <1>4, <2>2, <2>3 DEF Counted
  <1>7. b.decoding \subseteq 1 .. Len(b.given)
    BY <1>3, <1>4
  <1>8. EndToEnd(b.sources, b.nextStartAt) /\ a.cancelled = ~ a.open
    BY <1>4 DEF GoodReading
  <1>9. GoodReading(b)
    BY <1>1, <1>3, <1>4, <1>5, <1>6, <1>7, <1>8 DEF GoodReading, Untouched
  <1> QED
    BY <1>4, <1>9 DEF b, file

LEMMA LaidEndToEnd ==
    ASSUME NEW sources \in Seq(Source), NEW next \in Nat, EndToEnd(sources, next),
           NEW s \in Source, ~ s.ended, sources = <<>> \/ next <= s.wait
    PROVE  LET t == Append(sources, s) IN
             /\ t \in Seq(Source) /\ Len(t) = Len(sources) + 1
             /\ EndToEnd(t, EndOf(s)) /\ Ended(t) = Ended(sources)
             /\ ~ \A i \in DOMAIN t : t[i].ended
  <1> DEFINE t == Append(sources, s)
             l == Len(sources)
  <1>1. /\ t \in Seq(Source) /\ Len(t) = l + 1 /\ l \in Nat
        /\ \A i \in 1 .. l : t[i] = sources[i] /\ sources[i] \in Source
        /\ t[l + 1] = s /\ DOMAIN sources = 1 .. l /\ DOMAIN t = 1 .. (l + 1)
    BY AppendProperties
  <1>2. \A x \in Source : x.wait \in Nat /\ x.left \in Nat /\ EndOf(x) \in Nat
                          /\ EndOf(x) = x.wait + x.left /\ x.wait <= EndOf(x)
    BY DEF Source, EndOf
  <1>3. l > 0 => next <= s.wait
    BY <1>1
  <1> HIDE DEF t, l
  <1>4. \A i \in 1 .. l : EndOf(t[i]) <= s.wait /\ (t[i].ended => t[i].left = 0)
    <2> TAKE i \in 1 .. l
    <2>1. EndOf(sources[i]) <= next /\ (sources[i].ended => sources[i].left = 0)
      BY <1>1 DEF EndToEnd
    <2>2. EndOf(sources[i]) \in Nat /\ next <= s.wait /\ s.wait \in Nat
      BY <1>1, <1>2, <1>3
    <2> QED
      BY <1>1, <2>1, <2>2
  <1>5. \A i, j \in 1 .. (l + 1) : i < j => EndOf(t[i]) <= t[j].wait
    <2> TAKE i, j \in 1 .. (l + 1)
    <2> SUFFICES ASSUME i < j PROVE EndOf(t[i]) <= t[j].wait
      OBVIOUS
    <2>1. i \in 1 .. l
      BY <1>1
    <2>2. CASE j = l + 1
      BY <1>1, <1>4, <2>1, <2>2
    <2>3. CASE j # l + 1
      <3>1. j \in 1 .. l
        BY <1>1, <2>3
      <3> QED
        BY <1>1, <2>1, <3>1 DEF EndToEnd
    <2> QED
      BY <2>2, <2>3
  <1>6. \A i \in 1 .. (l + 1) : EndOf(t[i]) <= EndOf(s) /\ (t[i].ended => t[i].left = 0)
    <2> TAKE i \in 1 .. (l + 1)
    <2>1. CASE i = l + 1
      BY <1>1, <1>2, <2>1
    <2>2. CASE i # l + 1
      <3>1. i \in 1 .. l
        BY <1>1, <2>2
      <3>2. EndOf(t[i]) <= s.wait /\ (t[i].ended => t[i].left = 0) /\ EndOf(t[i]) \in Nat
        BY <1>1, <1>2, <1>4, <3>1
      <3> QED
        BY <1>2, <3>2
    <2> QED
      BY <2>1, <2>2
  <1>7. EndToEnd(t, EndOf(s))
    BY <1>1, <1>5, <1>6 DEF EndToEnd
  <1>8. Ended(t) = Ended(sources)
    <2>1. \A i : i \in 1 .. (l + 1) /\ t[i].ended <=> i \in 1 .. l /\ sources[i].ended
      <3>1. \A i : i \in 1 .. (l + 1) <=> i \in 1 .. l \/ i = l + 1
        BY <1>1
      <3>2. l + 1 \notin 1 .. l
        BY <1>1
      <3> QED
        BY <1>1, <3>1, <3>2
    <2> QED
      BY <1>1, <2>1 DEF Ended
  <1>9. ~ \A i \in DOMAIN t : t[i].ended
    <2>1. l + 1 \in 1 .. (l + 1)
      BY <1>1
    <2> QED
      BY <1>1, <2>1
  <1> QED
    BY <1>1, <1>7, <1>8, <1>9 DEF t, l

LEMMA LessOne ==
    ASSUME NEW a, GoodReading(a), NEW piece \in a.decoding
    PROVE  /\ Cardinality(a.decoding \ {piece}) + 1 = Cardinality(a.decoding)
           /\ Cardinality(a.decoding \ {piece}) \in Nat
           /\ piece \in 1 .. Len(a.given) /\ ~ Quiet(a)
           /\ a.given[piece] \in Seq(Nat) /\ Len(a.given[piece]) \in Nat
           /\ a.phase \notin {"asking", "whole"}
  <1>1. /\ IsFiniteSet(a.decoding) /\ Cardinality(a.decoding) \in Nat
        /\ a.given \in Seq(Seq(Nat)) /\ a.decoding \subseteq 1 .. Len(a.given)
    BY Fields
  <1>2. /\ IsFiniteSet(a.decoding \ {piece})
        /\ Cardinality(a.decoding \ {piece}) = Cardinality(a.decoding) - 1
    BY <1>1, FS_RemoveElement
  <1>3. Cardinality(a.decoding \ {piece}) \in Nat
    BY <1>2, FS_CardinalityType
  <1>4. piece \in 1 .. Len(a.given) /\ a.given[piece] \in Seq(Nat)
    BY <1>1
  <1>5. Len(a.given[piece]) \in Nat
    BY <1>4
  <1>6. ~ Quiet(a) /\ a.phase \notin {"asking", "whole"}
    BY DEF Quiet, GoodReading, Untouched
  <1> QED
    BY <1>1, <1>2, <1>3, <1>4, <1>5, <1>6

LEMMA StartedGood ==
    ASSUME NEW a, GoodReading(a), NEW piece \in a.decoding, a.phase # "decoding",
           NEW startAt \in Nat, a.sources = <<>> \/ a.nextStartAt <= startAt
    PROVE  LET b == Started(a, piece, startAt)
           IN  GoodReading(b) /\ b.open = a.open /\ b.bad = a.bad /\ b.cancelled = a.cancelled
               /\ b.phase = a.phase
  <1> DEFINE b == Started(a, piece, startAt)
             length == Len(a.given[piece])
             s == [piece |-> piece, wait |-> startAt, left |-> length, ended |-> FALSE]
             decoding == a.decoding \ {piece}
             t == Append(a.sources, s)
  <1>1. /\ a \in Reading /\ FrameInv(a) /\ a.sources \in Seq(Source) /\ a.nextStartAt \in Nat
        /\ EndToEnd(a.sources, a.nextStartAt) /\ a.bad \in Nat /\ Len(a.sources) \in Nat
        /\ Len(a.given) \in Nat /\ a.cancelled = ~ a.open /\ a.scheduled = Len(a.given)
        /\ a.decoding \subseteq 1 .. Len(a.given)
    BY Fields DEF GoodReading
  <1>2. /\ Cardinality(decoding) + 1 = Cardinality(a.decoding) /\ Cardinality(decoding) \in Nat
        /\ piece \in 1 .. Len(a.given) /\ length \in Nat /\ ~ Quiet(a)
        /\ a.phase \notin {"asking", "whole"}
    BY LessOne
  <1> HIDE DEF length
  <1>3. s \in Source /\ ~ s.ended /\ EndOf(s) = startAt + length /\ s.wait = startAt
    BY <1>1, <1>2 DEF Source, EndOf
  <1>4. startAt + length \in Nat
    BY <1>2
  <1> HIDE DEF s
  <1>5. /\ t \in Seq(Source) /\ Len(t) = Len(a.sources) + 1
        /\ EndToEnd(t, EndOf(s)) /\ Ended(t) = Ended(a.sources)
    BY <1>1, <1>3, LaidEndToEnd
  <1> HIDE DEF t
  <1>6. b = [a EXCEPT !.decoding = decoding, !.sources = t, !.nextStartAt = startAt + length]
    <2>1. a.decoding \ {piece} = decoding /\ Append(a.sources, s) = t
      BY DEF t
    <2> HIDE DEF decoding
    <2>2. b = [a EXCEPT !.decoding = a.decoding \ {piece}, !.sources = Append(a.sources, s),
                        !.nextStartAt = startAt + length]
      BY <1>1 DEF Started, length, s, Reading
    <2> QED
      BY <2>1, <2>2
  <1> HIDE DEF b
  <1>7. /\ b \in Reading /\ b.phase = a.phase /\ b.bad = a.bad /\ b.decoding = decoding
        /\ b.given = a.given /\ b.sources = t /\ b.buffer = a.buffer
        /\ b.arrived = a.arrived /\ b.sourcesDone = a.sourcesDone /\ b.body = a.body
        /\ b.nextStartAt = startAt + length /\ b.scheduled = a.scheduled
        /\ b.streamDone = a.streamDone /\ b.cancelled = a.cancelled /\ b.open = a.open
    <2>1. decoding \in SUBSET Nat
      BY <1>1
    <2> HIDE DEF decoding
    <2> QED
      BY <1>1, <1>4, <1>5, <1>6, <2>1 DEF Reading
  <1>8. FrameInv(b)
    BY <1>1, <1>7, SameFrames
  <1>9. a.open /\ a.phase # "failed" => Counted(b)
    <2> SUFFICES ASSUME a.open, a.phase # "failed" PROVE Counted(b)
      OBVIOUS
    <2>1. Counted(a)
      BY DEF GoodReading
    <2>2. Cardinality(decoding) + (Len(a.sources) + 1) + a.bad
            = Cardinality(a.decoding) + Len(a.sources) + a.bad
      <3> DEFINE c == Cardinality(decoding)
                 l == Len(a.sources)
                 e == a.bad
      <3>1. c \in Nat /\ l \in Nat /\ e \in Nat /\ Cardinality(a.decoding) = c + 1
        BY <1>1, <1>2
      <3> HIDE DEF c, l, e
      <3>2. c + (l + 1) + e = Cardinality(a.decoding) + l + e
        BY <3>1
      <3> QED
        BY <3>2 DEF c, l, e
    <2> QED
      BY <1>5, <1>7, <2>1, <2>2 DEF Counted
  <1>10. ~ (a.open /\ a.phase = "failed" /\ a.bad = 0)
    BY <1>2 DEF GoodReading
  <1>11. decoding \subseteq 1 .. Len(a.given)
    BY <1>1
  <1>12. a.streamDone => a.phase = "over"
    BY DEF GoodReading
  <1>13. GoodReading(b)
    BY <1>1, <1>2, <1>3, <1>5, <1>7, <1>8, <1>9, <1>10, <1>11, <1>12 DEF GoodReading
  <1> QED
    BY <1>7, <1>13 DEF b

DroppedAs(a, phase, decoding) == [a EXCEPT !.phase = phase, !.decoding = decoding]

\* A stopped reading only loses the piece.
LEMMA DroppedGood ==
    ASSUME NEW a, GoodReading(a), a.cancelled, NEW decoding \in SUBSET a.decoding,
           NEW phase,
           \/ phase = a.phase /\ phase # "decoding"
           \/ a.phase = "decoding" /\ phase = "over"
    PROVE  LET b == DroppedAs(a, phase, decoding)
           IN  GoodReading(b) /\ b.open = a.open /\ b.bad = a.bad /\ b.cancelled = a.cancelled
               /\ b.phase = phase
  <1> DEFINE b == DroppedAs(a, phase, decoding)
  <1>1. a \in Reading /\ FrameInv(a) /\ phase \in Phases /\ decoding \in SUBSET Nat
    BY Fields DEF GoodReading, Reading, Phases
  <1>2. /\ b \in Reading /\ b.phase = phase /\ b.bad = a.bad /\ b.decoding = decoding
        /\ b.given = a.given /\ b.sources = a.sources /\ b.buffer = a.buffer
        /\ b.arrived = a.arrived /\ b.sourcesDone = a.sourcesDone /\ b.body = a.body
        /\ b.nextStartAt = a.nextStartAt /\ b.scheduled = a.scheduled
        /\ b.streamDone = a.streamDone /\ b.cancelled = a.cancelled /\ b.open = a.open
    BY <1>1 DEF Reading, DroppedAs
  <1> HIDE DEF b
  <1>3. FrameInv(b)
    BY <1>1, <1>2, SameFrames
  <1>4. GoodReading(b)
    BY <1>2, <1>3 DEF GoodReading, Untouched
  <1> QED
    BY <1>2, <1>4 DEF b

\* The callback for a piece that does not decode.
LEMMA UndecodedGood ==
    ASSUME NEW a, GoodReading(a), NEW piece \in a.decoding, a.phase # "decoding"
    PROVE  LET b == [Undecoded(a, piece) EXCEPT !.sourcesDone = @ + 1]
           IN  GoodReading(b) /\ b.open = a.open /\ b.bad = a.bad + 1 /\ b.bad > 0
               /\ b.cancelled = a.cancelled /\ b.phase = a.phase /\ b.streamDone = a.streamDone
  <1> DEFINE b == [Undecoded(a, piece) EXCEPT !.sourcesDone = @ + 1]
             decoding == a.decoding \ {piece}
  <1>1. /\ a \in Reading /\ FrameInv(a) /\ a.bad \in Nat /\ Len(a.sources) \in Nat
        /\ Len(a.given) \in Nat /\ a.sourcesDone \in Nat /\ a.decoding \subseteq 1 .. Len(a.given)
        /\ Cardinality(Ended(a.sources)) \in Nat
    BY Fields DEF GoodReading
  <1>2. /\ Cardinality(decoding) + 1 = Cardinality(a.decoding) /\ Cardinality(decoding) \in Nat
        /\ a.phase \notin {"asking", "whole"}
    BY LessOne
  <1>3. decoding \in SUBSET Nat /\ decoding \subseteq 1 .. Len(a.given)
    BY <1>1
  <1>4. /\ b \in Reading /\ b.phase = a.phase /\ b.bad = a.bad + 1 /\ b.decoding = decoding
        /\ b.given = a.given /\ b.sources = a.sources /\ b.buffer = a.buffer
        /\ b.arrived = a.arrived /\ b.sourcesDone = a.sourcesDone + 1 /\ b.body = a.body
        /\ b.nextStartAt = a.nextStartAt /\ b.scheduled = a.scheduled
        /\ b.streamDone = a.streamDone /\ b.cancelled = a.cancelled /\ b.open = a.open
    <2>1. b = [a EXCEPT !.decoding = a.decoding \ {piece}, !.bad = a.bad + 1,
                        !.sourcesDone = a.sourcesDone + 1]
      BY <1>1 DEF Reading, Undecoded
    <2>2. a.bad + 1 \in Nat /\ a.sourcesDone + 1 \in Nat
      BY <1>1
    <2> HIDE DEF b, decoding
    <2>3. b = [a EXCEPT !.decoding = decoding, !.bad = a.bad + 1,
                        !.sourcesDone = a.sourcesDone + 1]
      BY <2>1 DEF decoding
    <2> QED
      BY <1>1, <1>3, <2>2, <2>3 DEF Reading
  <1> HIDE DEF b, decoding
  <1>5. FrameInv(b)
    BY <1>1, <1>4, SameFrames
  <1>6. a.open /\ a.phase # "failed" => Counted(b)
    <2> SUFFICES ASSUME a.open, a.phase # "failed" PROVE Counted(b)
      OBVIOUS
    <2>1. Counted(a)
      BY DEF GoodReading
    <2>2. Cardinality(decoding) + Len(a.sources) + (a.bad + 1)
            = Cardinality(a.decoding) + Len(a.sources) + a.bad
      <3>1. \A c, d, l, e \in Nat : c + 1 = d => c + l + (e + 1) = d + l + e
        OBVIOUS
      <3> DEFINE c == Cardinality(decoding)
                 d == Cardinality(a.decoding)
                 l == Len(a.sources)
                 e == a.bad
      <3>2. c \in Nat /\ l \in Nat /\ e \in Nat /\ c + 1 = d
        BY <1>1, <1>2
      <3>3. d \in Nat
        BY Fields
      <3> HIDE DEF c, d, l, e
      <3>4. c + l + (e + 1) = d + l + e
        BY <3>1, <3>2, <3>3
      <3> QED
        BY <3>4 DEF c, d, l, e
    <2>3. Cardinality(Ended(a.sources)) + a.bad + 1 = Cardinality(Ended(a.sources)) + (a.bad + 1)
      BY <1>1
    <2> QED
      BY <1>4, <2>1, <2>2, <2>3 DEF Counted
  <1>7. a.bad + 1 > 0
    BY <1>1
  <1>8. GoodReading(b)
    BY <1>2, <1>3, <1>4, <1>5, <1>6, <1>7 DEF GoodReading
  <1> QED
    BY <1>4, <1>7, <1>8 DEF b

\* Decoded whole, a file is its only piece.
LEMMA WholeGood ==
    ASSUME NEW a, GoodReading(a), a.phase = "decoding", ~ a.cancelled
    PROVE  LET b == [Started([a EXCEPT !.phase = "over"], 1, 0) EXCEPT !.streamDone = TRUE]
           IN  GoodReading(b) /\ b.open = a.open /\ b.bad = a.bad /\ b.cancelled = a.cancelled
               /\ b.phase = "over"
  <1> DEFINE c == [a EXCEPT !.phase = "over"]
             d == Started(c, 1, 0)
             b == [d EXCEPT !.streamDone = TRUE]
  <1>1. a \in Reading /\ FrameInv(a) /\ a.decoding = {1} /\ a.sources = <<>>
    BY DEF GoodReading
  <1>2. /\ c \in Reading /\ c.phase = "over" /\ c.bad = a.bad /\ c.decoding = a.decoding
        /\ c.given = a.given /\ c.sources = a.sources /\ c.buffer = a.buffer
        /\ c.arrived = a.arrived /\ c.sourcesDone = a.sourcesDone /\ c.body = a.body
        /\ c.nextStartAt = a.nextStartAt /\ c.scheduled = a.scheduled
        /\ c.streamDone = a.streamDone /\ c.cancelled = a.cancelled /\ c.open = a.open
    BY <1>1 DEF Reading, Phases
  <1> HIDE DEF c
  <1>3. FrameInv(c)
    BY <1>1, <1>2, SameFrames
  <1>4. GoodReading(c)
    BY <1>2, <1>3 DEF GoodReading, Counted
  <1>5. GoodReading(d) /\ d.open = c.open /\ d.bad = c.bad /\ d.cancelled = c.cancelled /\ d.phase = "over"
    <2>1. 1 \in c.decoding /\ c.phase # "decoding" /\ c.sources = <<>> /\ 0 \in Nat
      BY <1>1, <1>2
    <2> HIDE DEF d
    <2> QED
      BY <1>2, <1>4, <2>1, StartedGood DEF d
  <1> HIDE DEF d
  <1>6. /\ b \in Reading /\ b.phase = d.phase /\ b.bad = d.bad /\ b.decoding = d.decoding
        /\ b.given = d.given /\ b.sources = d.sources /\ b.buffer = d.buffer
        /\ b.arrived = d.arrived /\ b.sourcesDone = d.sourcesDone /\ b.body = d.body
        /\ b.nextStartAt = d.nextStartAt /\ b.scheduled = d.scheduled
        /\ b.streamDone = TRUE /\ b.cancelled = d.cancelled /\ b.open = d.open
    BY <1>5 DEF Reading, GoodReading
  <1> HIDE DEF b
  <1>7. FrameInv(b)
    BY <1>5, <1>6, SameFrames DEF GoodReading
  <1>8. GoodReading(b)
    BY <1>5, <1>6, <1>7 DEF GoodReading, Counted
  <1> QED
    BY <1>2, <1>5, <1>6, <1>8 DEF b, c, d

\* onended of source i.
LEMMA SourceEndedGood ==
    ASSUME NEW a, GoodReading(a), a.open, NEW i \in DOMAIN a.sources, Over(a.sources[i])
    PROVE  LET b == [a EXCEPT !.sources[i].ended = TRUE, !.sourcesDone = @ + 1]
           IN  GoodReading(b) /\ b.open = a.open /\ b.bad = a.bad /\ b.cancelled = a.cancelled
               /\ b.phase = a.phase /\ b.streamDone = a.streamDone /\ ~ Quiet(a)
  <1> DEFINE b == [a EXCEPT !.sources[i].ended = TRUE, !.sourcesDone = @ + 1]
             src == a.sources
             t == [src EXCEPT ![i].ended = TRUE]
  <1>1. /\ a \in Reading /\ FrameInv(a) /\ src \in Seq(Source) /\ a.sourcesDone \in Nat
        /\ Len(src) \in Nat /\ DOMAIN src = 1 .. Len(src) /\ a.bad \in Nat
        /\ EndToEnd(src, a.nextStartAt)
        /\ Cardinality(Ended(src)) \in Nat
    BY Fields DEF GoodReading
  <1>2. src[i] \in Source /\ src[i].left = 0 /\ ~ src[i].ended
    BY <1>1 DEF Over
  <1> HIDE DEF src
  <1>3. /\ t \in Seq(Source) /\ Len(t) = Len(src) /\ DOMAIN t = DOMAIN src
        /\ \A j \in DOMAIN src : /\ t[j].wait = src[j].wait /\ t[j].left = src[j].left
                                 /\ t[j].ended = IF j = i THEN TRUE ELSE src[j].ended
    <2>0. i \in 1 .. Len(src)
      BY <1>1 DEF src
    <2>1. [src[i] EXCEPT !.ended = TRUE] \in Source
      BY <1>2 DEF Source
    <2> DEFINE e == [src[i] EXCEPT !.ended = TRUE]
    <2>2. e.wait = src[i].wait /\ e.left = src[i].left /\ e.ended = TRUE
      BY <1>2 DEF Source
    <2>3. t = [src EXCEPT ![i] = e]
      BY <1>1, <2>0
    <2> HIDE DEF e, t
    <2>4. t \in Seq(Source) /\ Len(t) = Len(src) /\ DOMAIN t = DOMAIN src
      BY <1>1, <2>0, <2>1, <2>3 DEF e
    <2>5. \A j \in DOMAIN src : t[j] = IF j = i THEN e ELSE src[j]
      BY <1>1, <2>3
    <2> QED
      BY <2>2, <2>4, <2>5
  <1>4. b = [a EXCEPT !.sources = t, !.sourcesDone = a.sourcesDone + 1]
    BY <1>1 DEF Reading, src
  <1> HIDE DEF b, t
  <1>5. /\ b \in Reading /\ b.phase = a.phase /\ b.bad = a.bad /\ b.decoding = a.decoding
        /\ b.given = a.given /\ b.sources = t /\ b.buffer = a.buffer
        /\ b.arrived = a.arrived /\ b.sourcesDone = a.sourcesDone + 1 /\ b.body = a.body
        /\ b.nextStartAt = a.nextStartAt /\ b.scheduled = a.scheduled
        /\ b.streamDone = a.streamDone /\ b.cancelled = a.cancelled /\ b.open = a.open
    <2>1. a.sourcesDone + 1 \in Nat
      BY <1>1
    <2> QED
      BY <1>1, <1>3, <1>4, <2>1 DEF Reading
  <1>6. FrameInv(b)
    BY <1>1, <1>5, SameFrames
  <1>7. EndToEnd(t, a.nextStartAt)
    BY <1>1, <1>2, <1>3 DEF EndToEnd, EndOf
  <1>8. Cardinality(Ended(t)) = Cardinality(Ended(src)) + 1
    <2>1. i \in DOMAIN src
      BY DEF src
    <2>2. Ended(t) = Ended(src) \cup {i} /\ i \notin Ended(src)
      BY <1>2, <1>3, <2>1 DEF Ended
    <2>3. IsFiniteSet(Ended(src))
      <3>1. IsFiniteSet(1 .. Len(src)) /\ Ended(src) \in SUBSET (1 .. Len(src))
        <4>1. IsFiniteSet(1 .. Len(src))
          BY <1>1, FS_Interval
        <4>2. Ended(src) \in SUBSET (1 .. Len(src))
          BY <1>1 DEF Ended
        <4> QED
          BY <4>1, <4>2
      <3> QED
        BY <3>1, FS_Subset
    <2> QED
      BY <2>2, <2>3, FS_AddElement
  <1>9. ~ Quiet(a) /\ src # <<>>
    <2>1. i \in DOMAIN src
      BY DEF src
    <2>2. src # <<>>
      BY <1>1, <2>1
    <2> QED
      BY <1>2, <2>1, <2>2 DEF Quiet, src
  <1>10. a.phase # "failed" => Counted(b)
    <2> SUFFICES ASSUME a.phase # "failed" PROVE Counted(b)
      OBVIOUS
    <2>1. Counted(a)
      BY DEF GoodReading
    <2>2. a.sourcesDone = Cardinality(Ended(src)) + a.bad
      BY <2>1 DEF Counted, src
    <2>3. a.sourcesDone + 1 = Cardinality(Ended(t)) + a.bad
      <3>1. \A c, n \in Nat : c + n + 1 = (c + 1) + n
        OBVIOUS
      <3> QED
        BY <1>1, <1>8, <2>2, <3>1
    <2> QED
      BY <1>3, <1>5, <2>1, <2>3 DEF Counted, src
  <1>11. a.phase \notin {"asking", "whole", "decoding"}
    BY <1>9 DEF GoodReading, Untouched, src
  <1>12. ~ (a.phase = "failed" /\ a.bad = 0)
    BY <1>9 DEF GoodReading
  <1>13. GoodReading(b)
    <2> HIDE DEF src
    <2> QED
      BY <1>5, <1>6, <1>7, <1>10, <1>11, <1>12 DEF GoodReading
  <1> QED
    BY <1>5, <1>9, <1>13 DEF b

\* A moment of an open context: every piece is as much nearer to its end.
MovedOn(a) ==
    [a EXCEPT !.sources = [i \in DOMAIN @ |-> Moved(@[i])], !.nextStartAt = Later(@ - 1, 0)]

LEMMA MovedSource ==
    ASSUME NEW s \in Source
    PROVE  /\ Moved(s) \in Source /\ Moved(s).ended = s.ended
           /\ Moved(s).wait = Later(s.wait - 1, 0)
           /\ EndOf(Moved(s)) = Later(EndOf(s) - 1, 0)
           /\ s.left = 0 => Moved(s).left = 0
  <1>1. s.wait \in Nat /\ s.left \in Nat
    BY DEF Source
  <1>2. CASE Waits(s)
    <2> DEFINE m == [s EXCEPT !.wait = s.wait - 1]
    <2>1. Moved(s) = m /\ s.wait > 0
      BY <1>2 DEF Moved, Waits
    <2>2. m \in Source /\ m.ended = s.ended /\ m.wait = s.wait - 1 /\ m.left = s.left
      BY <1>1, <2>1 DEF Source
    <2> HIDE DEF m
    <2> QED
      BY <1>1, <2>1, <2>2 DEF Later, EndOf
  <1>3. CASE ~ Waits(s) /\ Sounds(s)
    <2> DEFINE m == [s EXCEPT !.left = s.left - 1]
    <2>1. Moved(s) = m /\ s.wait = 0 /\ s.left > 0
      BY <1>3 DEF Moved, Sounds
    <2>2. m \in Source /\ m.ended = s.ended /\ m.wait = s.wait /\ m.left = s.left - 1
      BY <1>1, <2>1 DEF Source
    <2> HIDE DEF m
    <2> QED
      BY <1>1, <2>1, <2>2 DEF Later, EndOf
  <1>4. CASE ~ Waits(s) /\ ~ Sounds(s)
    <2>1. Moved(s) = s /\ s.wait = 0 /\ s.left = 0
      BY <1>1, <1>4 DEF Moved, Waits, Sounds
    <2> QED
      BY <1>1, <2>1 DEF Later, EndOf
  <1> QED
    BY <1>2, <1>3, <1>4

LEMMA MovedGood ==
    ASSUME NEW a, GoodReading(a)
    PROVE  LET b == MovedOn(a)
           IN  GoodReading(b) /\ b.open = a.open /\ b.bad = a.bad /\ b.cancelled = a.cancelled
               /\ b.phase = a.phase /\ (Quiet(a) => Quiet(b))
  <1> DEFINE b == MovedOn(a)
             src == a.sources
             t == [i \in DOMAIN src |-> Moved(src[i])]
             next == Later(a.nextStartAt - 1, 0)
  <1>1. /\ a \in Reading /\ FrameInv(a) /\ src \in Seq(Source) /\ a.nextStartAt \in Nat
        /\ Len(src) \in Nat /\ DOMAIN src = 1 .. Len(src)
        /\ EndToEnd(src, a.nextStartAt)
    BY Fields DEF GoodReading
  <1>2. \A i \in DOMAIN src :
          /\ t[i] \in Source /\ t[i].ended = src[i].ended
          /\ t[i].wait = Later(src[i].wait - 1, 0)
          /\ EndOf(t[i]) = Later(EndOf(src[i]) - 1, 0)
          /\ src[i].left = 0 => t[i].left = 0
          /\ src[i].wait \in Nat /\ EndOf(src[i]) \in Nat
    <2> TAKE i \in DOMAIN src
    <2>1. src[i] \in Source
      BY <1>1
    <2>2. src[i].wait \in Nat /\ EndOf(src[i]) \in Nat
      BY <2>1 DEF Source, EndOf
    <2>3. t[i] = Moved(src[i])
      OBVIOUS
    <2> HIDE DEF t
    <2> QED
      BY <2>1, <2>2, <2>3, MovedSource
  <1>3. next \in Nat
    BY <1>1 DEF Later
  <1>4. b = [a EXCEPT !.sources = t, !.nextStartAt = next]
    BY <1>1 DEF MovedOn, Reading
  <1>5. /\ t \in Seq(Source) /\ Len(t) = Len(src) /\ DOMAIN t = DOMAIN src
    <2>1. \A i \in 1 .. Len(src) : t[i] \in Source
      BY <1>1, <1>2
    <2>2. t = [i \in 1 .. Len(src) |-> t[i]]
      BY <1>1
    <2> HIDE DEF t
    <2>3. t \in [1 .. Len(src) -> Source]
      BY <2>1, <2>2
    <2> HIDE DEF src
    <2> QED
      BY <1>1, <2>3
  <1> HIDE DEF b, t, next, src
  <1>6. /\ b \in Reading /\ b.phase = a.phase /\ b.bad = a.bad /\ b.decoding = a.decoding
        /\ b.given = a.given /\ b.sources = t /\ b.buffer = a.buffer
        /\ b.arrived = a.arrived /\ b.sourcesDone = a.sourcesDone /\ b.body = a.body
        /\ b.nextStartAt = next /\ b.scheduled = a.scheduled
        /\ b.streamDone = a.streamDone /\ b.cancelled = a.cancelled /\ b.open = a.open
    BY <1>1, <1>3, <1>4, <1>5 DEF Reading
  <1>7. FrameInv(b)
    BY <1>1, <1>6, SameFrames
  <1>8. Ended(t) = Ended(src)
    BY <1>2, <1>5 DEF Ended
  <1>9. EndToEnd(t, next)
    <2>1. \A x, y \in Nat : x <= y => Later(x - 1, 0) <= Later(y - 1, 0)
      BY DEF Later
    <2>2. \A i, j \in DOMAIN t : i < j => EndOf(t[i]) <= t[j].wait
      BY <1>1, <1>2, <1>5, <2>1 DEF EndToEnd
    <2>3. \A i \in DOMAIN t : EndOf(t[i]) <= next /\ (t[i].ended => t[i].left = 0)
      BY <1>1, <1>2, <1>5, <2>1 DEF EndToEnd, next
    <2> QED
      BY <2>2, <2>3 DEF EndToEnd
  <1>10. Quiet(a) => Quiet(b)
    BY <1>2, <1>5, <1>6 DEF Quiet, src
  <1>11. Counted(a) => Counted(b)
    BY <1>5, <1>6, <1>8 DEF Counted, src
  <1>12. Untouched(a) => Untouched(b)
    <2> SUFFICES ASSUME Untouched(a) PROVE Untouched(b)
      OBVIOUS
    <2>1. src = <<>> /\ a.nextStartAt = 0
      BY DEF Untouched, src
    <2>2. Len(t) = 0 /\ next = 0
      BY <1>5, <2>1 DEF Later, next
    <2>3. t = <<>>
      BY <1>5, <2>2
    <2> QED
      BY <1>6, <2>2, <2>3 DEF Untouched
  <1>13. src = <<>> => t = <<>>
    BY <1>5
  <1>14. GoodReading(b)
    BY <1>6, <1>7, <1>9, <1>10, <1>11, <1>12, <1>13 DEF GoodReading, src
  <1> QED
    BY <1>6, <1>10, <1>14 DEF b

-----------------------------------------------------------------------------
(* All the readings: each action keeps the invariant. *)

LEMMA OneOf ==
    ASSUME PlayInv, NEW r \in DOMAIN readings
    PROVE  GoodReading(readings[r]) /\ state \in States /\ readings[r].cancelled = ~ readings[r].open
  BY DEF PlayInv, GoodReading

LEMMA ThrownKeeps ==
    ASSUME PlayInv, NEW r \in DOMAIN readings, Aborted(r) \/ Refused(r)
    PROVE  PlayInv'
  <1> DEFINE a == readings[r]
             b == [a EXCEPT !.phase = "failed"]
  <1>1. GoodReading(a) /\ state \in States /\ a.cancelled = ~ a.open /\ Unanswered(a)
    BY OneOf DEF Aborted, Refused, Unanswered
  <1>2. /\ Update(r, b) /\ current' = current
        /\ state' = IF a.cancelled THEN state ELSE "unavailable"
        /\ a.cancelled \/ a.phase = "asking"
    BY DEF Aborted, Refused, Thrown
  <1>3. a.bad \in Nat /\ a.decoding \in SUBSET a.decoding /\ a \in Reading
    BY <1>1, Fields DEF GoodReading
  <1>4. a.open => Untouched(a) /\ a.bad = 0
    BY <1>1, <1>2 DEF GoodReading, Untouched
  <1>5. GoodReading(b) /\ b.phase = "failed" /\ b.bad = a.bad /\ b.cancelled = a.cancelled /\ b.open = a.open
    <2> DEFINE c == FailedAs(a, a.bad, a.decoding)
    <2>1. b = c
      BY <1>3 DEF Reading, FailedAs
    <2> HIDE DEF a, b
    <2>2. GoodReading(c) /\ c.phase = "failed" /\ c.bad = a.bad /\ c.cancelled = a.cancelled /\ c.open = a.open
      BY <1>1, <1>3, <1>4, FailedGood
    <2> QED
      BY <2>1, <2>2
  <1> HIDE DEF b
  <1>6. Marred(a) => Marred(b)
    BY <1>5 DEF Marred
  <1>7. ~ Marred(b) /\ b.open => Quiet(b)
    BY <1>3, <1>5 DEF Marred, GoodReading
  <1>8. AloneIn(a, r) /\ state' # state => r = current
    BY <1>1, <1>2 DEF AloneIn, Quiet, Unanswered
  <1>9. state' \in States
    BY <1>1, <1>2 DEF States
  <1> QED
    BY <1>2, <1>5, <1>6, <1>7, <1>8, <1>9, OneReading

LEMMA AnsweredKeeps ==
    ASSUME PlayInv, NEW r \in DOMAIN readings, Answered(r)
    PROVE  PlayInv'
  <1> DEFINE a == readings[r]
  <1>1. GoodReading(a) /\ state \in States /\ a.phase = "asking"
    BY OneOf DEF Answered
  <1>2. PICK body \in Bodies : \E phase \in {"frames", "whole"} :
          Update(r, [a EXCEPT !.phase = phase, !.body = body])
    BY DEF Answered
  <1>3. PICK phase \in {"frames", "whole"} : Update(r, [a EXCEPT !.phase = phase, !.body = body])
    BY <1>2
  <1>4. state' = state /\ current' = current
    BY DEF Answered
  <1> DEFINE b == AnsweredAs(a, phase, body)
  <1>5. GoodReading(b) /\ b.open = a.open /\ b.bad = a.bad /\ b.cancelled = a.cancelled /\ b.phase = phase
    BY <1>1, AnsweredGood
  <1>6. Update(r, b)
    BY <1>3 DEF AnsweredAs
  <1> HIDE DEF b
  <1>7. Marred(a) => Marred(b)
    BY <1>1, <1>5 DEF Marred
  <1>8. ~ Quiet(a)
    BY <1>1 DEF Quiet
  <1> QED
    BY <1>1, <1>4, <1>5, <1>6, <1>7, <1>8, OneReading DEF AloneIn

LEMMA ReadKeeps ==
    ASSUME PlayInv, NEW r \in DOMAIN readings, Read(r)
    PROVE  PlayInv'
  <1> DEFINE a == readings[r]
             bytes == BytesOf(a.body)
             got(to) == FramesRead(a.buffer \o SubSeq(bytes, a.arrived + 1, to))
             given(to) == a.given \o got(to).frames
             after(to) == [a EXCEPT !.arrived = to, !.buffer = got(to).rest, !.given = given(to),
                                    !.scheduled = Len(given(to)),
                                    !.decoding = @ \cup ((Len(a.given) + 1) .. Len(given(to)))]
  <1>1. GoodReading(a) /\ state \in States /\ a.phase = "frames"
    BY OneOf DEF Read
  <1>2. PICK to \in (a.arrived + 1) .. Len(bytes) : Update(r, after(to))
    BY DEF Read
  <1>3. state' = state /\ current' = current
    BY DEF Read
  <1> DEFINE b == after(to)
  <1>4. GoodReading(b) /\ b.open = a.open /\ b.bad = a.bad /\ b.cancelled = a.cancelled /\ b.phase = a.phase
    BY <1>1, ReadGood
  <1>5. Update(r, b)
    BY <1>2
  <1> HIDE DEF b
  <1>6. Marred(a) => Marred(b)
    BY <1>4 DEF Marred
  <1>7. ~ Quiet(a)
    BY <1>1 DEF Quiet
  <1> HIDE DEF bytes, after
  <1> QED
    BY <1>1, <1>3, <1>4, <1>5, <1>6, <1>7, OneReading DEF AloneIn

\* What finishIfDone and the end of an empty body say is true of a reading alone.
LEMMA FinishedKeeps ==
    ASSUME PlayInv, NEW r \in DOMAIN readings, NEW b, Update(r, b), GoodReading(b),
           current' = current, state' \in {state, "idle", "unavailable"},
           Marred(readings[r]) => Marred(b), ~ Quiet(readings[r]),
           b.open = readings[r].open,
           ~ Marred(b) /\ state' # state => b.open /\ Counted(b) /\ b.phase = "over" /\ b.scheduled = b.sourcesDone
    PROVE  PlayInv'
  <1> DEFINE a == readings[r]
  <1>1. GoodReading(a) /\ state \in States
    BY OneOf
  <1>2. state' \in States
    BY <1>1 DEF States
  <1>3. ~ Marred(b) /\ state' # state => Quiet(b)
    BY AllDone DEF Quiet
  <1>4. ASSUME AloneIn(a, r), ~ Marred(b)
        PROVE  /\ b.open /\ (r # current \/ state' \in Still) => Quiet(b)
               /\ state' \in Still /\ state \notin Still => r = current
    <2>1. a.open => r = current /\ state \notin Still
      BY <1>4 DEF AloneIn
    <2>2. state' # state => r = current
      BY <1>4, <2>1
    <2>3. b.open /\ state' \in Still => Quiet(b)
      BY <1>3, <1>4, <2>1
    <2> QED
      BY <2>1, <2>2, <2>3
  <1> QED
    BY <1>2, <1>4, OneReading

LEMMA EndsKeeps ==
    ASSUME PlayInv, NEW r \in DOMAIN readings, BodyEnds(r)
    PROVE  PlayInv'
  <1> DEFINE a == readings[r]
             b == [a EXCEPT !.phase = "over", !.streamDone = TRUE]
  <1>1. GoodReading(a) /\ a.phase = "frames" /\ ~ a.cancelled /\ a.open
    BY OneOf DEF BodyEnds
  <1>2. /\ Update(r, b) /\ current' = current
        /\ state' = IF b.scheduled = 0 THEN "unavailable" ELSE FinishIfDone(b)
    BY DEF BodyEnds
  <1>3. /\ GoodReading(b) /\ b.open = a.open /\ b.bad = a.bad /\ b.cancelled = a.cancelled
        /\ b.phase = "over" /\ (b.open => Counted(b)) /\ b.scheduled = Len(b.given)
    BY <1>1, OverGood
  <1> HIDE DEF b
  <1>4. ~ Quiet(a) /\ (Marred(a) => Marred(b))
    BY <1>1 DEF Quiet, Marred
  <1>5. state' \in {state, "idle", "unavailable"}
    BY <1>2 DEF FinishIfDone
  <1>6. b.scheduled = 0 => b.sourcesDone = 0
    <2>1. /\ Cardinality(Ended(b.sources)) \in Nat /\ Cardinality(Ended(b.sources)) <= Len(b.sources)
          /\ Len(b.sources) \in Nat /\ b.bad \in Nat /\ Cardinality(b.decoding) \in Nat
      BY <1>3, Fields
    <2>2. /\ Cardinality(b.decoding) + Len(b.sources) + b.bad = b.scheduled
          /\ b.sourcesDone = Cardinality(Ended(b.sources)) + b.bad
      BY <1>1, <1>3 DEF Counted
    <2>3. \A c, e, l, n \in Nat : c + l + n = 0 /\ e <= l => e + n = 0
      OBVIOUS
    <2> QED
      BY <2>1, <2>2, <2>3
  <1>7. state' # state => b.scheduled = b.sourcesDone
    BY <1>2, <1>6 DEF FinishIfDone
  <1> QED
    BY <1>1, <1>2, <1>3, <1>4, <1>5, <1>7, FinishedKeeps

LEMMA BreaksKeeps ==
    ASSUME PlayInv, NEW r \in DOMAIN readings, BodyBreaks(r) \/ WholeUndecoded(r)
    PROVE  PlayInv'
  <1> DEFINE a == readings[r]
  <1>1. GoodReading(a) /\ state \in States /\ (Unanswered(a) \/ a.phase = "decoding") /\ a \in Reading
    BY OneOf DEF BodyBreaks, WholeUndecoded, Unanswered, GoodReading
  <1>2. a.bad \in Nat /\ a.bad + 1 \in Nat /\ a.bad + 1 # 0 /\ a.bad + 1 > 0
    BY <1>1, Fields
  <1>3. PICK decoding \in SUBSET a.decoding :
          Update(r, [a EXCEPT !.phase = "failed", !.bad = a.bad + 1, !.decoding = decoding])
    <2>1. CASE BodyBreaks(r)
      <3>1. Update(r, [[a EXCEPT !.bad = a.bad + 1] EXCEPT !.phase = "failed"])
        BY <2>1 DEF BodyBreaks, Thrown
      <3>2. [[a EXCEPT !.bad = a.bad + 1] EXCEPT !.phase = "failed"]
              = [a EXCEPT !.phase = "failed", !.bad = a.bad + 1, !.decoding = a.decoding]
        BY <1>1 DEF Reading
      <3>3. a.decoding \in SUBSET a.decoding
        OBVIOUS
      <3> QED
        BY <3>1, <3>2, <3>3
    <2>2. CASE WholeUndecoded(r)
      <3>1. Update(r, [Undecoded(a, 1) EXCEPT !.phase = "failed"])
        BY <2>2 DEF WholeUndecoded, Thrown
      <3>2. [Undecoded(a, 1) EXCEPT !.phase = "failed"]
              = [a EXCEPT !.phase = "failed", !.bad = a.bad + 1, !.decoding = a.decoding \ {1}]
        BY <1>1 DEF Reading, Undecoded
      <3>3. a.decoding \ {1} \in SUBSET a.decoding
        OBVIOUS
      <3> QED
        BY <3>1, <3>2, <3>3
    <2> QED
      BY <2>1, <2>2
  <1> DEFINE b == FailedAs(a, a.bad + 1, decoding)
  <1>4. GoodReading(b) /\ b.phase = "failed" /\ b.bad = a.bad + 1
    <2> DEFINE bad == a.bad + 1
    <2>1. bad \in Nat /\ bad # 0
      BY <1>2
    <2> HIDE DEF bad
    <2>2. LET c == FailedAs(a, bad, decoding)
          IN  GoodReading(c) /\ c.phase = "failed" /\ c.bad = bad
      BY <1>1, <2>1, FailedGood
    <2> QED
      BY <2>2 DEF bad
  <1>5. Update(r, b)
    BY <1>3 DEF FailedAs
  <1> HIDE DEF b
  <1>6. Marred(b)
    BY <1>2, <1>4 DEF Marred
  <1>7. current' = current /\ state' \in States
    BY <1>1 DEF BodyBreaks, WholeUndecoded, Thrown, States
  <1> QED
    BY <1>4, <1>5, <1>6, <1>7, OneReading

LEMMA ArrivesKeeps ==
    ASSUME PlayInv, NEW r \in DOMAIN readings, WholeArrives(r)
    PROVE  PlayInv'
  <1> DEFINE a == readings[r]
             b == [a EXCEPT !.phase = "decoding", !.scheduled = 1,
                            !.given = <<[i \in DOMAIN a.body.pieces |-> i]>>,
                            !.decoding = {1}]
  <1>1. GoodReading(a) /\ state \in States /\ a.phase = "whole"
    BY OneOf DEF WholeArrives
  <1>2. Update(r, b) /\ state' = state /\ current' = current
    BY DEF WholeArrives
  <1>3. GoodReading(b) /\ b.open = a.open /\ b.bad = a.bad /\ b.cancelled = a.cancelled /\ b.phase = "decoding"
    BY <1>1, ArrivedGood
  <1> HIDE DEF b
  <1>4. ~ Quiet(a) /\ (Marred(a) => Marred(b))
    BY <1>1, <1>3 DEF Quiet, Marred
  <1> QED
    BY <1>1, <1>2, <1>3, <1>4, OneReading DEF AloneIn

LEMMA DecodedKeeps ==
    ASSUME PlayInv, NEW r \in DOMAIN readings, WholeDecoded(r)
    PROVE  PlayInv'
  <1> DEFINE a == readings[r]
             c == [a EXCEPT !.phase = "over"]
  <1>1. GoodReading(a) /\ state \in States /\ a.phase = "decoding" /\ a.cancelled = ~ a.open /\ a \in Reading
    BY OneOf DEF WholeDecoded, GoodReading
  <1>2. current' = current /\ c.cancelled = a.cancelled
    BY <1>1 DEF WholeDecoded, Reading
  <1>3. ~ Quiet(a)
    BY <1>1 DEF Quiet
  <1>4. CASE a.cancelled
    <2> DEFINE b == DroppedAs(a, "over", {})
    <2>1. [c EXCEPT !.decoding = {}] = b
      BY <1>1 DEF Reading, DroppedAs
    <2>2. Update(r, b) /\ state' = state
      BY <1>2, <1>4, <2>1 DEF WholeDecoded
    <2>3. GoodReading(b) /\ b.open = a.open /\ b.bad = a.bad /\ b.cancelled = a.cancelled /\ b.phase = "over"
      <3>1. {} \in SUBSET a.decoding
        OBVIOUS
      <3> QED
        BY <1>1, <1>4, <3>1, DroppedGood
    <2> HIDE DEF b
    <2>4. Marred(a) => Marred(b)
      BY <1>4, <2>3 DEF Marred
    <2> QED
      BY <1>1, <1>2, <1>4, <2>2, <2>3, <2>4, OneReading
  <1>5. CASE ~ a.cancelled
    <2> DEFINE b == [Started(c, 1, 0) EXCEPT !.streamDone = TRUE]
    <2>1. Update(r, b) /\ state' = "playing"
      BY <1>2, <1>5 DEF WholeDecoded
    <2>2. GoodReading(b) /\ b.open = a.open /\ b.bad = a.bad /\ b.cancelled = a.cancelled /\ b.phase = "over"
      BY <1>1, <1>5, WholeGood
    <2> HIDE DEF b
    <2>3. Marred(a) => Marred(b)
      BY <1>1, <2>2 DEF Marred
    <2>4. state' \in States /\ state' \notin Still
      BY <2>1 DEF States, Still
    <2>5. AloneIn(a, r) /\ b.open => r = current
      BY <1>3, <2>2 DEF AloneIn
    <2> QED
      BY <1>2, <2>1, <2>2, <2>3, <2>4, <2>5, OneReading
  <1> QED
    BY <1>4, <1>5

LEMMA PieceDecodedKeeps ==
    ASSUME PlayInv, NEW r \in DOMAIN readings, PieceDecoded(r)
    PROVE  PlayInv'
  <1> DEFINE a == readings[r]
             startAt == Later(a.nextStartAt, 0)
  <1>1. GoodReading(a) /\ state \in States /\ a.phase # "decoding" /\ a.cancelled = ~ a.open /\ a \in Reading
    BY OneOf DEF PieceDecoded, GoodReading
  <1>2. PICK piece \in a.decoding :
          IF a.cancelled
          THEN Update(r, [a EXCEPT !.decoding = @ \ {piece}]) /\ UNCHANGED state
          ELSE /\ Update(r, Started(a, piece, startAt))
               /\ state' = IF a.scheduled = 1 THEN "playing" ELSE state
    BY DEF PieceDecoded
  <1>3. current' = current
    BY DEF PieceDecoded
  <1>4. ~ Quiet(a)
    BY <1>1, LessOne
  <1>5. CASE a.cancelled
    <2> DEFINE phase == a.phase
               decoding == a.decoding \ {piece}
               b == DroppedAs(a, phase, decoding)
    <2>1. [a EXCEPT !.decoding = @ \ {piece}] = b
      BY <1>1 DEF Reading, DroppedAs
    <2>2. Update(r, b) /\ state' = state
      BY <1>2, <1>5, <2>1
    <2>3. phase = a.phase /\ phase # "decoding" /\ decoding \in SUBSET a.decoding
      BY <1>1
    <2> HIDE DEF phase, decoding
    <2>4. GoodReading(b) /\ b.open = a.open /\ b.bad = a.bad /\ b.cancelled = a.cancelled /\ b.phase = a.phase
      BY <1>1, <1>5, <2>3, DroppedGood
    <2> HIDE DEF b
    <2>5. Marred(a) => Marred(b)
      BY <1>5, <2>4 DEF Marred
    <2> QED
      BY <1>1, <1>3, <1>4, <1>5, <2>2, <2>4, <2>5, OneReading
  <1>6. CASE ~ a.cancelled
    <2> DEFINE b == Started(a, piece, startAt)
    <2>1. Update(r, b) /\ state' \in {state, "playing"}
      BY <1>2, <1>6
    <2>2. startAt \in Nat /\ a.nextStartAt <= startAt
      <3>1. a.nextStartAt \in Nat
        BY <1>1, Fields
      <3> QED
        BY <3>1 DEF Later
    <2> HIDE DEF startAt
    <2>3. GoodReading(b) /\ b.open = a.open /\ b.bad = a.bad /\ b.cancelled = a.cancelled /\ b.phase = a.phase
      BY <1>1, <2>2, StartedGood
    <2> HIDE DEF b
    <2>4. Marred(a) => Marred(b)
      BY <2>3 DEF Marred
    <2>5. state' \in States /\ (state' \in Still => state \in Still)
      BY <1>1, <2>1 DEF States, Still
    <2>6. AloneIn(a, r) /\ b.open => r = current /\ state \notin Still
      BY <1>4, <2>3 DEF AloneIn
    <2> QED
      BY <1>3, <2>1, <2>3, <2>4, <2>5, <2>6, OneReading
  <1> QED
    BY <1>5, <1>6

LEMMA PieceUndecodedKeeps ==
    ASSUME PlayInv, NEW r \in DOMAIN readings, PieceUndecoded(r)
    PROVE  PlayInv'
  <1> DEFINE a == readings[r]
  <1>1. GoodReading(a) /\ state \in States /\ a.phase # "decoding" /\ a.cancelled = ~ a.open
    BY OneOf DEF PieceUndecoded
  <1>2. PICK piece \in a.decoding :
          LET b == [Undecoded(a, piece) EXCEPT !.sourcesDone = @ + 1]
          IN  Update(r, b) /\ state' = FinishIfDone(b)
    BY DEF PieceUndecoded
  <1>3. current' = current /\ ~ Quiet(a)
    BY <1>1, LessOne DEF PieceUndecoded
  <1> DEFINE b == [Undecoded(a, piece) EXCEPT !.sourcesDone = @ + 1]
  <1>4. Update(r, b) /\ state' = FinishIfDone(b)
    BY <1>2
  <1>5. /\ GoodReading(b) /\ b.open = a.open /\ b.bad > 0 /\ b.cancelled = a.cancelled
        /\ b.phase = a.phase
    BY <1>1, UndecodedGood
  <1> HIDE DEF b
  <1>6. Marred(a) => Marred(b)
    BY <1>5 DEF Marred
  <1>7. state' \in {state, "idle", "unavailable"}
        /\ (state' # state => b.streamDone /\ b.scheduled = b.sourcesDone)
    BY <1>4 DEF FinishIfDone
  <1>8. ~ Marred(b) => b.open /\ b.phase # "failed"
    BY <1>1, <1>5 DEF Marred
  <1>9. ~ Marred(b) /\ state' # state => b.open /\ Counted(b) /\ b.phase = "over" /\ b.scheduled = b.sourcesDone
    BY <1>5, <1>7, <1>8 DEF GoodReading
  <1> QED
    BY <1>3, <1>4, <1>5, <1>6, <1>7, <1>9, FinishedKeeps

LEMMA SourceEndsKeeps ==
    ASSUME PlayInv, NEW r \in DOMAIN readings, SourceEnds(r)
    PROVE  PlayInv'
  <1> DEFINE a == readings[r]
  <1>1. GoodReading(a) /\ a.open
    BY OneOf DEF SourceEnds
  <1>2. PICK i \in DOMAIN a.sources :
          LET b == [a EXCEPT !.sources[i].ended = TRUE, !.sourcesDone = @ + 1]
          IN  Over(a.sources[i]) /\ Update(r, b) /\ state' = FinishIfDone(b)
    BY DEF SourceEnds
  <1>3. current' = current
    BY DEF SourceEnds
  <1> DEFINE b == [a EXCEPT !.sources[i].ended = TRUE, !.sourcesDone = @ + 1]
  <1>4. Update(r, b) /\ state' = FinishIfDone(b)
    BY <1>2
  <1>5. /\ GoodReading(b) /\ b.open = a.open /\ b.bad = a.bad /\ b.cancelled = a.cancelled
        /\ b.phase = a.phase /\ ~ Quiet(a)
    BY <1>1, <1>2, SourceEndedGood
  <1> HIDE DEF b
  <1>6. Marred(a) => Marred(b)
    BY <1>5 DEF Marred
  <1>7. state' \in {state, "idle", "unavailable"}
        /\ (state' # state => b.streamDone /\ b.scheduled = b.sourcesDone)
    BY <1>4 DEF FinishIfDone
  <1>8. state' # state => b.open /\ Counted(b) /\ b.phase = "over" /\ b.scheduled = b.sourcesDone
    BY <1>1, <1>5, <1>7 DEF GoodReading
  <1> QED
    BY <1>3, <1>4, <1>5, <1>6, <1>7, <1>8, FinishedKeeps

LEMMA TickKeeps ==
    ASSUME PlayInv, Tick
    PROVE  PlayInv'
  <1>1. /\ readings \in Seq(Reading) /\ state \in States /\ current \in 0 .. Len(readings)
        /\ \A r \in DOMAIN readings : GoodReading(readings[r])
    BY DEF PlayInv
  <1> DEFINE next(r) == IF readings[r].open THEN MovedOn(readings[r]) ELSE readings[r]
  <1>2. readings' = [r \in DOMAIN readings |-> next(r)] /\ state' = state /\ current' = current
    BY DEF Tick, MovedOn
  <1>3. \A r \in DOMAIN readings :
          LET a == readings[r]
              b == next(r)
          IN  /\ GoodReading(b) /\ b.open = a.open /\ b.bad = a.bad
              /\ b.cancelled = a.cancelled /\ b.phase = a.phase /\ (Quiet(a) => Quiet(b))
    <2> TAKE r \in DOMAIN readings
    <2>1. CASE readings[r].open
      BY <1>1, <2>1, MovedGood
    <2>2. CASE ~ readings[r].open
      BY <1>1, <2>2
    <2> QED
      BY <2>1, <2>2
  <1> HIDE DEF next
  <1>4. DOMAIN readings' = DOMAIN readings /\ \A r \in DOMAIN readings : readings'[r] = next(r)
    BY <1>2
  <1>5. readings' \in Seq(Reading) /\ Len(readings') = Len(readings)
    <2>1. DOMAIN readings = 1 .. Len(readings) /\ Len(readings) \in Nat
      BY <1>1
    <2>2. \A r \in 1 .. Len(readings) : next(r) \in Reading
      BY <1>3, <2>1 DEF GoodReading
    <2> QED
      BY <1>2, <2>1, <2>2
  <1>6. \A r \in DOMAIN readings : Marred(readings[r]) <=> Marred(readings'[r])
    BY <1>3, <1>4 DEF Marred
  <1>7. \A r \in DOMAIN readings : AloneIn(readings[r], r) => AloneIn(readings[r], r)'
    BY <1>2, <1>3, <1>4 DEF AloneIn
  <1>8. \A r \in DOMAIN readings : GoodReading(readings'[r])
    BY <1>3, <1>4
  <1> QED
    BY <1>1, <1>2, <1>4, <1>5, <1>6, <1>7, <1>8 DEF PlayInv

LEMMA StopKeeps ==
    ASSUME PlayInv, Stop
    PROVE  PlayInv'
  <1>1. /\ readings \in Seq(Reading) /\ state \in States /\ current \in 0 .. Len(readings)
        /\ \A r \in DOMAIN readings : GoodReading(readings[r])
    BY DEF PlayInv
  <1>2. current' = 0 /\ state' \in States
    BY <1>1 DEF Stop, States
  <1>3. CASE current = 0
    <2>1. readings' = readings
      BY <1>3 DEF Stop
    <2>2. \A r \in DOMAIN readings : r # current
      BY <1>1, <1>3
    <2>3. \A r \in DOMAIN readings : AloneIn(readings[r], r) => AloneIn(readings[r], r)'
      BY <2>1, <2>2 DEF AloneIn
    <2> QED
      BY <1>1, <1>2, <2>1, <2>3 DEF PlayInv
  <1>4. CASE current # 0
    <2> DEFINE b == Cancelled(readings[current])
    <2>1. readings' = [readings EXCEPT ![current] = b] /\ current \in DOMAIN readings
      BY <1>1, <1>4 DEF Stop
    <2>2. GoodReading(b) /\ ~ b.open /\ (Marred(readings[current]) => Marred(b)) /\ b \in Reading
      <3>1. GoodReading(b) /\ ~ b.open /\ (Marred(readings[current]) => Marred(b))
        BY <1>1, <2>1, CancelledGood
      <3> QED
        BY <3>1 DEF GoodReading
    <2> HIDE DEF b
    <2>3. /\ readings' \in Seq(Reading) /\ Len(readings') = Len(readings)
          /\ DOMAIN readings' = DOMAIN readings /\ readings'[current] = b
          /\ \A r \in DOMAIN readings : r # current => readings'[r] = readings[r]
      BY <1>1, <2>1, <2>2
    <2>4. \A r \in DOMAIN readings : GoodReading(readings'[r]) /\ (Marred(readings[r]) => Marred(readings'[r]))
      BY <1>1, <2>2, <2>3
    <2>5. \A r \in DOMAIN readings : AloneIn(readings[r], r) => AloneIn(readings[r], r)'
      BY <2>2, <2>3 DEF AloneIn
    <2> QED
      BY <1>1, <1>2, <2>3, <2>4, <2>5 DEF PlayInv
  <1> QED
    BY <1>3, <1>4

\* The button starts a reading only where none is on.
LEMMA PlayKeeps ==
    ASSUME PlayInv, Play, state \in Still
    PROVE  PlayInv'
  <1>1. /\ readings \in Seq(Reading) /\ current \in 0 .. Len(readings)
        /\ \A r \in DOMAIN readings : GoodReading(readings[r])
    BY DEF PlayInv
  <1>2. GoodReading(Pressed) /\ ~ Marred(Pressed) /\ Pressed \in Reading
    BY PressedGood DEF GoodReading
  <1>3. readings' = Append(readings, Pressed) /\ current' = Len(readings') /\ state' = "loading"
    BY DEF Play
  <1>4. /\ readings' \in Seq(Reading) /\ Len(readings') = Len(readings) + 1 /\ Len(readings) \in Nat
        /\ DOMAIN readings' = 1 .. (Len(readings) + 1) /\ DOMAIN readings = 1 .. Len(readings)
        /\ readings'[Len(readings) + 1] = Pressed
        /\ \A r \in DOMAIN readings : readings'[r] = readings[r]
    BY <1>1, <1>2, <1>3
  <1>5. state' \in States /\ state' \notin Still /\ current' \in 0 .. Len(readings')
    BY <1>3, <1>4 DEF States, Still
  <1>6. \A r \in DOMAIN readings' : r \in DOMAIN readings \/ r = Len(readings) + 1
    BY <1>4
  <1>7. \A r \in DOMAIN readings' : GoodReading(readings'[r])
    BY <1>1, <1>2, <1>4, <1>6
  <1>8. ASSUME \A r \in DOMAIN readings' : ~ Marred(readings'[r]), NEW r \in DOMAIN readings'
        PROVE  AloneIn(readings[r], r)'
    <2>1. CASE r \in DOMAIN readings
      <3>1. \A k \in DOMAIN readings : ~ Marred(readings[k])
        <4>1. DOMAIN readings \subseteq DOMAIN readings'
          BY <1>4
        <4> QED
          BY <1>4, <1>8, <4>1
      <3>2. readings[r].open => Quiet(readings[r])
        BY <2>1, <3>1 DEF PlayInv, AloneIn
      <3> QED
        BY <1>4, <2>1, <3>2 DEF AloneIn
    <2>2. CASE r = Len(readings) + 1
      <3>1. r = current'
        BY <1>3, <1>4, <2>2
      <3> QED
        BY <1>5, <3>1 DEF AloneIn
    <2> QED
      BY <1>6, <2>1, <2>2
  <1> QED
    BY <1>4, <1>5, <1>7, <1>8 DEF PlayInv

LEMMA PlayInvInit == Init => PlayInv
  <1> SUFFICES ASSUME Init PROVE PlayInv
    OBVIOUS
  <1>1. readings = <<>> /\ current = 0 /\ state = "idle"
    BY DEF Init
  <1>2. readings \in Seq(Reading) /\ DOMAIN readings = {} /\ Len(readings) = 0
    BY <1>1
  <1> QED
    BY <1>1, <1>2 DEF PlayInv, States

LEMMA PlayInvNext == PlayInv /\ [Next]_vars => PlayInv'
  <1> SUFFICES ASSUME PlayInv, [Next]_vars PROVE PlayInv'
    OBVIOUS
  <1>1. CASE UNCHANGED vars
    BY <1>1 DEF vars, PlayInv, AloneIn
  <1>2. CASE Toggle
    <2>1. CASE state \in {"playing", "loading"}
      BY <1>2, <2>1, StopKeeps DEF Toggle
    <2>2. CASE state \notin {"playing", "loading"}
      <3>1. state \in Still
        BY <2>2 DEF PlayInv, States, Still
      <3> QED
        BY <1>2, <2>2, <3>1, PlayKeeps DEF Toggle
    <2> QED
      BY <2>1, <2>2
  <1>3. CASE Stop
    BY <1>3, StopKeeps
  <1>4. CASE Tick
    BY <1>4, TickKeeps
  <1>5. ASSUME NEW r \in DOMAIN readings, Network(r) \/ Audio(r) \/ Faulty(r)
        PROVE  PlayInv'
    <2>1. CASE Aborted(r) \/ Refused(r)
      BY <2>1, ThrownKeeps
    <2>2. CASE Answered(r)
      BY <2>2, AnsweredKeeps
    <2>3. CASE Read(r)
      BY <2>3, ReadKeeps
    <2>4. CASE BodyEnds(r)
      BY <2>4, EndsKeeps
    <2>5. CASE WholeArrives(r)
      BY <2>5, ArrivesKeeps
    <2>6. CASE WholeDecoded(r)
      BY <2>6, DecodedKeeps
    <2>7. CASE PieceDecoded(r)
      BY <2>7, PieceDecodedKeeps
    <2>8. CASE SourceEnds(r)
      BY <2>8, SourceEndsKeeps
    <2>9. CASE BodyBreaks(r) \/ WholeUndecoded(r)
      BY <2>9, BreaksKeeps
    <2>10. CASE PieceUndecoded(r)
      BY <2>10, PieceUndecodedKeeps
    <2> QED
      BY <1>5, <2>1, <2>2, <2>3, <2>4, <2>5, <2>6, <2>7, <2>8, <2>9, <2>10
         DEF Network, Audio, Faulty
  <1> QED
    BY <1>1, <1>2, <1>3, <1>4, <1>5 DEF Next

-----------------------------------------------------------------------------
(* What the invariant means to who listens. *)

LEMMA AtMostOne ==
    ASSUME NEW S, NEW c, S \subseteq {c}
    PROVE  Cardinality(S) <= 1
  <1>1. IsFiniteSet({c}) /\ Cardinality({c}) = 1
    BY FS_Singleton
  <1>2. Cardinality(S) <= Cardinality({c})
    BY <1>1, FS_Subset, Zenon
  <1> QED
    BY <1>1, <1>2

\* Two pieces laid end to end do not sound at once.
LEMMA OneSounds ==
    ASSUME NEW a, GoodReading(a), NEW i \in DOMAIN a.sources, NEW j \in DOMAIN a.sources,
           Sounds(a.sources[i]), Sounds(a.sources[j])
    PROVE  i = j
  <1>1. /\ a.sources \in Seq(Source) /\ DOMAIN a.sources = 1 .. Len(a.sources)
        /\ EndToEnd(a.sources, a.nextStartAt)
    BY Fields DEF GoodReading
  <1>2. a.sources[i] \in Source /\ a.sources[j] \in Source
    BY <1>1
  <1>3. \A k, l \in DOMAIN a.sources :
          k < l /\ a.sources[k] \in Source /\ Sounds(a.sources[k]) => ~ Sounds(a.sources[l])
    <2> TAKE k, l \in DOMAIN a.sources
    <2>1. k < l => EndOf(a.sources[k]) <= a.sources[l].wait
      BY <1>1 DEF EndToEnd
    <2> QED
      BY <2>1 DEF EndOf, Sounds, Source
  <1> QED
    BY <1>1, <1>2, <1>3

LEMMA QuietIsSilent ==
    ASSUME NEW a, GoodReading(a), Quiet(a), NEW i \in DOMAIN a.sources
    PROVE  ~ Sounds(a.sources[i])
  BY DEF GoodReading, EndToEnd, Quiet, Sounds

LEMMA PlayInvVoice == PlayInv => OneVoice
  <1> SUFFICES ASSUME PlayInv PROVE OneVoice
    OBVIOUS
  <1>1. \A r \in DOMAIN readings : GoodReading(readings[r])
    BY DEF PlayInv
  <1>2. ASSUME NEW r \in DOMAIN readings
        PROVE  Cardinality(Sounding(r)) <= 1
    <2>1. \A i, j \in Sounding(r) : i = j
      BY <1>1, OneSounds DEF Sounding
    <2>2. PICK c : Sounding(r) \subseteq {c}
      BY <2>1
    <2> QED
      BY <2>2, AtMostOne
  <1>3. ASSUME ~ Failed, ~ Stale
        PROVE  Cardinality({r \in DOMAIN readings : Sounding(r) # {}}) <= 1
    <2>1. \A r \in DOMAIN readings : AloneIn(readings[r], r)
      BY <1>3 DEF Failed, Stale, Marred, PlayInv
    <2>2. ASSUME NEW r \in DOMAIN readings, r # current
          PROVE  Sounding(r) = {}
      BY <1>1, <2>1, <2>2, QuietIsSilent DEF Sounding, AloneIn
    <2>3. {r \in DOMAIN readings : Sounding(r) # {}} \subseteq {current}
      BY <2>2
    <2> QED
      BY <2>3, AtMostOne
  <1> QED
    BY <1>2, <1>3 DEF OneVoice

LEMMA PlayInvSilent == PlayInv => IdleIsSilent
  <1> SUFFICES ASSUME PlayInv, state = "idle", ~ Failed, ~ Stale,
                      NEW r \in DOMAIN readings, readings[r].open
               PROVE  /\ Sounding(r) = {} /\ readings[r].decoding = {}
                      /\ readings[r].phase \in {"over", "failed"}
    BY DEF IdleIsSilent
  <1>1. GoodReading(readings[r]) /\ AloneIn(readings[r], r)
    BY DEF Failed, Stale, Marred, PlayInv
  <1>2. Quiet(readings[r])
    BY <1>1 DEF AloneIn, Still
  <1> QED
    BY <1>1, <1>2, QuietIsSilent DEF Sounding, Quiet

LEMMA ReceivedIsGiven ==
    ASSUME NEW a, a \in Reading, NEW n \in 0 .. Len(a.body.pieces), Received(a, n)
    PROVE  LET pieces == a.body.pieces
               whole == {k \in 0 .. Len(pieces) : Len(Framed(SubSeq(pieces, 1, k))) <= a.arrived}
               last == CHOOSE k \in whole : \A m \in whole : m <= k
           IN  a.given = [i \in 1 .. last |-> [b \in 1 .. pieces[i] |-> i]]
  <1> DEFINE pieces == a.body.pieces
             w == Ends(pieces)
             whole == {k \in 0 .. Len(pieces) : Len(Framed(SubSeq(pieces, 1, k))) <= a.arrived}
             last == CHOOSE k \in whole : \A m \in whole : m <= k
  <1>1. pieces \in Seq(Nat) /\ a.arrived \in Nat /\ Len(pieces) \in Nat
    BY DEF Reading
  <1>2. whole = {k \in 0 .. Len(pieces) : w[k] <= a.arrived}
    BY DEF Ends, Wire
  <1>3. Laid(pieces, w, Framed(pieces))
    BY <1>1, BytesLaid
  <1>4. /\ \A k \in 0 .. Len(pieces) : w[k] \in Nat
        /\ \A k, m \in 0 .. Len(pieces) : k <= m => w[k] <= w[m]
    BY <1>3 DEF Laid
  <1>5. a.given = FramesOf(pieces, 0, n) /\ w[n] <= a.arrived /\ ~ Here(pieces, w, a.arrived, n)
    BY DEF Received
  <1> HIDE DEF w, whole, pieces
  <1>6. n \in whole
    BY <1>2, <1>5 DEF pieces
  <1>7. \A m \in whole : m <= n
    <2> SUFFICES ASSUME NEW m \in whole, ~ (m <= n) PROVE FALSE
      OBVIOUS
    <2>1. m \in 0 .. Len(pieces) /\ w[m] <= a.arrived /\ n \in 0 .. Len(pieces)
      BY <1>2 DEF pieces
    <2>2. n + 1 \in 0 .. Len(pieces) /\ n + 1 <= m /\ n < Len(pieces)
      BY <1>1, <2>1
    <2>3. w[n + 1] <= w[m] /\ w[n + 1] \in Nat /\ w[m] \in Nat
      BY <1>4, <2>1, <2>2
    <2>4. w[n + 1] <= a.arrived
      BY <1>1, <2>1, <2>3
    <2> QED
      BY <1>5, <2>2, <2>4 DEF Here
  <1>8. last = n
    <2>1. \A k \in whole : k \in Nat
      BY <1>1, <1>2
    <2>2. \A k \in whole : (\A m \in whole : m <= k) => k = n
      BY <1>6, <1>7, <2>1
    <2>3. last \in whole /\ \A m \in whole : m <= last
      BY <1>6, <1>7
    <2> QED
      BY <2>2, <2>3
  <1>9. FramesOf(pieces, 0, n) = [i \in 1 .. n |-> [b \in 1 .. pieces[i] |-> i]]
    <2>1. n - 0 = n /\ \A i \in 1 .. n : 0 + i = i
      BY <1>1 DEF pieces
    <2> QED
      BY <2>1 DEF FramesOf, Frame
  <1> QED
    BY <1>5, <1>8, <1>9 DEF last, whole, pieces

LEMMA PlayInvFrames == PlayInv => FramesAsSent
  <1> SUFFICES ASSUME PlayInv, NEW r \in DOMAIN readings,
                      readings[r].phase \in {"frames", "over"}, readings[r].arrived > 0
               PROVE  LET pieces == readings[r].body.pieces
                          whole == {k \in 0 .. Len(pieces) :
                                      Len(Framed(SubSeq(pieces, 1, k))) <= readings[r].arrived}
                          last == CHOOSE k \in whole : \A m \in whole : m <= k
                      IN  readings[r].given = [i \in 1 .. last |-> [b \in 1 .. pieces[i] |-> i]]
    BY DEF FramesAsSent
  <1>1. readings[r] \in Reading /\ FrameInv(readings[r])
    BY DEF PlayInv, GoodReading
  <1>2. PICK n \in 0 .. Len(readings[r].body.pieces) : Received(readings[r], n)
    BY <1>1 DEF FrameInv
  <1> QED
    BY <1>1, <1>2, ReceivedIsGiven

-----------------------------------------------------------------------------
\* Of every reading alone (play's closure: its frames, decodings, sources and
\* counts agree) and of all together: while none was marred, whatever is open
\* besides `current` has nothing left to decode or to play.
THEOREM PlayInvHolds == Spec => []PlayInv
  <1>1. Init => PlayInv
    BY PlayInvInit
  <1>2. PlayInv /\ [Next]_vars => PlayInv'
    BY PlayInvNext
  <1> QED
    BY <1>1, <1>2, PTL DEF Spec

\* readFrames: however the body is cut into chunks, what onFrame was given is
\* the pieces that have come whole, each as the server wrote it.
THEOREM FramesAreAsSent == Spec => []FramesAsSent
  BY PlayInvHolds, PlayInvFrames, PTL

\* play and stop: the pieces of a reading follow each other (nextStartAt), and of
\* two readings one at most is heard unless one of them failed in the middle.
THEOREM OneVoiceIsHeard == Spec => []OneVoice
  BY PlayInvHolds, PlayInvVoice, PTL

\* finishIfDone: the button is idle only once every open reading is over and all
\* it was given has been heard.
THEOREM IdleMeansSilent == Spec => []IdleIsSilent
  BY PlayInvHolds, PlayInvSilent, PTL
=============================================================================
