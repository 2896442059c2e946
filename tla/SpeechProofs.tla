----------------------------- MODULE SpeechProofs -----------------------------
(***************************************************************************)
(* Proofs about one request to the TTS server (Speech): splitting keeps    *)
(* the text, nothing of what the engine sent is lost, and what a listener  *)
(* holds can always be played.                                             *)
(***************************************************************************)
EXTENDS Speech, Recursion, SequenceTheorems, TLAPS

------------------------------------------------------------------------------
(* Sequences of sequences, one after another (FlattenSeq).                 *)

\* The sequences joined so far, after each.
Joined(S, ss, f) ==
    /\ f[0] = <<>>
    /\ \A i \in 1..Len(ss) : f[i] = f[i - 1] \o ss[i]
    /\ \A i \in 0..Len(ss) : f[i] \in Seq(S)

FlattenRun(ss) ==
    CHOOSE f : f = [i \in 1..Len(ss) |-> IF i = 1 THEN ss[i] ELSE f[i - 1] \o ss[i]]

LEMMA FlattenIsRun ==
    ASSUME NEW ss, Len(ss) # 0
    PROVE  FlattenSeq(ss) = FlattenRun(ss)[Len(ss)]
  BY DEF FlattenSeq, FlattenRun

LEMMA FlattenIs ==
    ASSUME NEW S, NEW ss \in Seq(Seq(S))
    PROVE  \E f : Joined(S, ss, f) /\ FlattenSeq(ss) = f[Len(ss)]
  <1> DEFINE n == Len(ss)
             V == [i \in 0..n |-> Seq(S)]
             G == [q \in (1..n) \X Seq(S) |-> q[2] \o ss[q[1]]]
             run == FlattenRun(ss)
  <1>0. /\ n \in Nat /\ \A i \in 1..n : ss[i] \in Seq(S)
        /\ \A i \in 1..n : i \in 0..n /\ i - 1 \in 0..n /\ i # 0
        /\ \A i \in 0..n : i # 0 => i \in 1..n
        /\ 0 \in 0..n /\ <<>> \in Seq(S)
    OBVIOUS
  <1>1. ASSUME NEW i \in 1..n, NEW s \in Seq(S)
        PROVE  G[<<i, s>>] = s \o ss[i] /\ s \o ss[i] \in Seq(S)
    <2>1. ss[i] \in Seq(S)
      BY <1>0
    <2>2. s \o ss[i] \in Seq(S)
      BY <2>1, ConcatProperties
    <2>3. <<i, s>> \in (1..n) \X Seq(S)
      OBVIOUS
    <2> QED
      BY <2>2, <2>3
  <1>2. \A i \in 0..n : V[i] = Seq(S)
    OBVIOUS
  <1> HIDE DEF n, V, G
  <1>3. PICK g : Solves(n, V, <<>>, G, g)
    <2>1. ASSUME NEW i \in 1..n, NEW s \in V[i - 1] PROVE G[<<i, s>>] \in V[i]
      <3>1. s \in Seq(S) /\ V[i] = Seq(S)
        BY <1>0, <1>2
      <3> QED
        BY <1>1, <3>1
    <2>2. StaysIn(n, V, G)
      BY <2>1 DEF StaysIn
    <2>3. <<>> \in V[0]
      BY <1>0, <1>2
    <2> QED
      BY <1>0, <2>2, <2>3, RecursionExists
  <1>4. ASSUME NEW i \in 1..n PROVE g[i] = g[i - 1] \o ss[i]
    <2>1. g[i] = G[<<i, g[i - 1]>>] /\ g[i - 1] \in V[i - 1]
      BY <1>0, <1>3 DEF Solves
    <2>2. g[i - 1] \in Seq(S)
      BY <1>0, <1>2, <2>1
    <2> QED
      BY <1>1, <2>1, <2>2
  <1>5. g[0] = <<>> /\ \A i \in 0..n : g[i] \in Seq(S)
    BY <1>2, <1>3 DEF Solves
  <1>6. Joined(S, ss, g)
    BY <1>4, <1>5 DEF Joined, n
  <1>7. FlattenSeq(ss) = g[n]
    <2>1. CASE n = 0
      <3>1. ss = <<>> /\ FlattenSeq(ss) = ss
        BY <2>1 DEF n, FlattenSeq
      <3> QED
        BY <1>5, <2>1, <3>1
    <2>2. CASE n # 0
      <3> DEFINE h == [i \in 1..n |-> g[i]]
      <3>1. h = [i \in 1..n |-> IF i = 1 THEN ss[i] ELSE h[i - 1] \o ss[i]]
        <4>1. ASSUME NEW i \in 1..n
              PROVE  g[i] = IF i = 1 THEN ss[i] ELSE h[i - 1] \o ss[i]
          <5>1. CASE i = 1
            <6>0. g[i - 1] = <<>>
              BY <1>5, <5>1
            <6>1. g[i] = <<>> \o ss[i] /\ ss[i] \in Seq(S)
              BY <1>0, <1>4, <6>0
            <6> QED
              BY <5>1, <6>1, ConcatEmptySeq
          <5>2. CASE i # 1
            <6>1. i - 1 \in 1..n
              BY <1>0, <5>2
            <6>2. h[i - 1] = g[i - 1]
              BY <6>1
            <6> QED
              BY <1>4, <5>2, <6>2
          <5> QED
            BY <5>1, <5>2
        <4>2. \A i \in 1..n : h[i] = IF i = 1 THEN ss[i] ELSE h[i - 1] \o ss[i]
          BY <4>1
        <4> QED
          BY <4>2
      <3> HIDE DEF h
      <3>2. run = [i \in 1..n |-> IF i = 1 THEN ss[i] ELSE run[i - 1] \o ss[i]]
        BY <3>1 DEF FlattenRun, n
      <3> DEFINE at == [i \in 0..n |-> IF i = 0 THEN <<>> ELSE run[i]]
                 W  == [i \in 0..n |-> {g[i]}]
      <3> HIDE DEF run
      <3>3. at[0] = <<>> /\ \A i \in 1..n : at[i] = run[i]
        BY <1>0
      <3>4. \A i \in 1..n : run[i] = IF i = 1 THEN ss[i] ELSE run[i - 1] \o ss[i]
        BY <3>2, Zenon
      <3>5. \A i \in 0..n : W[i] = {g[i]}
        OBVIOUS
      <3> HIDE DEF at, W
      <3>6. ASSUME NEW i \in 1..n, at[i - 1] \in W[i - 1] PROVE at[i] \in W[i]
        <4>1. at[i - 1] = g[i - 1] /\ W[i] = {g[i]}
          BY <1>0, <3>5, <3>6
        <4>2. CASE i = 1
          <5>1. at[i] = ss[i] /\ g[i] = <<>> \o ss[i] /\ ss[i] \in Seq(S)
            <6>1. g[i - 1] = <<>>
              BY <1>5, <4>2
            <6> QED
              BY <1>0, <1>4, <3>3, <3>4, <4>2, <6>1
          <5>2. <<>> \o ss[i] = ss[i]
            BY <5>1, ConcatEmptySeq
          <5> QED
            BY <4>1, <5>1, <5>2
        <4>3. CASE i # 1
          <5>1. i - 1 \in 1..n
            BY <1>0, <4>3
          <5>2. at[i] = at[i - 1] \o ss[i]
            BY <3>3, <3>4, <4>3, <5>1
          <5> QED
            BY <1>4, <4>1, <5>2
        <4> QED
          BY <4>2, <4>3
      <3>7. at[0] \in W[0]
        BY <1>0, <1>5, <3>3, <3>5
      <3>8. \A i \in 0..n : at[i] \in W[i]
        BY <1>0, <3>6, <3>7, RecursionStays
      <3>9. n \in 1..n /\ n \in 0..n
        BY <1>0, <2>2
      <3>10. run[n] = g[n]
        BY <3>3, <3>5, <3>8, <3>9
      <3> QED
        BY <2>2, <3>10, FlattenIsRun DEF n, run
    <2> QED
      BY <2>1, <2>2
  <1> QED
    BY <1>6, <1>7 DEF n

\* Sequences that begin alike are joined alike so far.
LEMMA JoinedAlike ==
    ASSUME NEW S, NEW ss \in Seq(Seq(S)), NEW tt \in Seq(Seq(S)), NEW m \in Nat,
           m <= Len(ss), m <= Len(tt), \A i \in 1..m : ss[i] = tt[i],
           NEW f, Joined(S, ss, f), NEW g, Joined(S, tt, g)
    PROVE  f[m] = g[m]
  <1> DEFINE W == [i \in 0..m |-> {g[i]}]
  <1>1. \A i \in 0..m : W[i] = {g[i]}
    OBVIOUS
  <1> HIDE DEF W
  <1>2. \A i \in 1..m : /\ i - 1 \in 0..m /\ i \in 0..m
                        /\ i \in 1..Len(ss) /\ i \in 1..Len(tt)
    OBVIOUS
  <1>3. ASSUME NEW i \in 1..m, f[i - 1] \in W[i - 1] PROVE f[i] \in W[i]
    <2>1. f[i] = f[i - 1] \o ss[i] /\ g[i] = g[i - 1] \o tt[i]
      BY <1>2 DEF Joined
    <2>2. f[i - 1] = g[i - 1] /\ W[i] = {g[i]}
      BY <1>1, <1>2, <1>3
    <2> QED
      BY <2>1, <2>2
  <1>4. f[0] \in W[0] /\ 0 \in 0..m /\ m \in 0..m
    BY <1>1 DEF Joined
  <1>5. \A i \in 0..m : f[i] \in W[i]
    BY <1>3, <1>4, RecursionStays
  <1> QED
    BY <1>1, <1>4, <1>5

LEMMA FlattenType ==
    ASSUME NEW S, NEW ss \in Seq(Seq(S))
    PROVE  FlattenSeq(ss) \in Seq(S)
  <1>1. PICK f : Joined(S, ss, f) /\ FlattenSeq(ss) = f[Len(ss)]
    BY FlattenIs
  <1>2. Len(ss) \in 0..Len(ss)
    OBVIOUS
  <1> QED
    BY <1>1, <1>2 DEF Joined

LEMMA FlattenEmpty == FlattenSeq(<<>>) = <<>>
  BY DEF FlattenSeq

LEMMA FlattenAppend ==
    ASSUME NEW S, NEW ss \in Seq(Seq(S)), NEW s \in Seq(S)
    PROVE  FlattenSeq(Append(ss, s)) = FlattenSeq(ss) \o s
  <1> DEFINE n == Len(ss)
             tt == Append(ss, s)
  <1>1. /\ tt \in Seq(Seq(S)) /\ Len(tt) = n + 1 /\ n \in Nat
        /\ \A i \in 1..n : tt[i] = ss[i]
        /\ tt[n + 1] = s
    BY AppendProperties
  <1>2. PICK f : Joined(S, ss, f) /\ FlattenSeq(ss) = f[n]
    BY FlattenIs
  <1> HIDE DEF tt
  <1>3. PICK g : Joined(S, tt, g) /\ FlattenSeq(tt) = g[n + 1]
    BY <1>1, FlattenIs
  <1>4. g[n] = f[n]
    <2>1. n <= Len(tt) /\ n <= Len(ss)
      BY <1>1
    <2>2. n \in Nat /\ tt \in Seq(Seq(S)) /\ \A i \in 1..n : tt[i] = ss[i]
      BY <1>1
    <2>3. Joined(S, ss, f) /\ Joined(S, tt, g)
      BY <1>2, <1>3
    <2> HIDE DEF n
    <2> QED
      BY <2>1, <2>2, <2>3, JoinedAlike
  <1>5. g[n + 1] = g[n] \o s
    <2>1. n + 1 \in 1..Len(tt) /\ (n + 1) - 1 = n
      BY <1>1
    <2> QED
      BY <1>1, <1>3, <2>1 DEF Joined
  <1> QED
    BY <1>2, <1>3, <1>4, <1>5 DEF tt

LEMMA FlattenOne ==
    ASSUME NEW S, NEW s \in Seq(S)
    PROVE  FlattenSeq(<<s>>) = s
  <1>1. <<>> \in Seq(Seq(S)) /\ Append(<<>>, s) = <<s>>
    OBVIOUS
  <1>2. FlattenSeq(<<s>>) = <<>> \o s
    BY <1>1, FlattenAppend, FlattenEmpty
  <1> QED
    BY <1>2, ConcatEmptySeq

LEMMA Associates ==
    ASSUME NEW S
    PROVE  \A a, b, c \in Seq(S) : (a \o b) \o c = a \o (b \o c)
  <1> SUFFICES ASSUME NEW a \in Seq(S), NEW b \in Seq(S), NEW c \in Seq(S)
               PROVE  (a \o b) \o c = a \o (b \o c)
    OBVIOUS
  <1> QED
    BY ConcatAssociative

LEMMA FlattenConcat ==
    ASSUME NEW S, NEW ss \in Seq(Seq(S)), NEW tt \in Seq(Seq(S))
    PROVE  FlattenSeq(ss \o tt) = FlattenSeq(ss) \o FlattenSeq(tt)
  <1>0. \A x, y, z \in Seq(S) : (x \o y) \o z = x \o (y \o z)
    BY Associates
  <1> DEFINE m == Len(ss)
             n == Len(tt)
             uu == ss \o tt
             first == FlattenSeq(ss)
  <1>1. /\ uu \in Seq(Seq(S)) /\ Len(uu) = m + n /\ m \in Nat /\ n \in Nat
        /\ \A i \in 1..m : uu[i] = ss[i]
        /\ \A i \in 1..n : uu[m + i] = tt[i]
    <2>1. /\ uu \in Seq(Seq(S)) /\ Len(uu) = m + n /\ m \in Nat /\ n \in Nat
          /\ \A i \in 1..(m + n) : uu[i] = IF i <= m THEN ss[i] ELSE tt[i - m]
      BY ConcatProperties, LenProperties
    <2> HIDE DEF uu, m, n
    <2>2. \A i \in 1..m : i \in 1..(m + n) /\ i <= m
      BY <2>1
    <2>3. \A i \in 1..n : m + i \in 1..(m + n) /\ ~ (m + i <= m) /\ (m + i) - m = i
      BY <2>1
    <2> QED
      BY <2>1, <2>2, <2>3
  <1> HIDE DEF uu, m, n
  <1>2. PICK f : Joined(S, ss, f) /\ first = f[m]
    BY FlattenIs DEF m
  <1>3. PICK g : Joined(S, tt, g) /\ FlattenSeq(tt) = g[n]
    BY FlattenIs DEF n
  <1>4. PICK h : Joined(S, uu, h) /\ FlattenSeq(uu) = h[m + n]
    BY <1>1, FlattenIs
  <1> HIDE DEF first
  <1>5. h[m] = first
    <2>1. m <= Len(ss) /\ m <= Len(uu) /\ \A i \in 1..m : uu[i] = ss[i]
      BY <1>1 DEF m
    <2>2. Joined(S, ss, f) /\ Joined(S, uu, h) /\ m \in Nat
      BY <1>1, <1>2, <1>4
    <2>3. uu \in Seq(Seq(S))
      BY <1>1
    <2>4. h[m] = f[m]
      <3>1. \A i \in 1..m : ss[i] = uu[i]
        BY <2>1
      <3>2. f[m] = h[m]
        BY <2>1, <2>2, <2>3, <3>1, JoinedAlike
      <3> QED
        BY <3>2
    <2> QED
      BY <1>2, <2>4
  <1>6. first \in Seq(S)
    BY <1>2, <1>1 DEF Joined, m
  <1> DEFINE W == [i \in 0..n |-> {first \o g[i]}]
             at == [i \in 0..n |-> h[m + i]]
  <1>7. \A i \in 0..n : W[i] = {first \o g[i]} /\ at[i] = h[m + i]
    OBVIOUS
  <1>8. \A i \in 1..n : i \in 0..n /\ i - 1 \in 0..n /\ m + i \in 1..(m + n)
                        /\ (m + i) - 1 = m + (i - 1)
    BY <1>1
  <1>9. 0 \in 0..n /\ n \in 0..n /\ m + 0 = m
    BY <1>1
  <1> HIDE DEF W, at
  <1>10. ASSUME NEW i \in 1..n, at[i - 1] \in W[i - 1] PROVE at[i] \in W[i]
    <2>1. h[m + i] = h[m + (i - 1)] \o uu[m + i]
      BY <1>1, <1>4, <1>8 DEF Joined
    <2>2. g[i] = g[i - 1] \o tt[i]
      BY <1>3 DEF Joined, n
    <2>3. h[m + (i - 1)] = first \o g[i - 1]
      BY <1>7, <1>8, <1>10
    <2>4. g[i - 1] \in Seq(S) /\ tt[i] \in Seq(S) /\ uu[m + i] = tt[i]
      <3>1. \A j \in 0..Len(tt) : g[j] \in Seq(S)
        BY <1>3 DEF Joined
      <3>2. i - 1 \in 0..Len(tt)
        BY <1>8 DEF n
      <3>3. i \in 1..Len(tt)
        BY DEF n
      <3>4. tt[i] \in Seq(S)
        BY <3>3, ElementOfSeq
      <3> QED
        BY <1>1, <3>1, <3>2, <3>4
    <2>5. (first \o g[i - 1]) \o tt[i] = first \o (g[i - 1] \o tt[i])
      <3> DEFINE a == g[i - 1]
                 b == tt[i]
      <3>1. a \in Seq(S) /\ b \in Seq(S)
        BY <2>4
      <3> HIDE DEF a, b
      <3>2. (first \o a) \o b = first \o (a \o b)
        BY <1>0, <1>6, <3>1
      <3> QED
        BY <3>2 DEF a, b
    <2>6. h[m + i] = first \o g[i]
      BY <2>1, <2>2, <2>3, <2>4, <2>5
    <2> QED
      BY <1>7, <1>8, <2>6
  <1>11. at[0] \in W[0]
    <2>1. g[0] = <<>>
      BY <1>3 DEF Joined
    <2>2. first \o <<>> = first
      BY <1>6, ConcatEmptySeq
    <2>3. at[0] = h[m + 0] /\ W[0] = {first \o g[0]}
      BY <1>7, <1>9
    <2>4. at[0] = first
      BY <1>5, <1>9, <2>3
    <2>5. first \o g[0] = first
      BY <2>1, <2>2
    <2> QED
      BY <2>3, <2>4, <2>5
  <1>12. \A i \in 0..n : at[i] \in W[i]
    BY <1>1, <1>10, <1>11, RecursionStays
  <1>13. h[m + n] = first \o g[n]
    BY <1>7, <1>9, <1>12
  <1> QED
    BY <1>3, <1>4, <1>13 DEF uu, first

LEMMA PairIs ==
    ASSUME NEW S, NEW s \in S, NEW t \in S
    PROVE  Append(<<s>>, t) = <<s, t>> /\ <<s, t>> \in Seq(S) /\ <<s>> \in Seq(S)
  <1>1. <<s>> \in Seq(S) /\ <<s, t>> \in Seq(S)
    OBVIOUS
  <1>2. Len(<<s>>) = 1 /\ <<s>>[1] = s
    OBVIOUS
  <1>3. Len(<<s, t>>) = 2 /\ <<s, t>>[1] = s /\ <<s, t>>[2] = t
    OBVIOUS
  <1> DEFINE u == Append(<<s>>, t)
  <1>4. u \in Seq(S) /\ Len(u) = 2 /\ u[1] = s /\ u[2] = t
    BY <1>1, <1>2, AppendProperties
  <1> HIDE DEF u
  <1> DEFINE v == <<s, t>>
  <1>5. v \in Seq(S) /\ Len(v) = 2 /\ v[1] = s /\ v[2] = t
    BY <1>1, <1>3
  <1> HIDE DEF v
  <1>6. u = v
    <2>1. \A i \in 1..Len(u) : i = 1 \/ i = 2
      BY <1>4
    <2>2. \A i \in 1..Len(u) : u[i] = v[i]
      BY <1>4, <1>5, <2>1
    <2> QED
      BY <1>4, <1>5, <2>2, SeqEqual
  <1> QED
    BY <1>1, <1>6 DEF u, v

LEMMA FlattenTwo ==
    ASSUME NEW S, NEW s \in Seq(S), NEW t \in Seq(S)
    PROVE  FlattenSeq(<<s, t>>) = s \o t
  <1>1. <<s>> \in Seq(Seq(S)) /\ Append(<<s>>, t) = <<s, t>>
    BY PairIs
  <1>3. FlattenSeq(Append(<<s>>, t)) = FlattenSeq(<<s>>) \o t
    BY <1>1, FlattenAppend
  <1> QED
    BY <1>1, <1>3, FlattenOne

\* The beginning of a sequence, one element more of it, and all of it.
LEMMA FirstMore ==
    ASSUME NEW S, NEW s \in Seq(S), NEW i \in 1..Len(s)
    PROVE  /\ SubSeq(s, 1, i - 1) \in Seq(S)
           /\ SubSeq(s, 1, i) = Append(SubSeq(s, 1, i - 1), s[i])
  <1>1. s[i] \in S /\ Len(s) \in Nat
    OBVIOUS
  <1>2. SubSeq(s, 1, i - 1) \in Seq(S)
    OBVIOUS
  <1>3. SubSeq(s, 1, i) = SubSeq(s, 1, i - 1) \o <<s[i]>>
    BY <1>1, SubSeqRecursiveSecond
  <1>4. Append(SubSeq(s, 1, i - 1), s[i]) = SubSeq(s, 1, i - 1) \o <<s[i]>>
    BY <1>1, <1>2, AppendIsConcat
  <1> QED
    BY <1>2, <1>3, <1>4

LEMMA FirstType ==
    ASSUME NEW S, NEW s \in Seq(S), NEW i \in 0..Len(s)
    PROVE  SubSeq(s, 1, i) \in Seq(S) /\ Len(SubSeq(s, 1, i)) = i
  OBVIOUS

\* How much of the joined sequence the first c come to.
Upto(ss, c) == Len(FlattenSeq(SubSeq(ss, 1, c)))

LEMMA UptoType ==
    ASSUME NEW S, NEW ss \in Seq(Seq(S)), NEW c \in 0..Len(ss)
    PROVE  Upto(ss, c) \in Nat /\ Upto(ss, c) <= Len(FlattenSeq(ss))
           /\ Len(FlattenSeq(ss)) \in Nat
  <1> DEFINE a == SubSeq(ss, 1, c)
             b == SubSeq(ss, c + 1, Len(ss))
  <1>1. a \in Seq(Seq(S)) /\ b \in Seq(Seq(S)) /\ ss = a \o b
    <2>1. Len(ss) \in Nat /\ 1 \in 1..(Len(ss) + 1) /\ c \in (1 - 1)..Len(ss) /\ Len(ss) \in c..Len(ss)
      OBVIOUS
    <2>2. a \o b = SubSeq(ss, 1, Len(ss))
      BY <2>1, ConcatAdjacentSubSeq
    <2>3. a \in Seq(Seq(S))
      OBVIOUS
    <2>4. b \in Seq(Seq(S))
      <3>1. \A i \in (c + 1)..Len(ss) : ss[i] \in Seq(S)
        <4>1. \A i \in (c + 1)..Len(ss) : i \in 1..Len(ss)
          OBVIOUS
        <4> QED
          BY <4>1, ElementOfSeq
      <3>2. c + 1 \in Int /\ Len(ss) \in Int
        BY <2>1
      <3> HIDE DEF a
      <3> QED
        BY <3>1, <3>2, SubSeqProperties
    <2> QED
      BY <2>2, <2>3, <2>4, SubSeqFull
  <1> HIDE DEF a, b
  <1>2. FlattenSeq(ss) = FlattenSeq(a) \o FlattenSeq(b)
    BY <1>1, FlattenConcat
  <1>3. FlattenSeq(a) \in Seq(S) /\ FlattenSeq(b) \in Seq(S)
    BY <1>1, FlattenType
  <1> DEFINE fa == FlattenSeq(a)
             fb == FlattenSeq(b)
  <1>4. fa \in Seq(S) /\ fb \in Seq(S) /\ FlattenSeq(ss) = fa \o fb
    BY <1>2, <1>3
  <1>5. Upto(ss, c) = Len(fa)
    BY DEF Upto, a
  <1> HIDE DEF fa, fb
  <1> QED
    BY <1>4, <1>5

LEMMA UptoFirst ==
    ASSUME NEW S, NEW ss \in Seq(Seq(S)), NEW tt \in Seq(Seq(S)), NEW c \in 0..Len(ss)
    PROVE  Upto(ss \o tt, c) = Upto(ss, c)
  <1>1. SubSeq(ss \o tt, 1, c) = SubSeq(ss, 1, c)
    <2>1. CASE c = 0
      BY <2>1, SubSeqEmpty
    <2>2. CASE c # 0
      <3>1. 1 \in 1..Len(ss) /\ c \in 1..Len(ss)
        BY <2>2
      <3> QED
        BY <3>1, SubSeqOfConcat1
    <2> QED
      BY <2>1, <2>2
  <1> QED
    BY <1>1 DEF Upto

LEMMA UptoSecond ==
    ASSUME NEW S, NEW ss \in Seq(Seq(S)), NEW tt \in Seq(Seq(S)),
           NEW c \in 0..Len(ss \o tt), ~ (c <= Len(ss))
    PROVE  Upto(ss \o tt, c) >= Len(FlattenSeq(ss))
  <1> DEFINE m == Len(ss)
             n == Len(tt)
             uu == ss \o tt
             b == SubSeq(uu, m + 1, c)
  <1>1. m \in Nat /\ n \in Nat /\ Len(uu) = m + n /\ uu \in Seq(Seq(S)) /\ c \in Nat
    BY ConcatProperties
  <1>2. SubSeq(uu, 1, m) = ss
    <2>1. CASE m = 0
      <3>1. ss = <<>> /\ SubSeq(uu, 1, 0) = <<>>
        BY <2>1, SubSeqEmpty
      <3> QED
        BY <2>1, <3>1
    <2>2. CASE m # 0
      <3>1. 1 \in 1..m /\ m \in 1..m
        BY <1>1, <2>2
      <3>2. SubSeq(uu, 1, m) = SubSeq(ss, 1, m)
        BY <3>1, SubSeqOfConcat1
      <3> QED
        BY <3>2, SubSeqFull
    <2> QED
      BY <2>1, <2>2
  <1>3. SubSeq(uu, 1, c) = ss \o b
    <2> HIDE DEF uu, m, n
    <2>1. /\ 1 \in 1..(Len(uu) + 1) /\ m \in (1 - 1)..Len(uu) /\ c \in m..Len(uu)
      BY <1>1 DEF m, uu
    <2>2. SubSeq(uu, 1, m) \o SubSeq(uu, m + 1, c) = SubSeq(uu, 1, c)
      BY <1>1, <2>1, ConcatAdjacentSubSeq
    <2> QED
      BY <1>2, <2>2
  <1>4. b \in Seq(Seq(S))
    <2> HIDE DEF uu, m, n
    <2>1. \A i \in (m + 1)..c : i \in 1..Len(uu)
      BY <1>1 DEF m, uu
    <2>2. \A i \in (m + 1)..c : uu[i] \in Seq(S)
      BY <1>1, <2>1, ElementOfSeq
    <2>3. m + 1 \in Int /\ c \in Int
      BY <1>1
    <2> QED
      BY <2>2, <2>3, SubSeqProperties
  <1> HIDE DEF b, uu, m, n
  <1>5. FlattenSeq(ss \o b) = FlattenSeq(ss) \o FlattenSeq(b)
    BY <1>4, FlattenConcat
  <1> DEFINE fa == FlattenSeq(ss)
             fb == FlattenSeq(b)
  <1>6. fa \in Seq(S) /\ fb \in Seq(S)
    BY <1>4, FlattenType
  <1>7. Upto(uu, c) = Len(fa \o fb)
    BY <1>3, <1>5 DEF Upto
  <1> HIDE DEF fa, fb
  <1>8. Len(fa \o fb) >= Len(fa)
    BY <1>6
  <1> QED
    BY <1>7, <1>8 DEF uu, fa

------------------------------------------------------------------------------
(* Splitting a text (Text): the words and their tokens.                    *)

\* The values a definition by recursion runs through.
KeptRun(t) ==
    CHOOSE f : f = [i \in 0 .. Len(t) |->
            IF i = 0 THEN <<>>
            ELSE IF t[i].ends = "pause" THEN f[i - 1] ELSE Append(f[i - 1], t[i])]

LEMMA StripIsRun ==
    ASSUME NEW t
    PROVE  StripPauseMarkers(t) = KeptRun(t)[Len(t)]
  BY DEF StripPauseMarkers, KeptRun

LEMMA StripType ==
    ASSUME NEW t \in Seq(Word)
    PROVE  StripPauseMarkers(t) \in Seq(Word)
  <1> DEFINE n == Len(t)
             V == [i \in 0..n |-> Seq(Word)]
             G == [q \in (1..n) \X Seq(Word) |->
                      IF t[q[1]].ends = "pause" THEN q[2] ELSE Append(q[2], t[q[1]])]
             run == KeptRun(t)
  <1>0. /\ n \in Nat /\ \A i \in 1..n : t[i] \in Word
        /\ \A i \in 1..n : i \in 0..n /\ i - 1 \in 0..n /\ i # 0
        /\ \A i \in 0..n : i # 0 => i \in 1..n
        /\ 0 \in 0..n /\ n \in 0..n /\ <<>> \in Seq(Word)
    OBVIOUS
  <1>1. ASSUME NEW i \in 1..n, NEW s \in Seq(Word)
        PROVE  /\ G[<<i, s>>] = IF t[i].ends = "pause" THEN s ELSE Append(s, t[i])
               /\ G[<<i, s>>] \in Seq(Word)
    <2>1. <<i, s>> \in (1..n) \X Seq(Word) /\ t[i] \in Word
      BY <1>0
    <2>2. G[<<i, s>>] = IF t[i].ends = "pause" THEN s ELSE Append(s, t[i])
      BY <2>1
    <2> HIDE DEF G
    <2>3. Append(s, t[i]) \in Seq(Word)
      BY <2>1, AppendProperties
    <2> QED
      BY <2>2, <2>3
  <1>2. \A i \in 0..n : V[i] = Seq(Word)
    OBVIOUS
  <1> HIDE DEF n, V, G
  <1>3. PICK g : Solves(n, V, <<>>, G, g)
    <2>1. ASSUME NEW i \in 1..n, NEW s \in V[i - 1] PROVE G[<<i, s>>] \in V[i]
      <3>1. s \in Seq(Word) /\ V[i] = Seq(Word)
        BY <1>0, <1>2
      <3> QED
        BY <1>1, <3>1
    <2>2. StaysIn(n, V, G)
      BY <2>1 DEF StaysIn
    <2>3. <<>> \in V[0]
      BY <1>0, <1>2
    <2> QED
      BY <1>0, <2>2, <2>3, RecursionExists
  <1>4. g = [i \in 0..n |-> g[i]] /\ g[0] = <<>>
    BY <1>3 DEF Solves
  <1>5. ASSUME NEW i \in 1..n
        PROVE  g[i] = IF t[i].ends = "pause" THEN g[i - 1] ELSE Append(g[i - 1], t[i])
    <2>1. g[i] = G[<<i, g[i - 1]>>] /\ g[i - 1] \in V[i - 1]
      BY <1>0, <1>3 DEF Solves
    <2>2. g[i - 1] \in Seq(Word)
      BY <1>0, <1>2, <2>1
    <2> QED
      BY <1>1, <2>1, <2>2
  <1>6. g = [i \in 0..n |->
                IF i = 0 THEN <<>>
                ELSE IF t[i].ends = "pause" THEN g[i - 1] ELSE Append(g[i - 1], t[i])]
    BY <1>0, <1>4, <1>5
  <1>7. run = [i \in 0..n |->
                IF i = 0 THEN <<>>
                ELSE IF t[i].ends = "pause" THEN run[i - 1] ELSE Append(run[i - 1], t[i])]
    BY <1>6 DEF KeptRun, n
  <1> HIDE DEF run
  <1>8. run[0] = <<>>
    BY <1>0, <1>7
  <1>9. ASSUME NEW i \in 1..n, run[i - 1] \in V[i - 1] PROVE run[i] \in V[i]
    <2>1. run[i] = IF t[i].ends = "pause" THEN run[i - 1] ELSE Append(run[i - 1], t[i])
      BY <1>0, <1>7
    <2>2. run[i - 1] \in Seq(Word) /\ V[i] = Seq(Word) /\ t[i] \in Word
      BY <1>0, <1>2, <1>9
    <2>3. Append(run[i - 1], t[i]) \in Seq(Word)
      BY <2>2, AppendProperties
    <2> QED
      BY <2>1, <2>2, <2>3
  <1>10. run[0] \in V[0]
    BY <1>0, <1>2, <1>8
  <1>11. \A i \in 0..n : run[i] \in V[i]
    BY <1>0, <1>9, <1>10, RecursionStays
  <1>12. run[n] \in Seq(Word)
    BY <1>0, <1>2, <1>11
  <1> QED
    BY <1>12, StripIsRun DEF run, n

LEMMA PrepareType ==
    ASSUME NEW t \in Seq(Word)
    PROVE  PrepareTextPrompt(t) \in Seq(Word) /\ PrepareTextPrompt(t) # <<>>
  <1> DEFINE s == StripPauseMarkers(t)
  <1>1. s \in Seq(Word)
    BY StripType
  <1> HIDE DEF s
  <1>2. PrepareTextPrompt(t) = IF s = <<>> THEN <<FullStop>>
                               ELSE IF Last(s).ends = "letter"
                               THEN Front(s) \o <<[Last(s) EXCEPT !.ends = "mark"]>> ELSE s
    BY DEF PrepareTextPrompt, s
  <1>3. FullStop \in Word
    BY DEF FullStop, Word
  <1>4. CASE s = <<>>
    BY <1>2, <1>3, <1>4
  <1>5. CASE s # <<>>
    <2>1. Len(s) \in 1..Len(s) /\ Len(s) \in Nat /\ s[Len(s)] \in Word
      BY <1>1, <1>5, EmptySeq, ElementOfSeq
    <2> DEFINE w == [Last(s) EXCEPT !.ends = "mark"]
               f == Front(s)
    <2>2. w \in Word
      BY <2>1 DEF Word, Last
    <2>3. f \in Seq(Word)
      BY <1>1, <2>1 DEF Front
    <2> HIDE DEF w, f
    <2>4. f \o <<w>> \in Seq(Word) /\ f \o <<w>> # <<>>
      BY <2>2, <2>3
    <2> QED
      BY <1>1, <1>2, <1>5, <2>4 DEF w, f
  <1> QED
    BY <1>4, <1>5

------------------------------------------------------------------------------
CountRun(s) ==
    CHOOSE f : f = [i \in 0 .. Len(s) |-> IF i = 0 THEN 0 ELSE f[i - 1] + s[i].tokens]

LEMMA CountIsRun ==
    ASSUME NEW s
    PROVE  CountTokens(s) = CountRun(s)[Len(s)]
  BY DEF CountTokens, CountRun

\* The tokens of the words so far, after each.
Counted(s, f) ==
    /\ f[0] = 0
    /\ \A i \in 1..Len(s) : f[i] = f[i - 1] + s[i].tokens
    /\ \A i \in 0..Len(s) : f[i] \in Nat

LEMMA CountIs ==
    ASSUME NEW s \in Seq(Word)
    PROVE  \E f : Counted(s, f) /\ CountTokens(s) = f[Len(s)]
  <1> DEFINE n == Len(s)
             V == [i \in 0..n |-> Nat]
             G == [q \in (1..n) \X Nat |-> q[2] + s[q[1]].tokens]
             run == CountRun(s)
  <1>0. /\ n \in Nat /\ \A i \in 1..n : s[i] \in Word
        /\ \A i \in 1..n : i \in 0..n /\ i - 1 \in 0..n /\ i # 0
        /\ \A i \in 0..n : i # 0 => i \in 1..n
        /\ 0 \in 0..n /\ n \in 0..n
    OBVIOUS
  <1>1. ASSUME NEW i \in 1..n, NEW k \in Nat
        PROVE  G[<<i, k>>] = k + s[i].tokens /\ k + s[i].tokens \in Nat
    <2>1. <<i, k>> \in (1..n) \X Nat
      BY <1>0
    <2>2. s[i].tokens \in Nat
      BY <1>0 DEF Word
    <2> QED
      BY <2>1, <2>2
  <1>2. \A i \in 0..n : V[i] = Nat
    OBVIOUS
  <1> HIDE DEF n, V, G
  <1>3. PICK g : Solves(n, V, 0, G, g)
    <2>1. ASSUME NEW i \in 1..n, NEW k \in V[i - 1] PROVE G[<<i, k>>] \in V[i]
      <3>1. k \in Nat /\ V[i] = Nat
        BY <1>0, <1>2
      <3> QED
        BY <1>1, <3>1
    <2>2. StaysIn(n, V, G)
      BY <2>1 DEF StaysIn
    <2>3. 0 \in V[0]
      BY <1>0, <1>2
    <2> QED
      BY <1>0, <2>2, <2>3, RecursionExists
  <1>4. g = [i \in 0..n |-> g[i]] /\ g[0] = 0
    BY <1>3 DEF Solves
  <1>5. ASSUME NEW i \in 1..n PROVE g[i] = g[i - 1] + s[i].tokens
    <2>1. g[i] = G[<<i, g[i - 1]>>] /\ g[i - 1] \in V[i - 1]
      BY <1>0, <1>3 DEF Solves
    <2>2. g[i - 1] \in Nat
      BY <1>0, <1>2, <2>1
    <2> QED
      BY <1>1, <2>1, <2>2
  <1>6. g = [i \in 0..n |-> IF i = 0 THEN 0 ELSE g[i - 1] + s[i].tokens]
    BY <1>0, <1>4, <1>5
  <1>7. run = [i \in 0..n |-> IF i = 0 THEN 0 ELSE run[i - 1] + s[i].tokens]
    BY <1>6 DEF CountRun, n
  <1> HIDE DEF run
  <1>8. run[0] = 0
    BY <1>0, <1>7
  <1>9. \A i \in 1..n : run[i] = run[i - 1] + s[i].tokens
    BY <1>0, <1>7
  <1>10. ASSUME NEW i \in 1..n, run[i - 1] \in V[i - 1] PROVE run[i] \in V[i]
    <2>1. run[i - 1] \in Nat /\ V[i] = Nat
      BY <1>0, <1>2, <1>10
    <2> QED
      BY <1>1, <1>9, <2>1
  <1>11. run[0] \in V[0]
    BY <1>0, <1>2, <1>8
  <1>12. \A i \in 0..n : run[i] \in V[i]
    BY <1>0, <1>10, <1>11, RecursionStays
  <1>13. \A i \in 0..n : run[i] \in Nat
    BY <1>2, <1>12
  <1>14. Counted(s, run)
    BY <1>8, <1>9, <1>13 DEF Counted, n
  <1> QED
    BY <1>14, CountIsRun DEF run

LEMMA CountType ==
    ASSUME NEW s \in Seq(Word)
    PROVE  CountTokens(s) \in Nat
  <1>1. PICK f : Counted(s, f) /\ CountTokens(s) = f[Len(s)]
    BY CountIs
  <1>2. Len(s) \in 0..Len(s)
    OBVIOUS
  <1> QED
    BY <1>1, <1>2 DEF Counted

LEMMA CountEmpty == CountTokens(<<>>) = 0
  <1>1. <<>> \in Seq(Word) /\ Len(<<>>) = 0
    OBVIOUS
  <1>2. PICK f : Counted(<<>>, f) /\ CountTokens(<<>>) = f[Len(<<>>)]
    BY <1>1, CountIs
  <1> QED
    BY <1>1, <1>2 DEF Counted

LEMMA CountConcat ==
    ASSUME NEW s \in Seq(Word), NEW t \in Seq(Word)
    PROVE  CountTokens(s \o t) = CountTokens(s) + CountTokens(t)
  <1> DEFINE m == Len(s)
             n == Len(t)
             u == s \o t
  <1>1. /\ u \in Seq(Word) /\ Len(u) = m + n /\ m \in Nat /\ n \in Nat
        /\ \A i \in 1..m : u[i] = s[i]
        /\ \A i \in 1..n : u[m + i] = t[i]
    <2>1. /\ u \in Seq(Word) /\ Len(u) = m + n /\ m \in Nat /\ n \in Nat
          /\ \A i \in 1..(m + n) : u[i] = IF i <= m THEN s[i] ELSE t[i - m]
      BY ConcatProperties, LenProperties
    <2> HIDE DEF u, m, n
    <2>2. \A i \in 1..m : i \in 1..(m + n) /\ i <= m
      BY <2>1
    <2>3. \A i \in 1..n : m + i \in 1..(m + n) /\ ~ (m + i <= m) /\ (m + i) - m = i
      BY <2>1
    <2> QED
      BY <2>1, <2>2, <2>3
  <1> HIDE DEF u, m, n
  <1>2. PICK f : Counted(s, f) /\ CountTokens(s) = f[m]
    BY CountIs DEF m
  <1>3. PICK g : Counted(t, g) /\ CountTokens(t) = g[n]
    BY CountIs DEF n
  <1>4. PICK h : Counted(u, h) /\ CountTokens(u) = h[m + n]
    BY <1>1, CountIs
  <1> DEFINE W == [i \in 0..m |-> {f[i]}]
             X == [i \in 0..n |-> {f[m] + g[i]}]
             at == [i \in 0..n |-> h[m + i]]
  <1>5. \A i \in 0..m : W[i] = {f[i]}
    OBVIOUS
  <1>6. \A i \in 0..n : X[i] = {f[m] + g[i]} /\ at[i] = h[m + i]
    OBVIOUS
  <1> HIDE DEF W, X, at
  <1>7. /\ \A i \in 1..m : i - 1 \in 0..m /\ i \in 0..m /\ i \in 1..(m + n)
        /\ \A i \in 1..n : /\ i - 1 \in 0..n /\ i \in 0..n /\ m + i \in 1..(m + n)
                           /\ (m + i) - 1 = m + (i - 1)
        /\ 0 \in 0..m /\ m \in 0..m /\ 0 \in 0..n /\ n \in 0..n /\ m + 0 = m
    BY <1>1
  <1>8. h[m] = f[m] /\ f[m] \in Nat
    <2>1. ASSUME NEW i \in 1..m, h[i - 1] \in W[i - 1] PROVE h[i] \in W[i]
      <3>1. h[i] = h[i - 1] + u[i].tokens
        BY <1>1, <1>4, <1>7 DEF Counted
      <3>2. f[i] = f[i - 1] + s[i].tokens
        BY <1>2 DEF Counted, m
      <3>3. h[i - 1] = f[i - 1] /\ W[i] = {f[i]} /\ u[i] = s[i]
        BY <1>1, <1>5, <1>7, <2>1
      <3> QED
        BY <3>1, <3>2, <3>3
    <2>2. h[0] \in W[0]
      BY <1>2, <1>4, <1>5, <1>7 DEF Counted
    <2>3. \A i \in 0..m : h[i] \in W[i]
      BY <1>1, <2>1, <2>2, RecursionStays
    <2>4. f[m] \in Nat
      BY <1>2, <1>7 DEF Counted, m
    <2> QED
      BY <1>5, <1>7, <2>3, <2>4
  <1>9. ASSUME NEW i \in 1..n, at[i - 1] \in X[i - 1] PROVE at[i] \in X[i]
    <2>1. h[m + i] = h[m + (i - 1)] + u[m + i].tokens
      BY <1>1, <1>4, <1>7 DEF Counted
    <2>2. g[i] = g[i - 1] + t[i].tokens
      BY <1>3 DEF Counted, n
    <2>3. h[m + (i - 1)] = f[m] + g[i - 1] /\ u[m + i] = t[i]
      BY <1>1, <1>6, <1>7, <1>9
    <2>4. g[i - 1] \in Nat
      BY <1>3, <1>7 DEF Counted, n
    <2>5. t[i].tokens \in Nat
      <3>1. t[i] \in Word
        BY ElementOfSeq DEF n
      <3> QED
        BY <3>1 DEF Word
    <2>6. \A a, b, c \in Nat : (a + b) + c = a + (b + c)
      OBVIOUS
    <2>7. h[m + i] = f[m] + g[i]
      BY <1>8, <2>1, <2>2, <2>3, <2>4, <2>5, <2>6
    <2> QED
      BY <1>6, <1>7, <2>7
  <1>10. at[0] \in X[0]
    <2>1. g[0] = 0 /\ at[0] = h[m] /\ X[0] = {f[m] + g[0]}
      BY <1>3, <1>6, <1>7 DEF Counted
    <2>2. f[m] + 0 = f[m]
      BY <1>8
    <2> QED
      BY <1>8, <2>1, <2>2
  <1>11. \A i \in 0..n : at[i] \in X[i]
    BY <1>1, <1>9, <1>10, RecursionStays
  <1>12. h[m + n] = f[m] + g[n]
    BY <1>6, <1>7, <1>11
  <1> QED
    BY <1>2, <1>3, <1>4, <1>12 DEF u

\* What split_inclusive has cut of the first i words.
CutOf(words, i) ==
    {cut \in [done : Seq(Seq(Word)), open : Seq(Word)] :
        FlattenSeq(cut.done) \o cut.open = SubSeq(words, 1, i)}

CutRun(words) ==
    CHOOSE f : f = [i \in 0 .. Len(words) |->
            IF i = 0 THEN [done |-> <<>>, open |-> <<>>] ELSE Read(f[i - 1], words[i])]

LEMMA SentencesIsRun ==
    ASSUME NEW words
    PROVE  RawSentences(words) = LET all == CutRun(words)[Len(words)]
                                 IN  IF all.open = <<>> THEN all.done
                                     ELSE Append(all.done, all.open)
  BY DEF RawSentences, CutRun

LEMMA WordsAssociate ==
    \A a, b, c \in Seq(Word) : (a \o b) \o c = a \o (b \o c)
  BY Associates

LEMMA ReadMore ==
    ASSUME NEW words \in Seq(Word), NEW i \in 1..Len(words), NEW cut \in CutOf(words, i - 1)
    PROVE  Read(cut, words[i]) \in CutOf(words, i)
  <1> DEFINE w == words[i]
             d == cut.done
             o == cut.open
             all == FlattenSeq(d)
  <1>1. w \in Word /\ SubSeq(words, 1, i) = Append(SubSeq(words, 1, i - 1), w)
    BY FirstMore
  <1>2. d \in Seq(Seq(Word)) /\ o \in Seq(Word) /\ all \o o = SubSeq(words, 1, i - 1)
    BY DEF CutOf
  <1>3. all \in Seq(Word)
    BY <1>2, FlattenType
  <1>4. Read(cut, w) = IF w.ends = "mark" THEN [done |-> Append(d, Append(o, w)), open |-> <<>>]
                       ELSE [done |-> d, open |-> Append(o, w)]
    BY DEF Read
  <1>5. Append(o, w) \in Seq(Word) /\ Append(o, w) = o \o <<w>> /\ <<w>> \in Seq(Word)
    BY <1>1, <1>2, AppendIsConcat, AppendProperties
  <1> HIDE DEF w, d, o
  <1>6. SubSeq(words, 1, i) = all \o Append(o, w)
    <2> HIDE DEF all
    <2>1. all \o o \in Seq(Word)
      BY <1>2, <1>3, ConcatProperties
    <2>2. Append(all \o o, w) = (all \o o) \o <<w>>
      BY <1>1, <2>1, AppendIsConcat
    <2>3. (all \o o) \o <<w>> = all \o (o \o <<w>>)
      <3> DEFINE one == <<w>>
      <3>1. one \in Seq(Word)
        BY <1>5
      <3> HIDE DEF one
      <3>3. (all \o o) \o one = all \o (o \o one)
        BY <1>2, <1>3, <3>1, WordsAssociate
      <3> QED
        BY <3>3 DEF one
    <2> QED
      BY <1>1, <1>2, <1>5, <2>2, <2>3
  <1>7. CASE w.ends = "mark"
    <2> DEFINE s == Append(o, w)
               e == Append(d, s)
    <2>1. s \in Seq(Word) /\ SubSeq(words, 1, i) = all \o s
      BY <1>5, <1>6
    <2> HIDE DEF s
    <2>2. e \in Seq(Seq(Word)) /\ FlattenSeq(e) = all \o s
      BY <1>2, <2>1, AppendProperties, FlattenAppend
    <2>3. FlattenSeq(e) \in Seq(Word)
      BY <2>2, FlattenType
    <2> HIDE DEF e
    <2>4. FlattenSeq(e) \o <<>> = SubSeq(words, 1, i)
      BY <2>1, <2>2, <2>3, ConcatEmptySeq
    <2>5. [done |-> e, open |-> <<>>] \in CutOf(words, i)
      <3>1. <<>> \in Seq(Word) /\ e \in Seq(Seq(Word))
        BY <2>2
      <3> DEFINE r == [done |-> e, open |-> <<>>]
      <3>2. r \in [done : Seq(Seq(Word)), open : Seq(Word)]
        BY <3>1
      <3>3. r.done = e /\ r.open = <<>>
        OBVIOUS
      <3> HIDE DEF r
      <3>4. r \in CutOf(words, i)
        BY <2>4, <3>2, <3>3 DEF CutOf
      <3> QED
        BY <3>4 DEF r
    <2> QED
      BY <1>4, <1>7, <2>5 DEF e, s, w
  <1>8. CASE w.ends # "mark"
    <2> DEFINE s == Append(o, w)
    <2>1. s \in Seq(Word) /\ SubSeq(words, 1, i) = all \o s
      BY <1>5, <1>6
    <2> HIDE DEF s
    <2>2. [done |-> d, open |-> s] \in CutOf(words, i)
      BY <1>2, <2>1 DEF CutOf
    <2> QED
      BY <1>4, <1>8, <2>2 DEF s, w
  <1> QED
    BY <1>7, <1>8

\* The sentences of a text are all its words, in their order.
LEMMA SentencesKeep ==
    ASSUME NEW words \in Seq(Word)
    PROVE  RawSentences(words) \in Seq(Seq(Word)) /\ FlattenSeq(RawSentences(words)) = words
  <1> DEFINE n == Len(words)
             none == [done |-> <<>>, open |-> <<>>]
             V == [i \in 0..n |-> CutOf(words, i)]
             G == [q \in (1..n) \X UNION {CutOf(words, i) : i \in 0..n} |-> Read(q[2], words[q[1]])]
             run == CutRun(words)
  <1>0. /\ n \in Nat /\ \A i \in 1..n : i \in 0..n /\ i - 1 \in 0..n /\ i # 0
        /\ \A i \in 0..n : i # 0 => i \in 1..n
        /\ 0 \in 0..n /\ n \in 0..n
    OBVIOUS
  <1>1. ASSUME NEW i \in 1..n, NEW c \in CutOf(words, i - 1)
        PROVE  G[<<i, c>>] = Read(c, words[i]) /\ Read(c, words[i]) \in CutOf(words, i)
    <2>1. c \in UNION {CutOf(words, k) : k \in 0..n}
      BY <1>0
    <2>2. <<i, c>> \in (1..n) \X UNION {CutOf(words, k) : k \in 0..n}
      BY <2>1
    <2>3. G[<<i, c>>] = Read(c, words[i])
      BY <2>2
    <2>4. i \in 1..Len(words)
      OBVIOUS
    <2> QED
      BY <2>3, <2>4, ReadMore
  <1>2. \A i \in 0..n : V[i] = CutOf(words, i)
    OBVIOUS
  <1>3. none \in CutOf(words, 0)
    <2>1. FlattenSeq(<<>>) = <<>> /\ SubSeq(words, 1, 0) = <<>>
      BY FlattenEmpty, SubSeqEmpty
    <2>2. <<>> \in Seq(Word) /\ <<>> \in Seq(Seq(Word))
      OBVIOUS
    <2>3. <<>> \o <<>> = <<>>
      BY <2>2, ConcatEmptySeq
    <2>4. none \in [done : Seq(Seq(Word)), open : Seq(Word)] /\ none.done = <<>> /\ none.open = <<>>
      BY <2>2
    <2> HIDE DEF none
    <2> QED
      BY <2>1, <2>3, <2>4 DEF CutOf
  <1> HIDE DEF n, V, G, none
  <1>4. PICK g : Solves(n, V, none, G, g)
    <2>1. ASSUME NEW i \in 1..n, NEW s \in V[i - 1] PROVE G[<<i, s>>] \in V[i]
      <3>1. s \in CutOf(words, i - 1) /\ V[i] = CutOf(words, i)
        BY <1>0, <1>2
      <3> QED
        BY <1>1, <3>1
    <2>2. StaysIn(n, V, G)
      BY <2>1 DEF StaysIn
    <2>3. none \in V[0]
      BY <1>0, <1>2, <1>3
    <2> QED
      BY <1>0, <2>2, <2>3, RecursionExists
  <1>5. g = [i \in 0..n |-> g[i]] /\ g[0] = none
    BY <1>4 DEF Solves
  <1>6. ASSUME NEW i \in 1..n PROVE g[i] = Read(g[i - 1], words[i])
    <2>1. g[i] = G[<<i, g[i - 1]>>] /\ g[i - 1] \in V[i - 1]
      BY <1>0, <1>4 DEF Solves
    <2>2. g[i - 1] \in CutOf(words, i - 1)
      BY <1>0, <1>2, <2>1
    <2> QED
      BY <1>1, <2>1, <2>2
  <1>7. g = [i \in 0..n |-> IF i = 0 THEN none ELSE Read(g[i - 1], words[i])]
    BY <1>0, <1>5, <1>6
  <1>8. run = [i \in 0..n |-> IF i = 0 THEN none ELSE Read(run[i - 1], words[i])]
    BY <1>7 DEF CutRun, n, none
  <1> HIDE DEF run
  <1>9. run[0] = none /\ \A i \in 1..n : run[i] = Read(run[i - 1], words[i])
    BY <1>0, <1>8
  <1>10. ASSUME NEW i \in 1..n, run[i - 1] \in V[i - 1] PROVE run[i] \in V[i]
    <2>1. run[i - 1] \in CutOf(words, i - 1) /\ V[i] = CutOf(words, i)
      BY <1>0, <1>2, <1>10
    <2>2. Read(run[i - 1], words[i]) \in CutOf(words, i)
      BY <1>1, <2>1
    <2> QED
      BY <1>9, <2>1, <2>2
  <1>11. run[0] \in V[0]
    BY <1>0, <1>2, <1>3, <1>9
  <1>12. \A i \in 0..n : run[i] \in V[i]
    BY <1>0, <1>10, <1>11, RecursionStays
  <1> DEFINE all == run[n]
             d == all.done
             o == all.open
  <1>13. all \in CutOf(words, n)
    BY <1>0, <1>2, <1>12
  <1>14. RawSentences(words) = IF o = <<>> THEN d ELSE Append(d, o)
    BY SentencesIsRun DEF run, n
  <1> HIDE DEF all
  <1>15. d \in Seq(Seq(Word)) /\ o \in Seq(Word) /\ FlattenSeq(d) \o o = words
    <2>1. SubSeq(words, 1, n) = words
      BY SubSeqFull DEF n
    <2> QED
      BY <1>13, <2>1 DEF CutOf
  <1> HIDE DEF d, o
  <1>16. CASE o = <<>>
    <2>1. FlattenSeq(d) \in Seq(Word)
      BY <1>15, FlattenType
    <2>2. FlattenSeq(d) \o <<>> = FlattenSeq(d)
      BY <2>1, ConcatEmptySeq
    <2> QED
      BY <1>14, <1>15, <1>16, <2>2
  <1>17. CASE o # <<>>
    <2>1. Append(d, o) \in Seq(Seq(Word)) /\ FlattenSeq(Append(d, o)) = FlattenSeq(d) \o o
      BY <1>15, AppendProperties, FlattenAppend
    <2> QED
      BY <1>14, <1>15, <1>17, <2>1
  <1> QED
    BY <1>16, <1>17

------------------------------------------------------------------------------
\* A chunk within the limit, or half a batch at most.
SmallChunk(c) == CountTokens(c) <= MaxTokens \/ 2 * Len(c) <= WordsPerBatch + 1
SmallChunks == {c \in Seq(Word) : SmallChunk(c)}

LEMMA HalvedKeeps ==
    ASSUME NEW b \in Seq(Word), Len(b) <= WordsPerBatch
    PROVE  Halved(b) \in Seq(SmallChunks) /\ FlattenSeq(Halved(b)) = b
  <1> DEFINE n == Len(b)
             mid == n \div 2
             one == SubSeq(b, 1, mid)
             two == SubSeq(b, mid + 1, n)
  <1>1. CASE CountTokens(b) <= MaxTokens
    <2>1. Halved(b) = <<b>> /\ b \in SmallChunks
      BY <1>1 DEF Halved, SmallChunks, SmallChunk
    <2>2. <<b>> \in Seq(SmallChunks) /\ FlattenSeq(<<b>>) = b
      <3>1. <<b>> \in Seq(SmallChunks)
        BY <2>1
      <3> QED
        BY <3>1, FlattenOne
    <2> QED
      BY <2>1, <2>2
  <1>2. CASE ~ (CountTokens(b) <= MaxTokens)
    <2>1. Halved(b) = <<one, two>>
      BY <1>2 DEF Halved
    <2>2. n \in Nat /\ mid \in Nat /\ mid <= n /\ 2 * mid <= n /\ 2 * (n - mid) <= n + 1
      OBVIOUS
    <2> HIDE DEF mid, n
    <2>3. one \in Seq(Word) /\ Len(one) = mid
      <3>1. mid \in 0..Len(b)
        BY <2>2 DEF n
      <3> QED
        BY <3>1, FirstType
    <2>4. two \in Seq(Word) /\ Len(two) = n - mid
      <3>1. \A i \in (mid + 1)..n : b[i] \in Word
        BY <2>2, ElementOfSeq DEF n
      <3>2. mid + 1 \in Int /\ n \in Int
        BY <2>2
      <3>3. two \in Seq(Word) /\ Len(two) = IF mid + 1 <= n THEN n - (mid + 1) + 1 ELSE 0
        <4> HIDE DEF one
        <4> QED
          BY <3>1, <3>2, SubSeqProperties
      <3> QED
        BY <2>2, <3>3
    <2>5. one \o two = b
      <3>1. 1 \in 1..Len(b) + 1 /\ mid \in (1 - 1)..Len(b) /\ Len(b) \in mid..Len(b)
        BY <2>2 DEF n
      <3>2. one \o two = SubSeq(b, 1, Len(b))
        BY <3>1, ConcatAdjacentSubSeq DEF n
      <3> QED
        BY <3>2, SubSeqFull
    <2> HIDE DEF one, two
    <2>6. WordsPerBatch \in Nat
      BY TextAssumption
    <2>7. one \in SmallChunks /\ two \in SmallChunks
      <3>1. 2 * Len(one) <= WordsPerBatch + 1 /\ 2 * Len(two) <= WordsPerBatch + 1
        BY <2>2, <2>3, <2>4, <2>6 DEF n
      <3> QED
        BY <2>3, <2>4, <3>1 DEF SmallChunks, SmallChunk
    <2>8. <<one, two>> \in Seq(SmallChunks)
      BY <2>7, PairIs
    <2>9. FlattenSeq(<<one, two>>) = one \o two
      BY <2>3, <2>4, FlattenTwo
    <2> QED
      BY <2>1, <2>5, <2>8, <2>9
  <1> QED
    BY <1>1, <1>2

\* Where the i-th batch ends.
BatchEnd(words, i) == IF i * WordsPerBatch < Len(words) THEN i * WordsPerBatch ELSE Len(words)

LEMMA BatchIs ==
    ASSUME NEW words \in Seq(Word)
    PROVE  /\ Len(Batches(words)) \in Nat
           /\ DOMAIN Batches(words) = 1..Len(Batches(words))
           /\ BatchEnd(words, Len(Batches(words))) = Len(words)
           /\ BatchEnd(words, 0) = 0
           /\ \A i \in 1..Len(Batches(words)) :
                 /\ BatchEnd(words, i - 1) = (i - 1) * WordsPerBatch
                 /\ BatchEnd(words, i) \in BatchEnd(words, i - 1)..Len(words)
                 /\ BatchEnd(words, i) - BatchEnd(words, i - 1) <= WordsPerBatch
                 /\ Batches(words)[i] = SubSeq(words, BatchEnd(words, i - 1) + 1, BatchEnd(words, i))
  <1> DEFINE len == Len(words)
             w == WordsPerBatch
             n == (len + w - 1) \div w
             bs == Batches(words)
  <1>1. len \in Nat /\ w \in Nat /\ w > 0
    BY TextAssumption
  <1>2. n \in Nat /\ n * w >= len /\ n * w <= len + w - 1
    <2>1. \A a \in Nat, k \in Nat \ {0} : /\ a \div k \in Nat
                                          /\ (a \div k) * k <= a
                                          /\ a < (a \div k) * k + k
      BY SMTT(60)
    <2>2. len + w - 1 \in Nat /\ w \in Nat \ {0}
      BY <1>1
    <2> DEFINE p == n * w
    <2>3. n \in Nat /\ p <= len + w - 1 /\ len + w - 1 < p + w
      BY <2>1, <2>2
    <2>4. p \in Nat
      BY <1>1, <2>3
    <2> HIDE DEF p
    <2>5. p >= len
      BY <1>1, <2>3, <2>4
    <2> QED
      BY <2>3, <2>5 DEF p
  <1>3. bs = [i \in 1..n |-> SubSeq(words, (i - 1) * w + 1, IF i * w < len THEN i * w ELSE len)]
    BY DEF Batches
  <1> HIDE DEF bs, n
  <1>4. Len(bs) = n /\ DOMAIN bs = 1..n
    BY <1>2, <1>3
  <1> HIDE DEF len, w
  <1>5. \A i : BatchEnd(words, i) = IF i * w < len THEN i * w ELSE len
    BY DEF BatchEnd, len, w
  <1>6. BatchEnd(words, n) = len
    <2>1. ~ (n * w < len)
      <3> DEFINE p == n * w
      <3>1. p \in Nat /\ p >= len
        BY <1>1, <1>2
      <3> HIDE DEF p
      <3>2. ~ (p < len)
        BY <1>1, <3>1
      <3> QED
        BY <3>2 DEF p
    <2> QED
      BY <1>5, <2>1
  <1>7. BatchEnd(words, 0) = 0
    <2>1. 0 * w = 0
      BY <1>1
    <2> QED
      BY <1>1, <1>5, <2>1
  <1>8. ASSUME NEW i \in 1..n
        PROVE  /\ BatchEnd(words, i - 1) = (i - 1) * w
               /\ BatchEnd(words, i) \in BatchEnd(words, i - 1)..len
               /\ BatchEnd(words, i) - BatchEnd(words, i - 1) <= w
               /\ bs[i] = SubSeq(words, BatchEnd(words, i - 1) + 1, BatchEnd(words, i))
    <2> DEFINE a == (i - 1) * w
               b == i * w
               p == n * w
    <2>1. a \in Nat /\ b = a + w /\ p \in Nat /\ p <= len + w - 1
      BY <1>1, <1>2
    <2>2. b <= p
      <3>1. \A x, y, z \in Nat : x <= y => x * z <= y * z
        BY SMTT(60)
      <3>2. i \in Nat /\ i <= n
        BY <1>2
      <3> QED
        BY <1>1, <1>2, <3>1, <3>2
    <2>3. /\ BatchEnd(words, i - 1) = IF a < len THEN a ELSE len
          /\ BatchEnd(words, i) = IF b < len THEN b ELSE len
      BY <1>5
    <2>4. bs[i] = SubSeq(words, a + 1, IF b < len THEN b ELSE len)
      BY <1>3
    <2> HIDE DEF a, b, p
    <2>5. a < len
      BY <1>1, <2>1, <2>2
    <2>6. BatchEnd(words, i - 1) = a
      BY <2>3, <2>5
    <2>7. BatchEnd(words, i) \in a..len /\ BatchEnd(words, i) - a <= w
      BY <1>1, <2>1, <2>3, <2>5
    <2> QED
      BY <2>3, <2>4, <2>6, <2>7 DEF a
  <1> QED
    BY <1>4, <1>6, <1>7, <1>8 DEF bs, len, w

LEMMA BatchSmall ==
    ASSUME NEW words \in Seq(Word), NEW i \in 1..Len(Batches(words))
    PROVE  /\ Batches(words)[i] \in Seq(Word)
           /\ Halved(Batches(words)[i]) \in Seq(SmallChunks)
           /\ FlattenSeq(Halved(Batches(words)[i])) = Batches(words)[i]
           /\ SubSeq(words, 1, BatchEnd(words, i - 1)) \in Seq(Word)
           /\ SubSeq(words, 1, BatchEnd(words, i - 1)) \o Batches(words)[i]
                = SubSeq(words, 1, BatchEnd(words, i))
  <1> DEFINE a == BatchEnd(words, i - 1)
             b == BatchEnd(words, i)
             batch == Batches(words)[i]
             len == Len(words)
  <1>1. a = (i - 1) * WordsPerBatch /\ b \in a..len /\ b - a <= WordsPerBatch
        /\ batch = SubSeq(words, a + 1, b)
    BY BatchIs
  <1>2. a \in Nat /\ len \in Nat
    <2>1. WordsPerBatch \in Nat /\ i - 1 \in Nat
      BY TextAssumption
    <2> QED
      BY <1>1, <2>1
  <1> HIDE DEF a, b, batch
  <1>3. \A k \in (a + 1)..b : words[k] \in Word
    <2>1. \A k \in (a + 1)..b : k \in 1..Len(words)
      BY <1>1, <1>2
    <2> QED
      BY <2>1, ElementOfSeq
  <1>4. a + 1 \in Int /\ b \in Int
    BY <1>1, <1>2
  <1>5. batch \in Seq(Word) /\ Len(batch) = IF a + 1 <= b THEN b - (a + 1) + 1 ELSE 0
    BY <1>1, <1>3, <1>4, SubSeqProperties
  <1>6. Len(batch) <= WordsPerBatch
    <2>1. WordsPerBatch \in Nat
      BY TextAssumption
    <2> HIDE DEF len
    <2> QED
      BY <1>1, <1>2, <1>5, <2>1
  <1>7. Halved(batch) \in Seq(SmallChunks) /\ FlattenSeq(Halved(batch)) = batch
    BY <1>5, <1>6, HalvedKeeps
  <1>8. a \in 0..Len(words) /\ b \in 0..Len(words)
    BY <1>1, <1>2
  <1>9. SubSeq(words, 1, a) \in Seq(Word)
    BY <1>8, FirstType
  <1>10. SubSeq(words, 1, a) \o SubSeq(words, a + 1, b) = SubSeq(words, 1, b)
    <2>1. 1 \in 1..Len(words) + 1 /\ a \in (1 - 1)..Len(words) /\ b \in a..Len(words)
      BY <1>1, <1>8
    <2> QED
      BY <2>1, ConcatAdjacentSubSeq
  <1> QED
    BY <1>1, <1>5, <1>7, <1>9, <1>10 DEF a, b, batch

\* What the first i batches of a long sentence are cut into.
CutInto(words, i) ==
    {c \in Seq(SmallChunks) : FlattenSeq(c) = SubSeq(words, 1, BatchEnd(words, i))}

\* A sentence over the limit is cut into small chunks, and into nothing else.
LEMMA LongKeeps ==
    ASSUME NEW words \in Seq(Word)
    PROVE  LongSentence(words) \in Seq(SmallChunks) /\ FlattenSeq(LongSentence(words)) = words
  <1> DEFINE bs == Batches(words)
             n == Len(bs)
             halves == [i \in 1..n |-> Halved(bs[i])]
             End(i) == BatchEnd(words, i)
  <1>1. n \in Nat /\ DOMAIN bs = 1..n /\ End(n) = Len(words) /\ End(0) = 0
    BY BatchIs
  <1>2. \A i \in 1..n : /\ bs[i] \in Seq(Word) /\ Halved(bs[i]) \in Seq(SmallChunks)
                        /\ FlattenSeq(Halved(bs[i])) = bs[i]
                        /\ SubSeq(words, 1, End(i - 1)) \in Seq(Word)
                        /\ SubSeq(words, 1, End(i - 1)) \o bs[i] = SubSeq(words, 1, End(i))
    BY BatchSmall
  <1>3. LongSentence(words) = FlattenSeq(halves)
    BY <1>1 DEF LongSentence
  <1> HIDE DEF bs, n, End
  <1>4. halves \in Seq(Seq(SmallChunks)) /\ Len(halves) = n /\ \A i \in 1..n : halves[i] = Halved(bs[i])
    <2>1. \A i \in 1..n : Halved(bs[i]) \in Seq(SmallChunks)
      BY <1>2
    <2> QED
      BY <1>1, <2>1
  <1> HIDE DEF halves
  <1>5. PICK f : Joined(SmallChunks, halves, f) /\ FlattenSeq(halves) = f[n]
    BY <1>4, FlattenIs
  <1> DEFINE W == [i \in 0..n |-> CutInto(words, i)]
  <1>6. \A i \in 0..n : W[i] = CutInto(words, i)
    OBVIOUS
  <1> HIDE DEF W
  <1>7. \A i \in 1..n : i - 1 \in 0..n /\ i \in 0..n
    BY <1>1
  <1>8. 0 \in 0..n /\ n \in 0..n
    BY <1>1
  <1>9. ASSUME NEW i \in 1..n, f[i - 1] \in W[i - 1] PROVE f[i] \in W[i]
    <2> DEFINE c == f[i - 1]
               h == Halved(bs[i])
    <2>1. f[i] = c \o h
      BY <1>4, <1>5 DEF Joined
    <2>2. c \in Seq(SmallChunks) /\ FlattenSeq(c) = SubSeq(words, 1, End(i - 1))
      <3>1. c \in CutInto(words, i - 1)
        BY <1>6, <1>7, <1>9
      <3> QED
        BY <3>1 DEF CutInto, End
    <2>3. h \in Seq(SmallChunks) /\ FlattenSeq(h) = bs[i]
      BY <1>2
    <2> HIDE DEF c, h
    <2>4. SmallChunks \subseteq Seq(Word)
      BY DEF SmallChunks
    <2>5. c \in Seq(Seq(Word)) /\ h \in Seq(Seq(Word))
      BY <2>2, <2>3, <2>4, SeqMonotonic
    <2>6. FlattenSeq(c \o h) = FlattenSeq(c) \o FlattenSeq(h)
      BY <2>5, FlattenConcat
    <2>7. FlattenSeq(c \o h) = SubSeq(words, 1, End(i))
      BY <1>2, <2>2, <2>3, <2>6
    <2>8. c \o h \in Seq(SmallChunks)
      BY <2>2, <2>3, ConcatProperties
    <2>9. c \o h \in CutInto(words, i)
      BY <2>7, <2>8 DEF CutInto, End
    <2>10. W[i] = CutInto(words, i)
      BY <1>6, <1>7
    <2> QED
      BY <2>1, <2>9, <2>10
  <1>10. f[0] \in W[0]
    <2>1. f[0] = <<>> /\ <<>> \in Seq(SmallChunks)
      BY <1>5 DEF Joined
    <2>2. SubSeq(words, 1, 0) = <<>>
      BY SubSeqEmpty
    <2>3. FlattenSeq(<<>>) = SubSeq(words, 1, End(0))
      BY <1>1, <2>2, FlattenEmpty
    <2>4. <<>> \in CutInto(words, 0)
      BY <2>1, <2>3 DEF CutInto, End
    <2>5. W[0] = CutInto(words, 0)
      BY <1>6, <1>8
    <2> QED
      BY <2>1, <2>4, <2>5
  <1>11. \A i \in 0..n : f[i] \in W[i]
    BY <1>1, <1>9, <1>10, RecursionStays
  <1>12. f[n] \in Seq(SmallChunks) /\ FlattenSeq(f[n]) = SubSeq(words, 1, Len(words))
    <2>1. f[n] \in CutInto(words, n)
      BY <1>6, <1>8, <1>11
    <2> QED
      BY <1>1, <2>1 DEF CutInto, End
  <1> QED
    BY <1>3, <1>5, <1>12, SubSeqFull

------------------------------------------------------------------------------
\* The first i sentences, joined.
FirstSentences(whole, i) == FlattenSeq(SubSeq(whole, 1, i))

\* No cut falls inside one of the first k sentences that is within the limit.
CutsClear(whole, chunks, k) ==
    \A j \in 1..k : CountTokens(whole[j]) <= MaxTokens =>
        \A c \in 0..Len(chunks) : \/ Upto(chunks, c) <= Upto(whole, j - 1)
                                  \/ Upto(chunks, c) >= Upto(whole, j)

\* What the chunks made of the first k sentences are.
Good(whole, k) ==
    {st \in [done : Seq(SmallChunks), current : [words : Seq(Word), tokens : Nat]] :
        /\ st.current.tokens = CountTokens(st.current.words)
        /\ st.current.tokens <= MaxTokens
        /\ FlattenSeq(st.done) \o st.current.words = FirstSentences(whole, k)
        /\ CutsClear(whole, st.done, k)}

LEMMA SmallWords == SmallChunks \subseteq Seq(Word) /\ Seq(SmallChunks) \subseteq Seq(Seq(Word))
  <1>1. SmallChunks \subseteq Seq(Word)
    BY DEF SmallChunks
  <1> QED
    BY <1>1, SeqMonotonic

LEMMA UptoGrows ==
    ASSUME NEW S, NEW ss \in Seq(Seq(S)), NEW b \in 0..Len(ss), NEW a \in 0..b
    PROVE  Upto(ss, a) \in Nat /\ Upto(ss, b) \in Nat /\ Upto(ss, a) <= Upto(ss, b)
  <1> DEFINE tt == SubSeq(ss, 1, b)
  <1>1. tt \in Seq(Seq(S)) /\ Len(tt) = b
    BY FirstType
  <1>2. SubSeq(tt, 1, a) = SubSeq(ss, 1, a)
    <2>1. CASE a = 0
      BY <2>1, SubSeqEmpty
    <2>2. CASE a # 0
      <3>1. 1 \in 1..Len(ss) /\ b \in 1..Len(ss) /\ 1 \in 1..b - 1 + 1 /\ a \in 1..b - 1 + 1
            /\ 1 + 1 - 1 = 1 /\ 1 + a - 1 = a
        BY <2>2
      <3>2. SubSeq(SubSeq(ss, 1, b), 1, a) = SubSeq(ss, 1 + 1 - 1, 1 + a - 1)
        BY <3>1, SubSeqOfSubSeq
      <3> QED
        BY <3>1, <3>2
    <2> QED
      BY <2>1, <2>2
  <1>3. Upto(tt, a) = Upto(ss, a) /\ Upto(ss, b) = Len(FlattenSeq(tt))
    BY <1>2 DEF Upto
  <1> HIDE DEF tt
  <1>4. a \in 0..Len(tt)
    BY <1>1
  <1> QED
    BY <1>1, <1>3, <1>4, UptoType

LEMMA FirstSentencesMore ==
    ASSUME NEW whole \in Seq(Seq(Word)), NEW i \in 1..Len(whole)
    PROVE  /\ FirstSentences(whole, i - 1) \in Seq(Word)
           /\ FirstSentences(whole, i) = FirstSentences(whole, i - 1) \o whole[i]
           /\ Upto(whole, i - 1) = Len(FirstSentences(whole, i - 1))
  <1> DEFINE p == SubSeq(whole, 1, i - 1)
             s == whole[i]
  <1>1. p \in Seq(Seq(Word)) /\ SubSeq(whole, 1, i) = Append(p, s)
    BY FirstMore
  <1>2. s \in Seq(Word)
    BY ElementOfSeq
  <1> HIDE DEF p, s
  <1>3. FlattenSeq(Append(p, s)) = FlattenSeq(p) \o s
    BY <1>1, <1>2, FlattenAppend
  <1>4. FlattenSeq(p) \in Seq(Word)
    BY <1>1, FlattenType
  <1> QED
    BY <1>1, <1>3, <1>4 DEF FirstSentences, Upto, p, s

\* Flush ends a chunk where the last sentence ended.
LEMMA FlushKeeps ==
    ASSUME NEW whole \in Seq(Seq(Word)), NEW k \in 0..Len(whole), NEW st \in Good(whole, k)
    PROVE  /\ Flush(st) \in Seq(SmallChunks)
           /\ FlattenSeq(Flush(st)) = FirstSentences(whole, k)
           /\ CutsClear(whole, Flush(st), k)
  <1> DEFINE d == st.done
             w == st.current.words
             all == FirstSentences(whole, k)
  <1>1. /\ d \in Seq(SmallChunks) /\ w \in Seq(Word)
        /\ CountTokens(w) <= MaxTokens
        /\ FlattenSeq(d) \o w = all /\ CutsClear(whole, d, k)
    BY DEF Good
  <1>2. Flush(st) = IF w = <<>> THEN d ELSE Append(d, w)
    BY DEF Flush
  <1>3. d \in Seq(Seq(Word))
    BY <1>1, SmallWords
  <1>4. FlattenSeq(d) \in Seq(Word)
    BY <1>3, FlattenType
  <1> HIDE DEF d, w, all
  <1>5. CASE w = <<>>
    <2>1. FlattenSeq(d) \o <<>> = FlattenSeq(d)
      BY <1>4, ConcatEmptySeq
    <2> QED
      BY <1>1, <1>2, <1>5, <2>1 DEF all
  <1>6. CASE w # <<>>
    <2> DEFINE e == Append(d, w)
    <2>1. w \in SmallChunks
      BY <1>1 DEF SmallChunks, SmallChunk
    <2>2. e \in Seq(SmallChunks) /\ Len(e) = Len(d) + 1 /\ Len(d) \in Nat
      BY <1>1, <2>1, AppendProperties
    <2>3. FlattenSeq(e) = FlattenSeq(d) \o w
      BY <1>1, <1>3, FlattenAppend
    <2>4. e = d \o <<w>> /\ <<w>> \in Seq(Seq(Word))
      <3>1. e = d \o <<w>>
        BY <1>1, <1>3, AppendIsConcat
      <3>2. <<w>> \in Seq(Seq(Word))
        BY <1>1, PairIs
      <3> QED
        BY <3>1, <3>2
    <2>5. e \in Seq(Seq(Word))
      BY <2>2, SmallWords
    <2> HIDE DEF e
    <2>6. ASSUME NEW j \in 1..k, CountTokens(whole[j]) <= MaxTokens, NEW c \in 0..Len(e)
          PROVE  Upto(e, c) <= Upto(whole, j - 1) \/ Upto(e, c) >= Upto(whole, j)
      <3>1. CASE c <= Len(d)
        <4>1. c \in 0..Len(d)
          BY <2>2, <3>1
        <4>2. Upto(d \o <<w>>, c) = Upto(d, c)
          BY <1>3, <2>4, <4>1, UptoFirst
        <4>3. Upto(d, c) <= Upto(whole, j - 1) \/ Upto(d, c) >= Upto(whole, j)
          BY <1>1, <2>6, <4>1 DEF CutsClear
        <4> QED
          BY <2>4, <4>2, <4>3
      <3>2. CASE ~ (c <= Len(d))
        <4>1. c = Len(e)
          BY <2>2, <3>2
        <4>2. SubSeq(e, 1, Len(e)) = e
          BY <2>5, SubSeqFull
        <4>3. Upto(e, c) = Len(all)
          BY <1>1, <2>3, <4>1, <4>2 DEF Upto
        <4>4. Upto(whole, k) = Len(all)
          BY DEF Upto, all, FirstSentences
        <4>5. k \in 0..Len(whole) /\ j \in 0..k
          OBVIOUS
        <4>6. Upto(whole, j) <= Upto(whole, k) /\ Upto(whole, j) \in Nat /\ Upto(whole, k) \in Nat
          BY <4>5, UptoGrows
        <4> QED
          BY <4>3, <4>4, <4>6
      <3> QED
        BY <3>1, <3>2
    <2>7. CutsClear(whole, e, k)
      BY <2>6 DEF CutsClear
    <2> QED
      BY <1>1, <1>2, <1>6, <2>2, <2>3, <2>7 DEF e, all
  <1> QED
    BY <1>5, <1>6

\* The cuts before sentence i is read, and those at or after its begin, clear
\* the sentences before it.
LEMMA CutsFurther ==
    ASSUME NEW whole \in Seq(Seq(Word)), NEW i \in 1..Len(whole),
           NEW d \in Seq(Seq(Word)), NEW e \in Seq(Seq(Word)),
           CutsClear(whole, d, i - 1), FlattenSeq(d) = FirstSentences(whole, i - 1),
           CountTokens(whole[i]) <= MaxTokens => e = <<>>
    PROVE  CutsClear(whole, d \o e, i)
  <1> DEFINE u == d \o e
             m == Len(d)
  <1>1. Upto(whole, i - 1) = Len(FlattenSeq(d)) /\ Upto(whole, i - 1) \in Nat
    <2>1. i - 1 \in 0..Len(whole)
      OBVIOUS
    <2> QED
      BY <2>1, FirstSentencesMore, UptoType
  <1>2. m \in Nat /\ Len(u) \in Nat /\ u \in Seq(Seq(Word)) /\ FlattenSeq(d) \in Seq(Word)
    BY ConcatProperties, FlattenType
  <1>3. \A c \in 0..m : /\ Upto(u, c) = Upto(d, c) /\ Upto(d, c) \in Nat
                        /\ Upto(d, c) <= Upto(whole, i - 1)
    BY <1>1, UptoFirst, UptoType
  <1>4. \A c \in 0..Len(u) : ~ (c <= m) => Upto(u, c) >= Upto(whole, i - 1)
    BY <1>1, UptoSecond
  <1>5. \A c \in 0..Len(u) : Upto(u, c) \in Nat
    BY <1>2, UptoType
  <1>6. e = <<>> => Len(u) = m
    BY ConcatEmptySeq
  <1> HIDE DEF u, m
  <1> SUFFICES ASSUME NEW j \in 1..i, CountTokens(whole[j]) <= MaxTokens, NEW c \in 0..Len(u)
               PROVE  Upto(u, c) <= Upto(whole, j - 1) \/ Upto(u, c) >= Upto(whole, j)
    BY DEF CutsClear, u
  <1>7. CASE j = i
    <2>1. c \in 0..m
      BY <1>2, <1>6, <1>7
    <2> QED
      BY <1>3, <1>7, <2>1
  <1>8. CASE j # i
    <2>1. j \in 1..(i - 1) /\ j \in 0..(i - 1) /\ i - 1 \in 0..Len(whole)
      BY <1>8
    <2>2. CASE c <= m
      <3>1. c \in 0..m
        BY <1>2, <2>2
      <3>2. Upto(d, c) <= Upto(whole, j - 1) \/ Upto(d, c) >= Upto(whole, j)
        BY <2>1, <3>1 DEF CutsClear, m
      <3> QED
        BY <1>3, <3>1, <3>2
    <2>3. CASE ~ (c <= m)
      <3>1. Upto(u, c) >= Upto(whole, i - 1) /\ Upto(u, c) \in Nat
        BY <1>4, <1>5, <2>3
      <3>2. Upto(whole, j) <= Upto(whole, i - 1) /\ Upto(whole, j) \in Nat
        BY <2>1, UptoGrows
      <3> QED
        BY <1>1, <3>1, <3>2
    <2> QED
      BY <2>2, <2>3
  <1> QED
    BY <1>7, <1>8

\* The cuts that were are clear of one sentence more.
LEMMA CutsStay ==
    ASSUME NEW whole \in Seq(Seq(Word)), NEW i \in 1..Len(whole), NEW d \in Seq(Seq(Word)),
           CutsClear(whole, d, i - 1),
           Len(FlattenSeq(d)) <= Upto(whole, i - 1)
    PROVE  CutsClear(whole, d, i)
  <1>1. Upto(whole, i - 1) \in Nat
    <2>1. i - 1 \in 0..Len(whole)
      OBVIOUS
    <2> QED
      BY <2>1, UptoType
  <1>2. \A c \in 0..Len(d) : Upto(d, c) \in Nat /\ Upto(d, c) <= Len(FlattenSeq(d))
                             /\ Len(FlattenSeq(d)) \in Nat
    BY UptoType
  <1>3. \A c \in 0..Len(d) : Upto(d, c) <= Upto(whole, i - 1)
    BY <1>1, <1>2
  <1>4. \A j \in 1..i : j = i \/ j \in 1..(i - 1)
    OBVIOUS
  <1> QED
    BY <1>3, <1>4 DEF CutsClear

LEMMA AccumulateKeeps ==
    ASSUME NEW whole \in Seq(Seq(Word)), NEW i \in 1..Len(whole), NEW st \in Good(whole, i - 1)
    PROVE  Accumulate(st, whole[i]) \in Good(whole, i)
  <1> DEFINE s == whole[i]
             t == CountTokens(s)
             d == st.done
             w == st.current.words
             f == Flush(st)
             all == FirstSentences(whole, i - 1)
  <1>1. s \in Seq(Word)
    BY ElementOfSeq
  <1>2. t \in Nat /\ MaxTokens \in Nat
    BY <1>1, CountType, TextAssumption
  <1>3. /\ d \in Seq(SmallChunks) /\ w \in Seq(Word) /\ st.current.tokens \in Nat
        /\ st.current.tokens = CountTokens(w) /\ st.current.tokens <= MaxTokens
        /\ FlattenSeq(d) \o w = all /\ CutsClear(whole, d, i - 1)
    BY DEF Good
  <1>4. /\ f \in Seq(SmallChunks) /\ FlattenSeq(f) = all /\ CutsClear(whole, f, i - 1)
    <2>1. i - 1 \in 0..Len(whole)
      OBVIOUS
    <2> QED
      BY <2>1, FlushKeeps
  <1>5. /\ all \in Seq(Word) /\ FirstSentences(whole, i) = all \o s
        /\ Upto(whole, i - 1) = Len(all)
    BY FirstSentencesMore
  <1>6. d \in Seq(Seq(Word)) /\ f \in Seq(Seq(Word))
    BY <1>3, <1>4, SmallWords
  <1>7. Accumulate(st, s) =
            IF t > MaxTokens
            THEN [done |-> f \o LongSentence(s), current |-> NoChunk]
            ELSE IF st.current.tokens + t > MaxTokens
            THEN [done |-> f, current |-> [words |-> s, tokens |-> t]]
            ELSE [done |-> d, current |-> [words |-> w \o s, tokens |-> st.current.tokens + t]]
    BY DEF Accumulate
  <1>8. t = CountTokens(s)
    OBVIOUS
  <1> HIDE DEF s, t, d, w, f, all
  <1>9. CASE t > MaxTokens
    <2> DEFINE e == LongSentence(s)
               u == f \o e
               r == [done |-> u, current |-> NoChunk]
    <2>1. e \in Seq(SmallChunks) /\ FlattenSeq(e) = s
      BY <1>1, LongKeeps
    <2>2. e \in Seq(Seq(Word))
      BY <2>1, SmallWords
    <2> HIDE DEF e
    <2>3. u \in Seq(SmallChunks)
      BY <1>4, <2>1, ConcatProperties
    <2>4. FlattenSeq(u) = all \o s
      BY <1>4, <1>6, <2>1, <2>2, FlattenConcat
    <2>5. all \o s \in Seq(Word)
      BY <1>1, <1>5, ConcatProperties
    <2>6. CutsClear(whole, u, i)
      <3>1. ~ (CountTokens(whole[i]) <= MaxTokens)
        BY <1>2, <1>8, <1>9 DEF s
      <3> QED
        BY <1>4, <1>6, <2>2, <3>1, CutsFurther DEF all
    <2> HIDE DEF u
    <2>7. FlattenSeq(u) \o <<>> = FirstSentences(whole, i)
      BY <1>5, <2>4, <2>5, ConcatEmptySeq
    <2>8. <<>> \in Seq(Word) /\ CountTokens(<<>>) = 0 /\ 0 \in Nat /\ 0 <= MaxTokens
      BY <1>2, CountEmpty
    <2>9. r \in [done : Seq(SmallChunks), current : [words : Seq(Word), tokens : Nat]]
      BY <2>3, <2>8 DEF NoChunk
    <2>10. r.done = u /\ r.current.words = <<>> /\ r.current.tokens = 0
      BY DEF NoChunk
    <2>11. Accumulate(st, s) = r
      BY <1>7, <1>9 DEF u, e
    <2> HIDE DEF r
    <2>12. r \in Good(whole, i)
      BY <2>6, <2>7, <2>8, <2>9, <2>10 DEF Good
    <2> QED
      BY <2>11, <2>12 DEF s
  <1>10. CASE ~ (t > MaxTokens) /\ st.current.tokens + t > MaxTokens
    <2> DEFINE r == [done |-> f, current |-> [words |-> s, tokens |-> t]]
    <2>1. CutsClear(whole, f, i)
      <3>1. Len(FlattenSeq(f)) <= Upto(whole, i - 1)
        <4>1. Len(all) \in Nat
          BY <1>5
        <4> QED
          BY <1>4, <1>5, <4>1
      <3> QED
        BY <1>4, <1>6, <3>1, CutsStay
    <2>2. FlattenSeq(f) \o s = FirstSentences(whole, i)
      BY <1>4, <1>5
    <2>3. r \in [done : Seq(SmallChunks), current : [words : Seq(Word), tokens : Nat]]
      BY <1>1, <1>2, <1>4
    <2>4. r.done = f /\ r.current.words = s /\ r.current.tokens = t
      OBVIOUS
    <2>5. Accumulate(st, s) = r
      BY <1>7, <1>10
    <2> HIDE DEF r
    <2>6. t <= MaxTokens
      BY <1>2, <1>10
    <2>7. r \in Good(whole, i)
      BY <1>8, <2>1, <2>2, <2>3, <2>4, <2>6 DEF Good
    <2> QED
      BY <2>5, <2>7 DEF s
  <1>11. CASE ~ (t > MaxTokens) /\ ~ (st.current.tokens + t > MaxTokens)
    <2> DEFINE b == w \o s
               k == st.current.tokens + t
               r == [done |-> d, current |-> [words |-> b, tokens |-> k]]
    <2>1. b \in Seq(Word) /\ CountTokens(b) = k /\ k \in Nat /\ k <= MaxTokens
      <3>1. CountTokens(b) = CountTokens(w) + CountTokens(s)
        BY <1>1, <1>3, CountConcat
      <3>2. b \in Seq(Word)
        BY <1>1, <1>3, ConcatProperties
      <3>3. k \in Nat /\ k <= MaxTokens
        BY <1>2, <1>3, <1>11
      <3> QED
        BY <1>3, <1>8, <3>1, <3>2, <3>3
    <2>2. FlattenSeq(d) \in Seq(Word)
      BY <1>6, FlattenType
    <2>3. FlattenSeq(d) \o b = FirstSentences(whole, i)
      <3>1. (FlattenSeq(d) \o w) \o s = FlattenSeq(d) \o (w \o s)
        <4> DEFINE fd == FlattenSeq(d)
        <4>1. fd \in Seq(Word)
          BY <2>2
        <4> HIDE DEF fd
        <4>2. (fd \o w) \o s = fd \o (w \o s)
          BY <1>1, <1>3, <4>1, WordsAssociate
        <4> QED
          BY <4>2 DEF fd
      <3> QED
        BY <1>3, <1>5, <3>1
    <2>4. CutsClear(whole, d, i)
      <3>1. Len(FlattenSeq(d)) <= Upto(whole, i - 1)
        <4> DEFINE fd == FlattenSeq(d)
        <4>1. fd \in Seq(Word) /\ fd \o w = all
          BY <1>3, <2>2
        <4> HIDE DEF fd
        <4>2. Len(fd \o w) = Len(fd) + Len(w) /\ Len(fd) \in Nat /\ Len(w) \in Nat
          BY <1>3, <4>1, ConcatProperties, LenProperties
        <4>3. Len(fd) <= Len(all)
          BY <4>1, <4>2
        <4> QED
          BY <1>5, <4>3 DEF fd
      <3> QED
        BY <1>3, <1>6, <3>1, CutsStay
    <2> HIDE DEF b, k
    <2>5. r \in [done : Seq(SmallChunks), current : [words : Seq(Word), tokens : Nat]]
      BY <1>3, <2>1
    <2>6. r.done = d /\ r.current.words = b /\ r.current.tokens = k
      OBVIOUS
    <2>7. Accumulate(st, s) = r
      BY <1>7, <1>11 DEF b, k
    <2> HIDE DEF r
    <2>8. r \in Good(whole, i)
      BY <2>1, <2>3, <2>4, <2>5, <2>6 DEF Good
    <2> QED
      BY <2>7, <2>8 DEF s
  <1> QED
    BY <1>9, <1>10, <1>11

ChunksRun(whole) ==
    CHOOSE f : f = [i \in 0 .. Len(whole) |->
            IF i = 0 THEN [done |-> <<>>, current |-> NoChunk]
            ELSE Accumulate(f[i - 1], whole[i])]

LEMMA SplitIsRun ==
    ASSUME NEW t
    PROVE  LET prepared == PrepareTextPrompt(t)
               whole == RawSentences(prepared)
           IN  SplitIntoBestSentences(t) = IF whole = <<>> THEN <<prepared>>
                                           ELSE Flush(ChunksRun(whole)[Len(whole)])
  BY DEF SplitIntoBestSentences, ChunksRun

LEMMA ChunksGood ==
    ASSUME NEW whole \in Seq(Seq(Word))
    PROVE  ChunksRun(whole)[Len(whole)] \in Good(whole, Len(whole))
  <1> DEFINE n == Len(whole)
             none == [done |-> <<>>, current |-> NoChunk]
             V == [i \in 0..n |-> Good(whole, i)]
             G == [q \in (1..n) \X UNION {Good(whole, i) : i \in 0..n} |->
                      Accumulate(q[2], whole[q[1]])]
             run == ChunksRun(whole)
  <1>0. /\ n \in Nat /\ \A i \in 1..n : i \in 0..n /\ i - 1 \in 0..n /\ i # 0
        /\ \A i \in 0..n : i # 0 => i \in 1..n
        /\ 0 \in 0..n /\ n \in 0..n
    OBVIOUS
  <1>1. ASSUME NEW i \in 1..n, NEW c \in Good(whole, i - 1)
        PROVE  /\ G[<<i, c>>] = Accumulate(c, whole[i])
               /\ Accumulate(c, whole[i]) \in Good(whole, i)
    <2>1. c \in UNION {Good(whole, k) : k \in 0..n}
      BY <1>0
    <2>2. <<i, c>> \in (1..n) \X UNION {Good(whole, k) : k \in 0..n}
      BY <2>1
    <2>3. G[<<i, c>>] = Accumulate(c, whole[i])
      BY <2>2
    <2>4. i \in 1..Len(whole)
      OBVIOUS
    <2> HIDE DEF G
    <2> QED
      BY <2>3, <2>4, AccumulateKeeps
  <1>2. \A i \in 0..n : V[i] = Good(whole, i)
    OBVIOUS
  <1>3. none \in Good(whole, 0)
    <2>1. FlattenSeq(<<>>) = <<>> /\ SubSeq(whole, 1, 0) = <<>>
      BY FlattenEmpty, SubSeqEmpty
    <2>2. <<>> \in Seq(Word) /\ <<>> \in Seq(SmallChunks)
      OBVIOUS
    <2>3. <<>> \o <<>> = <<>>
      BY <2>2, ConcatEmptySeq
    <2>4. FlattenSeq(<<>>) \o <<>> = FirstSentences(whole, 0)
      BY <2>1, <2>3 DEF FirstSentences
    <2>5. 0 <= MaxTokens /\ CountTokens(<<>>) = 0
      BY CountEmpty, TextAssumption
    <2>6. none \in [done : Seq(SmallChunks), current : [words : Seq(Word), tokens : Nat]]
      BY <2>2 DEF NoChunk
    <2>7. none.done = <<>> /\ none.current.words = <<>> /\ none.current.tokens = 0
      BY DEF NoChunk
    <2>8. CutsClear(whole, <<>>, 0)
      BY DEF CutsClear
    <2> HIDE DEF none
    <2> QED
      BY <2>4, <2>5, <2>6, <2>7, <2>8 DEF Good
  <1> HIDE DEF n, V, G, none
  <1>4. PICK g : Solves(n, V, none, G, g)
    <2>1. ASSUME NEW i \in 1..n, NEW s \in V[i - 1] PROVE G[<<i, s>>] \in V[i]
      <3>1. s \in Good(whole, i - 1) /\ V[i] = Good(whole, i)
        BY <1>0, <1>2
      <3> QED
        BY <1>1, <3>1
    <2>2. StaysIn(n, V, G)
      BY <2>1 DEF StaysIn
    <2>3. none \in V[0]
      BY <1>0, <1>2, <1>3
    <2> QED
      BY <1>0, <2>2, <2>3, RecursionExists
  <1>5. g = [i \in 0..n |-> g[i]] /\ g[0] = none
    BY <1>4 DEF Solves
  <1>6. ASSUME NEW i \in 1..n PROVE g[i] = Accumulate(g[i - 1], whole[i])
    <2>1. g[i] = G[<<i, g[i - 1]>>] /\ g[i - 1] \in V[i - 1]
      BY <1>0, <1>4 DEF Solves
    <2>2. g[i - 1] \in Good(whole, i - 1)
      BY <1>0, <1>2, <2>1
    <2> QED
      BY <1>1, <2>1, <2>2
  <1>7. g = [i \in 0..n |-> IF i = 0 THEN none ELSE Accumulate(g[i - 1], whole[i])]
    BY <1>0, <1>5, <1>6
  <1>8. run = [i \in 0..n |-> IF i = 0 THEN none ELSE Accumulate(run[i - 1], whole[i])]
    BY <1>7 DEF ChunksRun, n, none
  <1> HIDE DEF run
  <1>9. run[0] = none /\ \A i \in 1..n : run[i] = Accumulate(run[i - 1], whole[i])
    BY <1>0, <1>8
  <1>10. ASSUME NEW i \in 1..n, run[i - 1] \in V[i - 1] PROVE run[i] \in V[i]
    <2>1. run[i - 1] \in Good(whole, i - 1) /\ V[i] = Good(whole, i)
      BY <1>0, <1>2, <1>10
    <2>2. Accumulate(run[i - 1], whole[i]) \in Good(whole, i)
      BY <1>1, <2>1
    <2> QED
      BY <1>9, <2>1, <2>2
  <1>11. run[0] \in V[0]
    BY <1>0, <1>2, <1>3, <1>9
  <1>12. \A i \in 0..n : run[i] \in V[i]
    BY <1>0, <1>10, <1>11, RecursionStays
  <1>13. run[n] \in Good(whole, n)
    BY <1>0, <1>2, <1>12
  <1> QED
    BY <1>13 DEF run, n

\* What SplitKeepsText says of the chunks of a text.
LEMMA SplitKeeps ==
    ASSUME NEW t \in Seq(Word)
    PROVE  LET chunks == SplitIntoBestSentences(t)
               whole == RawSentences(PrepareTextPrompt(t))
           IN  /\ chunks \in Seq(SmallChunks)
               /\ whole \in Seq(Seq(Word))
               /\ FlattenSeq(chunks) = PrepareTextPrompt(t)
               /\ CutsClear(whole, chunks, Len(whole))
  <1> DEFINE p == PrepareTextPrompt(t)
             whole == RawSentences(p)
             n == Len(whole)
             chunks == SplitIntoBestSentences(t)
  <1>1. p \in Seq(Word) /\ p # <<>>
    BY PrepareType
  <1>2. chunks = IF whole = <<>> THEN <<p>> ELSE Flush(ChunksRun(whole)[n])
    BY SplitIsRun
  <1> HIDE DEF p, chunks
  <1>3. whole \in Seq(Seq(Word)) /\ FlattenSeq(whole) = p
    BY <1>1, SentencesKeep
  <1> HIDE DEF whole
  <1>4. whole # <<>>
    BY <1>1, <1>3, FlattenEmpty
  <1> DEFINE st == ChunksRun(whole)[n]
  <1>5. st \in Good(whole, n)
    BY <1>3, ChunksGood
  <1> HIDE DEF st
  <1>6. n \in 0..Len(whole)
    BY <1>3
  <1>7. FirstSentences(whole, n) = p
    <2>1. SubSeq(whole, 1, Len(whole)) = whole
      BY <1>3, SubSeqFull
    <2> QED
      BY <1>3, <2>1 DEF FirstSentences
  <1>8. /\ Flush(st) \in Seq(SmallChunks)
        /\ FlattenSeq(Flush(st)) = FirstSentences(whole, n)
        /\ CutsClear(whole, Flush(st), n)
    BY <1>3, <1>5, <1>6, FlushKeeps
  <1>9. chunks = Flush(st)
    BY <1>2, <1>4 DEF st
  <1> QED
    BY <1>3, <1>7, <1>8, <1>9 DEF chunks, whole, p

\* The words of a request, kept in the state until they are submitted.
TextIsWords == text \in Seq(Word)

LEMMA TextIsWordsStays == Spec => []TextIsWords
  <1>1. Init => TextIsWords
    BY SpeechAssumption DEF Init, TextIsWords
  <1>2. TextIsWords /\ [Next]_vars => TextIsWords'
    <2> SUFFICES ASSUME TextIsWords, [Next]_vars PROVE TextIsWords'
      OBVIOUS
    <2>1. <<>> \in Seq(Word)
      OBVIOUS
    <2>2. text' = text \/ text' = <<>>
      <3> USE DEF requestVars
      <3>1. CASE Ask
        BY <3>1 DEF Ask
      <3>2. CASE Speak
        BY <3>2 DEF Speak, otherVars
      <3>3. CASE EndSentence
        BY <3>3 DEF EndSentence, otherVars
      <3>4. CASE EndReading
        BY <3>4 DEF EndReading, otherVars
      <3>5. CASE ReadingFails
        BY <3>5 DEF ReadingFails, otherVars
      <3>6. CASE AwaitFirst
        BY <3>6 DEF AwaitFirst
      <3>7. CASE Collect
        BY <3>7 DEF Collect
      <3>8. CASE AnswerWhole
        BY <3>8 DEF AnswerWhole
      <3>9. CASE Encode
        BY <3>9 DEF Encode
      <3>10. CASE EncodeFails
        BY <3>10 DEF EncodeFails
      <3>11. CASE FlushTail
        BY <3>11 DEF FlushTail
      <3>12. CASE Send
        BY <3>12 DEF Send
      <3>13. CASE Hear
        BY <3>13 DEF Hear
      <3>14. CASE Leave
        BY <3>14 DEF Leave
      <3>15. CASE UNCHANGED vars
        BY <3>15 DEF vars
      <3> QED
        BY <3>1, <3>2, <3>3, <3>4, <3>5, <3>6, <3>7, <3>8, <3>9, <3>10, <3>11, <3>12,
           <3>13, <3>14, <3>15 DEF Next, EngineSteps, TaskSteps, Listener
    <2>3. CASE text' = text
      BY <2>3 DEF TextIsWords
    <2>4. CASE text' = <<>>
      BY <2>1, <2>4 DEF TextIsWords
    <2> QED
      BY <2>2, <2>3, <2>4
  <1> QED
    BY <1>1, <1>2, PTL DEF Spec

LEMMA SplitKeepsTextStatic == TextIsWords => SplitKeepsText
  <1> SUFFICES ASSUME TextIsWords PROVE SplitKeepsText
    OBVIOUS
  <1> DEFINE chunks == SplitIntoBestSentences(text)
             p == PrepareTextPrompt(text)
             whole == RawSentences(p)
             cuts == {Len(FlattenSeq(SubSeq(chunks, 1, i))) : i \in DOMAIN chunks}
             From(i) == Len(FlattenSeq(SubSeq(whole, 1, i - 1)))
  <1>1. /\ chunks \in Seq(SmallChunks) /\ whole \in Seq(Seq(Word))
        /\ FlattenSeq(chunks) = p /\ CutsClear(whole, chunks, Len(whole))
    <2>1. text \in Seq(Word)
      BY DEF TextIsWords
    <2> QED
      BY <2>1, SplitKeeps
  <1> HIDE DEF chunks, whole, p
  <1>2. ASSUME NEW i \in DOMAIN whole, CountTokens(whole[i]) <= MaxTokens, NEW cut \in cuts
        PROVE  cut <= From(i) \/ cut >= From(i) + Len(whole[i])
    <2>1. PICK c \in DOMAIN chunks : cut = Upto(chunks, c)
      BY DEF Upto
    <2>2. i \in 1..Len(whole) /\ c \in 0..Len(chunks)
      BY <1>1
    <2>3. From(i) = Upto(whole, i - 1)
      BY DEF Upto
    <2>4. Upto(whole, i) = From(i) + Len(whole[i])
      <3>1. /\ FirstSentences(whole, i - 1) \in Seq(Word)
            /\ FirstSentences(whole, i) = FirstSentences(whole, i - 1) \o whole[i]
        BY <1>1, <2>2, FirstSentencesMore
      <3>2. whole[i] \in Seq(Word)
        BY <1>1, <2>2, ElementOfSeq
      <3> DEFINE a == FirstSentences(whole, i - 1)
                 b == whole[i]
      <3>3. a \in Seq(Word) /\ b \in Seq(Word) /\ FirstSentences(whole, i) = a \o b
        BY <3>1, <3>2
      <3>4. From(i) = Len(a) /\ Upto(whole, i) = Len(FirstSentences(whole, i))
        BY DEF FirstSentences, Upto
      <3> HIDE DEF a, From
      <3>5. Len(a \o b) = Len(a) + Len(b)
        BY <3>3, ConcatProperties
      <3> QED
        BY <3>3, <3>4, <3>5
    <2> HIDE DEF From, cuts
    <2>5. Upto(chunks, c) <= Upto(whole, i - 1) \/ Upto(chunks, c) >= Upto(whole, i)
      BY <1>1, <1>2, <2>2 DEF CutsClear
    <2> QED
      BY <2>1, <2>3, <2>4, <2>5
  <1>3. ASSUME NEW i \in DOMAIN chunks
        PROVE  CountTokens(chunks[i]) <= MaxTokens \/ 2 * Len(chunks[i]) <= WordsPerBatch + 1
    <2>1. chunks[i] \in SmallChunks
      BY <1>1
    <2> QED
      BY <2>1 DEF SmallChunks, SmallChunk
  <1>4. /\ FlattenSeq(chunks) = p
        /\ \A i \in DOMAIN whole : CountTokens(whole[i]) <= MaxTokens =>
             \A cut \in cuts : cut <= From(i) \/ cut >= From(i) + Len(whole[i])
        /\ \A i \in DOMAIN chunks : CountTokens(chunks[i]) <= MaxTokens
                                    \/ 2 * Len(chunks[i]) <= WordsPerBatch + 1
    BY <1>1, <1>2, <1>3
  <1> QED
    BY <1>4 DEF SplitKeepsText, chunks, whole, p

\* Splitting a text into chunks for the engine (split_into_best_sentences) loses,
\* doubles and moves no word, cuts only a sentence over the limit by itself, and
\* leaves a chunk over the limit only where it is half a batch of words at most.
THEOREM SplitKeepsTextHolds == Spec => []SplitKeepsText
  BY TextIsWordsStays, SplitKeepsTextStatic, PTL

------------------------------------------------------------------------------
(* Encoding samples (Encode): the silence that is cut.                     *)

LEMMA DivIs ==
    \A a \in Nat, k \in Nat \ {0} : /\ a \div k \in Nat
                                    /\ (a \div k) * k <= a
                                    /\ a < (a \div k) * k + k
  BY SMTT(60)

LEMMA MulGrows ==
    /\ \A x, y, z \in Nat : x <= y => x * z <= y * z
    /\ \A x, y, z \in Nat : x < y => x * z + z <= y * z
    /\ \A x, y, z \in Nat : (x + y) * z = x * z + y * z
    /\ \A x, y \in Nat : x * y \in Nat
    /\ \A z \in Nat : 0 * z = 0 /\ 1 * z = z
  <1>1. \A x, y, z \in Nat : (x + y) * z = x * z + y * z
    BY SMTT(60)
  <1>2. \A x, y \in Nat : x * y \in Nat
    BY SMTT(60)
  <1>3. \A z \in Nat : 0 * z = 0 /\ 1 * z = z
    OBVIOUS
  <1>4. ASSUME NEW x \in Nat, NEW y \in Nat, NEW z \in Nat, x <= y
        PROVE  x * z <= y * z
    <2>1. PICK d \in Nat : y = x + d
      <3>1. y - x \in Nat /\ y = x + (y - x)
        BY <1>4
      <3> QED
        BY <3>1
    <2>2. y * z = x * z + d * z
      BY <1>1, <2>1
    <2> DEFINE a == x * z
               b == d * z
    <2>3. a \in Nat /\ b \in Nat /\ y * z = a + b
      BY <1>2, <2>2
    <2> HIDE DEF a, b
    <2>4. a <= a + b
      BY <2>3
    <2> QED
      BY <2>3, <2>4 DEF a
  <1>5. ASSUME NEW x \in Nat, NEW y \in Nat, NEW z \in Nat, x < y
        PROVE  x * z + z <= y * z
    <2>1. x + 1 <= y /\ x + 1 \in Nat
      BY <1>5
    <2>2. (x + 1) * z <= y * z
      BY <1>4, <2>1
    <2>3. (x + 1) * z = x * z + 1 * z
      BY <1>1
    <2> QED
      BY <1>3, <2>2, <2>3
  <1> QED
    BY <1>1, <1>2, <1>3, <1>4, <1>5

LEMMA DivUnique ==
    ASSUME NEW a \in Nat, NEW q \in Nat, NEW k \in Nat \ {0}, q * k <= a, a < q * k + k
    PROVE  a \div k = q
  <1> DEFINE r == a \div k
             s == r * k
             t == q * k
  <1>1. r \in Nat /\ s <= a /\ a < s + k /\ k \in Nat /\ s \in Nat /\ t \in Nat
    BY DivIs, MulGrows
  <1>2. t <= a /\ a < t + k
    OBVIOUS
  <1> HIDE DEF r
  <1>3. r < q => s + k <= t
    BY <1>1, MulGrows
  <1>4. q < r => t + k <= s
    BY <1>1, MulGrows
  <1> HIDE DEF s, t
  <1>5. ~ (r < q) /\ ~ (q < r)
    BY <1>1, <1>2, <1>3, <1>4
  <1>6. r = q
    BY <1>1, <1>5
  <1> QED
    BY <1>6 DEF r

\* What is left of a sequence after its first n elements.
LEMMA AfterIs ==
    ASSUME NEW S, NEW x \in Seq(S), NEW n \in 0..Len(x)
    PROVE  /\ After(x, n) \in Seq(S)
           /\ Len(After(x, n)) = Len(x) - n
           /\ \A i \in 1..(Len(x) - n) : After(x, n)[i] = x[n + i]
           /\ SubSeq(x, 1, n) \o After(x, n) = x
  <1> DEFINE m == Len(x)
             a == SubSeq(x, n + 1, m)
  <1>1. m \in Nat /\ n \in Nat /\ n <= m /\ n + 1 \in Int /\ m \in Int
    OBVIOUS
  <1>2. \A i \in (n + 1)..m : x[i] \in S
    <2>1. \A i \in (n + 1)..m : i \in 1..Len(x)
      BY <1>1
    <2> QED
      BY <2>1, ElementOfSeq
  <1>3. SubSeq(x, 1, n) \o SubSeq(x, n + 1, m) = x
    <2>1. 1 \in 1..Len(x) + 1 /\ n \in (1 - 1)..Len(x) /\ m \in n..Len(x)
      BY <1>1
    <2>2. SubSeq(x, 1, n) \o SubSeq(x, n + 1, m) = SubSeq(x, 1, m)
      BY <2>1, ConcatAdjacentSubSeq
    <2> QED
      BY <2>2, SubSeqFull
  <1> HIDE DEF m
  <1>4. /\ SubSeq(x, n + 1, m) \in Seq(S)
        /\ Len(SubSeq(x, n + 1, m)) = IF n + 1 <= m THEN m - (n + 1) + 1 ELSE 0
        /\ \A i \in 1..m - (n + 1) + 1 : SubSeq(x, n + 1, m)[i] = x[(n + 1) + i - 1]
    BY <1>1, <1>2, SubSeqProperties
  <1> HIDE DEF a
  <1>5. a \in Seq(S) /\ Len(a) = m - n
    BY <1>1, <1>4 DEF a
  <1>6. \A i \in 1..(m - n) : i \in 1..m - (n + 1) + 1 /\ (n + 1) + i - 1 = n + i
    BY <1>1
  <1>7. \A i \in 1..(m - n) : a[i] = x[n + i]
    BY <1>4, <1>6 DEF a
  <1>8. After(x, n) = a
    BY DEF After, a, m
  <1> QED
    BY <1>3, <1>5, <1>7, <1>8 DEF a, m

LEMMA AfterNone ==
    ASSUME NEW S, NEW x \in Seq(S)
    PROVE  After(x, 0) = x
  BY SubSeqFull DEF After

LEMMA AfterConcat ==
    ASSUME NEW S, NEW x \in Seq(S), NEW f \in Seq(S), NEW n \in 0..Len(x)
    PROVE  After(x \o f, n) = After(x, n) \o f
  <1> DEFINE z == x \o f
             a == After(z, n)
             b == After(x, n)
             c == b \o f
  <1>1. /\ z \in Seq(S) /\ Len(z) = Len(x) + Len(f)
        /\ \A i \in 1..Len(x) + Len(f) : z[i] = IF i <= Len(x) THEN x[i] ELSE f[i - Len(x)]
    BY ConcatProperties
  <1>2. Len(x) \in Nat /\ Len(f) \in Nat /\ n \in Nat /\ n <= Len(x)
    BY LenProperties
  <1> HIDE DEF z
  <1>3. n \in 0..Len(z)
    BY <1>1, <1>2
  <1>4. a \in Seq(S) /\ Len(a) = Len(z) - n /\ \A i \in 1..(Len(z) - n) : a[i] = z[n + i]
    BY <1>1, <1>3, AfterIs
  <1>5. b \in Seq(S) /\ Len(b) = Len(x) - n /\ \A i \in 1..(Len(x) - n) : b[i] = x[n + i]
    BY AfterIs
  <1> HIDE DEF a, b
  <1>6. /\ c \in Seq(S) /\ Len(c) = Len(b) + Len(f)
        /\ \A i \in 1..Len(b) + Len(f) : c[i] = IF i <= Len(b) THEN b[i] ELSE f[i - Len(b)]
    BY <1>5, ConcatProperties
  <1> HIDE DEF c
  <1>7. Len(a) = Len(c)
    BY <1>1, <1>2, <1>4, <1>5, <1>6
  <1>8. ASSUME NEW i \in 1..Len(a) PROVE a[i] = c[i]
    <2>1. i \in 1..(Len(z) - n) /\ n + i \in 1..Len(x) + Len(f) /\ i \in 1..Len(b) + Len(f)
      BY <1>1, <1>2, <1>4, <1>5
    <2>2. a[i] = z[n + i]
      BY <1>4, <2>1
    <2>3. CASE n + i <= Len(x)
      <3>1. i <= Len(b) /\ i \in 1..(Len(x) - n)
        BY <1>2, <1>5, <2>1, <2>3
      <3> QED
        BY <1>1, <1>5, <1>6, <2>1, <2>2, <2>3, <3>1
    <2>4. CASE ~ (n + i <= Len(x))
      <3>1. ~ (i <= Len(b)) /\ (n + i) - Len(x) = i - Len(b)
        BY <1>2, <1>5, <2>1, <2>4
      <3>2. z[n + i] = f[(n + i) - Len(x)]
        BY <1>1, <2>1, <2>4
      <3>3. c[i] = f[i - Len(b)]
        BY <1>6, <2>1, <3>1
      <3> QED
        BY <2>2, <3>1, <3>2, <3>3
    <2> QED
      BY <2>3, <2>4
  <1>9. a = c
    BY <1>4, <1>6, <1>7, <1>8, SeqEqual
  <1> QED
    BY <1>9 DEF a, b, c, z

------------------------------------------------------------------------------
\* A sample is never zero: it is loud or it is not.
Sample == Int \ {0}

\* The first n hops are silent, and the next one, which is whole, is not.
Opens(x, n) ==
    /\ n \in Nat
    /\ n * Hop + Hop <= Len(x)
    /\ \A i \in 1..n * Hop : x[i] < 0
    /\ \E i \in (n * Hop + 1)..(n * Hop + Hop) : x[i] > 0

\* How much of the silence goes when n hops are silent.
Dropped(n) == IF n * Hop > Keep THEN n * Hop - Keep ELSE 0

Silent(x) == \A i \in 1..(Len(x) \div Hop) * Hop : x[i] < 0

LEMMA HopIs == Hop \in Nat \ {0} /\ Hop \in Nat /\ Hop > 0 /\ Keep \in Nat
  BY EncodeAssumption

LEMMA DroppedIs ==
    ASSUME NEW x \in Seq(Sample), NEW n, Opens(x, n)
    PROVE  /\ Dropped(n) \in 0..Len(x)
           /\ Dropped(n) < Len(x)
  <1> DEFINE m == n * Hop
  <1>1. m \in Nat /\ m + Hop <= Len(x) /\ Len(x) \in Nat
    BY HopIs, MulGrows DEF Opens
  <1>2. Dropped(n) = IF m > Keep THEN m - Keep ELSE 0
    BY DEF Dropped
  <1> HIDE DEF m
  <1> QED
    BY <1>1, <1>2, HopIs

LEMMA LeadOpens ==
    ASSUME NEW x \in Seq(Sample), NEW n, Opens(x, n)
    PROVE  WithoutLead(x) = After(x, Dropped(n))
  <1> DEFINE q == Len(x) \div Hop
             quiet == {k \in 0..q : \A i \in 1..k * Hop : x[i] < 0}
             lead == CHOOSE k \in quiet : \A other \in quiet : other <= k
             m == n * Hop
  <1>1. n \in Nat /\ m \in Nat /\ m + Hop <= Len(x) /\ Len(x) \in Nat
    BY HopIs, MulGrows DEF Opens
  <1>2. q \in Nat /\ q * Hop <= Len(x) /\ Len(x) < q * Hop + Hop /\ q * Hop \in Nat
    <2>1. q \in Nat /\ q * Hop <= Len(x) /\ Len(x) < q * Hop + Hop
      BY <1>1, HopIs, DivIs
    <2> HIDE DEF q
    <2> QED
      BY <2>1, HopIs, MulGrows
  <1>3. WithoutLead(x) = IF lead = q \/ lead * Hop <= Keep THEN x ELSE After(x, lead * Hop - Keep)
    BY DEF WithoutLead
  <1>4. \A k \in quiet : k \in 0..q /\ \A i \in 1..k * Hop : x[i] < 0
    OBVIOUS
  <1>5. n < q
    <2> HIDE DEF q
    <2>1. q <= n => q * Hop <= m
      BY <1>1, <1>2, HopIs, MulGrows
    <2> DEFINE p == q * Hop
    <2>2. q <= n => p <= m
      BY <2>1
    <2>3. p \in Nat /\ Len(x) < p + Hop
      BY <1>2
    <2> HIDE DEF p, m
    <2> QED
      BY <1>1, <1>2, <2>2, <2>3, HopIs
  <1>6. n \in quiet
    BY <1>1, <1>2, <1>5 DEF Opens
  <1>7. ASSUME NEW k \in quiet PROVE k <= n
    <2> SUFFICES ASSUME ~ (k <= n) PROVE FALSE
      OBVIOUS
    <2>1. k \in Nat /\ n < k
      BY <1>1, <1>2, <1>4
    <2> DEFINE p == k * Hop
    <2>2. m + Hop <= p /\ p \in Nat
      BY <1>1, <2>1, HopIs, MulGrows
    <2>3. \A i \in 1..p : x[i] < 0
      BY <1>4
    <2>4. PICK i \in (m + 1)..(m + Hop) : x[i] > 0
      BY DEF Opens
    <2> HIDE DEF p, m, quiet
    <2>5. i \in 1..p /\ i \in 1..Len(x)
      BY <1>1, <2>2, HopIs
    <2>6. x[i] \in Int
      BY <2>5 DEF Sample
    <2> QED
      BY <2>3, <2>4, <2>5, <2>6
  <1>8. \A k \in quiet : k \in Int
    BY <1>2, <1>4
  <1> HIDE DEF quiet, q
  <1>9. lead = n
    <2>1. lead \in quiet /\ \A other \in quiet : other <= lead
      BY <1>6, <1>7
    <2> HIDE DEF lead
    <2> QED
      BY <1>1, <1>6, <1>7, <1>8, <2>1
  <1> HIDE DEF lead
  <1>10. WithoutLead(x) = IF m <= Keep THEN x ELSE After(x, m - Keep)
    BY <1>2, <1>1, <1>3, <1>5, <1>9
  <1>11. Dropped(n) = IF m > Keep THEN m - Keep ELSE 0
    BY DEF Dropped
  <1> HIDE DEF m
  <1>12. CASE m <= Keep
    <2>1. Dropped(n) = 0
      BY <1>1, <1>11, <1>12, HopIs
    <2> QED
      BY <1>10, <1>12, <2>1, AfterNone
  <1>13. CASE ~ (m <= Keep)
    <2>1. Dropped(n) = m - Keep
      BY <1>1, <1>11, <1>13, HopIs
    <2> QED
      BY <1>10, <1>13, <2>1
  <1> QED
    BY <1>12, <1>13

LEMMA LeadSilent ==
    ASSUME NEW x \in Seq(Sample), Silent(x)
    PROVE  WithoutLead(x) = x
  <1> DEFINE q == Len(x) \div Hop
             quiet == {k \in 0..q : \A i \in 1..k * Hop : x[i] < 0}
             lead == CHOOSE k \in quiet : \A other \in quiet : other <= k
  <1>1. q \in Nat
    BY HopIs, DivIs, LenProperties
  <1>2. WithoutLead(x) = IF lead = q \/ lead * Hop <= Keep THEN x ELSE After(x, lead * Hop - Keep)
    BY DEF WithoutLead
  <1>3. q \in quiet /\ \A k \in quiet : k \in Int /\ k <= q
    BY <1>1 DEF Silent
  <1> HIDE DEF quiet, q
  <1>4. lead \in quiet /\ \A other \in quiet : other <= lead
    BY <1>3
  <1> HIDE DEF lead
  <1>5. lead = q
    BY <1>1, <1>3, <1>4
  <1> QED
    BY <1>2, <1>5

Trimmer == [held : Seq(Sample), scanned : Nat, passing : BOOLEAN]

\* What the trimmer holds when x was fed to it and y came out.
TrimState(tr, x, y) ==
    /\ tr \in Trimmer
    /\ \/ /\ tr.passing = FALSE /\ tr.held = x /\ y = <<>>
          /\ tr.scanned = (Len(x) \div Hop) * Hop /\ Silent(x)
       \/ /\ tr.passing = TRUE /\ tr.held = <<>>
          /\ \E n : Opens(x, n) /\ y = After(x, Dropped(n))

LEMMA HopOf ==
    ASSUME NEW m \in Nat, NEW j \in 1..m * Hop
    PROVE  \E h \in 0..(m - 1) : j \in (h * Hop + 1)..(h * Hop + Hop)
  <1> DEFINE h == (j - 1) \div Hop
             p == m * Hop
             s == h * Hop
  <1>1. p \in Nat
    BY HopIs, MulGrows
  <1>2. j - 1 \in Nat /\ j \in Nat /\ j <= p
    BY <1>1
  <1>3. h \in Nat /\ s <= j - 1 /\ j - 1 < s + Hop
    BY <1>2, HopIs, DivIs
  <1> HIDE DEF h
  <1>4. s \in Nat
    BY <1>3, HopIs, MulGrows
  <1>5. m <= h => p <= s
    BY <1>3, HopIs, MulGrows
  <1> HIDE DEF p, s
  <1>6. h \in 0..(m - 1)
    BY <1>1, <1>2, <1>3, <1>4, <1>5
  <1>7. j \in (s + 1)..(s + Hop)
    BY <1>2, <1>3, <1>4, HopIs
  <1> QED
    BY <1>6, <1>7 DEF s

\* The hops the trimmer looks at from a scan that stopped at a whole hop.
LEMMA LoudHopsIs ==
    ASSUME NEW z \in Seq(Sample), NEW q \in Nat, q * Hop <= Len(z)
    PROVE  /\ q <= Len(z) \div Hop
           /\ Len(z) \div Hop \in Nat
           /\ (Len(z) \div Hop) * Hop <= Len(z)
           /\ \A at : at \in LoudHops(z, q * Hop) <=>
                 \E n \in q..(Len(z) \div Hop - 1) :
                     at = n * Hop /\ \E i \in (n * Hop + 1)..(n * Hop + Hop) : z[i] > 0
  <1> DEFINE len == Len(z)
             k == len \div Hop
             s == q * Hop
             t == k * Hop
  <1>1. len \in Nat /\ k \in Nat /\ t <= len /\ len < t + Hop /\ s <= len
    BY HopIs, DivIs, LenProperties
  <1>2. s \in Nat /\ t \in Nat
    BY <1>1, HopIs, MulGrows
  <1>3. k < q => t + Hop <= s
    BY <1>1, HopIs, MulGrows
  <1>4. q <= k
    <2> HIDE DEF k, s, t, len
    <2> QED
      BY <1>1, <1>2, <1>3, HopIs
  <1>5. (len - s) \div Hop = k - q
    <2> DEFINE r == (k - q) * Hop
    <2>1. k - q \in Nat /\ (k - q) + q = k
      BY <1>1, <1>4
    <2> HIDE DEF k
    <2>2. t = r + s /\ r \in Nat
      BY <2>1, HopIs, MulGrows
    <2> HIDE DEF s, t, len
    <2>3. len - s \in Nat /\ r <= len - s /\ len - s < r + Hop
      BY <1>1, <1>2, <2>2, HopIs
    <2> QED
      BY <2>1, <2>3, HopIs, DivUnique
  <1> HIDE DEF k
  <1>6. LoudHops(z, s) = {at \in {s + i * Hop : i \in 0 .. (len - s) \div Hop - 1} :
                             \E i \in at + 1 .. at + Hop : z[i] > 0}
    BY DEF LoudHops
  <1>7. \A i \in 0 .. (k - q) - 1 : s + i * Hop = (q + i) * Hop /\ q + i \in q..(k - 1)
    <2>1. ASSUME NEW i \in 0 .. (k - q) - 1 PROVE s + i * Hop = (q + i) * Hop /\ q + i \in q..(k - 1)
      <3>1. i \in Nat /\ q + i \in q..(k - 1)
        BY <1>1, <1>4
      <3> QED
        BY <3>1, HopIs, MulGrows
    <2> QED
      BY <2>1
  <1>8. ASSUME NEW at, at \in LoudHops(z, s)
        PROVE  \E n \in q..(k - 1) : at = n * Hop
                                     /\ \E i \in (n * Hop + 1)..(n * Hop + Hop) : z[i] > 0
    <2>1. PICK i \in 0 .. (k - q) - 1 : at = s + i * Hop /\ \E j \in at + 1 .. at + Hop : z[j] > 0
      BY <1>5, <1>6, <1>8
    <2>2. at = (q + i) * Hop /\ q + i \in q..(k - 1)
      BY <1>7, <2>1
    <2> QED
      BY <2>1, <2>2
  <1>9. ASSUME NEW at, NEW n \in q..(k - 1), at = n * Hop,
               \E i \in (n * Hop + 1)..(n * Hop + Hop) : z[i] > 0
        PROVE  at \in LoudHops(z, s)
    <2>1. n - q \in 0 .. (k - q) - 1 /\ q + (n - q) = n
      BY <1>1, <1>4
    <2>2. s + (n - q) * Hop = n * Hop
      BY <1>7, <2>1
    <2> QED
      BY <1>5, <1>6, <1>9, <2>1, <2>2
  <1> QED
    BY <1>1, <1>4, <1>8, <1>9 DEF k

LEMMA OpensMore ==
    ASSUME NEW x \in Seq(Sample), NEW f \in Seq(Sample), NEW n, Opens(x, n)
    PROVE  Opens(x \o f, n)
  <1> DEFINE z == x \o f
             m == n * Hop
  <1>1. /\ Len(z) = Len(x) + Len(f)
        /\ \A i \in 1..Len(x) + Len(f) : z[i] = IF i <= Len(x) THEN x[i] ELSE f[i - Len(x)]
    BY ConcatProperties
  <1>2. /\ n \in Nat /\ m + Hop <= Len(x) /\ \A i \in 1..m : x[i] < 0
        /\ \E i \in (m + 1)..(m + Hop) : x[i] > 0
    BY DEF Opens
  <1>3. Len(x) \in Nat /\ Len(f) \in Nat /\ m \in Nat
    BY <1>2, HopIs, LenProperties, MulGrows
  <1> HIDE DEF z, m
  <1>4. \A i \in 1..(m + Hop) : i \in 1..Len(x) + Len(f) /\ i <= Len(x)
    BY <1>2, <1>3, HopIs
  <1>5. \A i \in 1..(m + Hop) : z[i] = x[i]
    BY <1>1, <1>4
  <1>6. \A i \in 1..m : i \in 1..(m + Hop)
    BY <1>3, HopIs
  <1>7. \A i \in (m + 1)..(m + Hop) : i \in 1..(m + Hop)
    BY <1>3, HopIs
  <1>8. m + Hop <= Len(z)
    BY <1>1, <1>2, <1>3, HopIs
  <1>9. /\ \A i \in 1..m : z[i] < 0
        /\ \E i \in (m + 1)..(m + Hop) : z[i] > 0
    BY <1>2, <1>5, <1>6, <1>7
  <1> QED
    BY <1>2, <1>8, <1>9 DEF Opens, z, m

\* Up to the scan nothing is loud, so the loud hops from there on are the only ones.
LEMMA ScanSilent ==
    ASSUME NEW z \in Seq(Sample), NEW q \in Nat, NEW n \in Nat, q <= n, n <= Len(z) \div Hop,
           \A i \in 1..q * Hop : z[i] < 0,
           q * Hop <= Len(z),
           \A m \in q..(n - 1) : ~ (m * Hop \in LoudHops(z, q * Hop))
    PROVE  \A i \in 1..n * Hop : z[i] < 0
  <1> SUFFICES ASSUME NEW j \in 1..n * Hop PROVE z[j] < 0
    OBVIOUS
  <1>1. PICK h \in 0..(n - 1) : j \in (h * Hop + 1)..(h * Hop + Hop)
    BY HopOf
  <1>2. h \in Nat /\ h < n
    BY <1>1
  <1> DEFINE s == h * Hop
             p == q * Hop
             t == n * Hop
             k == Len(z) \div Hop
             u == k * Hop
  <1>3. s \in Nat /\ p \in Nat /\ t \in Nat
    BY <1>2, HopIs, MulGrows
  <1>4. k \in Nat /\ u <= Len(z)
    BY LoudHopsIs
  <1>5. n <= k
    OBVIOUS
  <1> HIDE DEF k
  <1>6. t <= u /\ u \in Nat
    BY <1>4, <1>5, HopIs, MulGrows
  <1>7. j \in 1..Len(z)
    <2>1. Len(z) \in Nat
      BY LenProperties
    <2>2. j \in 1..t
      OBVIOUS
    <2> HIDE DEF t, u
    <2> QED
      BY <1>3, <1>4, <1>6, <2>1, <2>2
  <1>8. z[j] \in Int /\ z[j] # 0
    BY <1>7, ElementOfSeq DEF Sample
  <1>9. CASE h < q
    <2>1. s + Hop <= p
      BY <1>2, <1>9, HopIs, MulGrows
    <2>2. j \in (s + 1)..(s + Hop)
      BY <1>1
    <2> HIDE DEF s
    <2>3. j \in 1..p
      BY <1>3, <2>1, <2>2, HopIs
    <2> QED
      BY <2>3
  <1>10. CASE ~ (h < q)
    <2>1. h \in q..(n - 1)
      BY <1>2, <1>10
    <2>2. h \in q..(k - 1)
      BY <1>4, <1>5, <2>1
    <2>3. ~ (s \in LoudHops(z, q * Hop))
      BY <2>1
    <2>4. ~ \E i \in (s + 1)..(s + Hop) : z[i] > 0
      BY <2>2, <2>3, LoudHopsIs DEF k
    <2>5. ~ (z[j] > 0)
      BY <1>1, <2>4
    <2> QED
      BY <1>8, <2>5
  <1> QED
    BY <1>9, <1>10

LEMMA TrimStart == TrimState(NewTrimmer, <<>>, <<>>)
  <1>1. <<>> \in Seq(Sample) /\ Len(<<>>) = 0
    OBVIOUS
  <1>2. 0 \div Hop = 0 /\ 0 * Hop = 0
    <2>1. 0 * Hop = 0
      BY HopIs, MulGrows
    <2>2. 0 \div Hop = 0
      BY <2>1, HopIs, DivUnique
    <2> QED
      BY <2>1, <2>2
  <1>3. NewTrimmer \in Trimmer
    BY <1>1 DEF NewTrimmer, Trimmer
  <1>4. Silent(<<>>)
    BY <1>1, <1>2 DEF Silent
  <1> QED
    BY <1>1, <1>2, <1>3, <1>4 DEF TrimState, NewTrimmer

\* What the trimmer lets through, and what it holds, are the reading without
\* its leading silence, however the reading was cut into frames.
LEMMA TrimmedKeeps ==
    ASSUME NEW x \in Seq(Sample), NEW y \in Seq(Sample), NEW f \in Seq(Sample),
           NEW tr, TrimState(tr, x, y)
    PROVE  /\ Trimmed(tr, f).pcm \in Seq(Sample)
           /\ TrimState(Trimmed(tr, f).trimmer, x \o f, y \o Trimmed(tr, f).pcm)
  <1> DEFINE z == x \o f
             held == tr.held \o f
             loud == LoudHops(held, tr.scanned)
             start == CHOOSE at \in loud : \A other \in loud : at <= other
             rest == After(held, IF start > Keep THEN start - Keep ELSE 0)
             out == Trimmed(tr, f)
             waits == [tr EXCEPT !.held = held, !.scanned = (Len(held) \div Hop) * Hop]
             opens == [tr EXCEPT !.held = <<>>, !.passing = TRUE]
  <1>1. out = IF tr.passing THEN [trimmer |-> tr, pcm |-> f]
              ELSE IF loud = {} THEN [trimmer |-> waits, pcm |-> <<>>]
              ELSE [trimmer |-> opens, pcm |-> rest]
    BY DEF Trimmed
  <1>2. z \in Seq(Sample) /\ Len(z) = Len(x) + Len(f) /\ Len(x) \in Nat /\ Len(f) \in Nat
    BY ConcatProperties, LenProperties
  <1>3. /\ tr \in [held : Seq(Sample), scanned : Nat, passing : BOOLEAN]
        /\ \/ /\ tr.passing = FALSE /\ tr.held = x /\ y = <<>>
              /\ tr.scanned = (Len(x) \div Hop) * Hop /\ Silent(x)
           \/ /\ tr.passing = TRUE /\ tr.held = <<>>
              /\ \E n : Opens(x, n) /\ y = After(x, Dropped(n))
    BY DEF TrimState, Trimmer
  <1>4. <<>> \in Seq(Sample)
    OBVIOUS
  <1> HIDE DEF out
  <1>5. CASE tr.passing = TRUE
    <2>1. out.trimmer = tr /\ out.pcm = f
      BY <1>1, <1>5
    <2>2. PICK n : Opens(x, n) /\ y = After(x, Dropped(n))
      BY <1>3, <1>5
    <2>3. Opens(z, n)
      BY <2>2, OpensMore
    <2>4. y \o f = After(z, Dropped(n))
      BY <2>2, DroppedIs, AfterConcat
    <2> HIDE DEF z
    <2>5. TrimState(tr, z, y \o f)
      BY <1>3, <1>5, <2>3, <2>4 DEF TrimState, Trimmer
    <2> QED
      BY <2>1, <2>5 DEF out, z
  <1>6. CASE tr.passing = FALSE
    <2> DEFINE q == Len(x) \div Hop
               k == Len(z) \div Hop
    <2>1. /\ tr.held = x /\ y = <<>> /\ tr.scanned = q * Hop /\ \A i \in 1..q * Hop : x[i] < 0
      BY <1>3, <1>6 DEF Silent
    <2>2. held = z /\ loud = LoudHops(z, q * Hop)
      BY <2>1
    <2>3. q \in Nat /\ q * Hop <= Len(x) /\ q * Hop \in Nat
      <3>1. q \in Nat /\ q * Hop <= Len(x)
        BY <1>2, HopIs, DivIs
      <3> HIDE DEF q
      <3> QED
        BY <3>1, HopIs, MulGrows
    <2>4. q * Hop <= Len(z)
      <3> DEFINE p == q * Hop
      <3>1. p \in Nat /\ p <= Len(x)
        BY <2>3
      <3> HIDE DEF p
      <3>2. p <= Len(z)
        BY <1>2, <3>1
      <3> QED
        BY <3>2 DEF p
    <2>5. \A i \in 1..q * Hop : z[i] < 0
      <3>1. \A i \in 1..Len(x) : z[i] = x[i]
        <4>1. \A i \in 1..Len(x) : i \in 1..Len(x) + Len(f) /\ i <= Len(x)
          BY <1>2
        <4> QED
          BY <4>1, ConcatProperties
      <3>2. \A i \in 1..q * Hop : i \in 1..Len(x)
        <4> DEFINE p == q * Hop
        <4>1. p \in Nat /\ p <= Len(x)
          BY <2>3
        <4> HIDE DEF p
        <4>2. \A i \in 1..p : i \in 1..Len(x)
          BY <1>2, <4>1
        <4> QED
          BY <4>2 DEF p
      <3> QED
        BY <2>1, <3>1, <3>2
    <2> HIDE DEF z, held, loud, q
    <2>6. /\ q <= k /\ k \in Nat /\ k * Hop <= Len(z)
          /\ \A at : at \in loud <=>
                 \E n \in q..(k - 1) :
                     at = n * Hop /\ \E i \in (n * Hop + 1)..(n * Hop + Hop) : z[i] > 0
      BY <1>2, <2>2, <2>3, <2>4, LoudHopsIs
    <2>7. CASE loud = {}
      <3>1. out.trimmer = waits /\ out.pcm = <<>>
        BY <1>1, <1>6, <2>7
      <3>2. Silent(z)
        <4>1. \A m \in q..(k - 1) : ~ (m * Hop \in LoudHops(z, q * Hop))
          BY <2>2, <2>7
        <4>2. \A i \in 1..k * Hop : z[i] < 0
          <5>1. k <= Len(z) \div Hop
            BY <2>6
          <5> HIDE DEF k
          <5> QED
            BY <1>2, <2>3, <2>4, <2>5, <2>6, <4>1, <5>1, ScanSilent
        <4> QED
          BY <4>2 DEF Silent
      <3>3. k * Hop \in Nat
        <4> HIDE DEF k
        <4> QED
          BY <2>6, HopIs, MulGrows
      <3>4. waits \in Trimmer /\ waits.passing = FALSE /\ waits.held = z /\ waits.scanned = k * Hop
        <4>1. waits = [tr EXCEPT !.held = z, !.scanned = k * Hop]
          BY <2>2
        <4> DEFINE p == k * Hop
        <4>2. waits = [tr EXCEPT !.held = z, !.scanned = p] /\ p \in Nat
          BY <3>3, <4>1
        <4> HIDE DEF waits, p
        <4>3. waits \in Trimmer /\ waits.passing = FALSE /\ waits.held = z /\ waits.scanned = p
          BY <1>2, <1>3, <1>6, <4>2 DEF Trimmer
        <4> QED
          BY <4>3 DEF p
      <3> HIDE DEF waits
      <3>5. y \o <<>> = <<>>
        BY <1>4, <2>1, ConcatEmptySeq
      <3>6. TrimState(waits, z, <<>>)
        BY <3>2, <3>4 DEF TrimState
      <3> QED
        BY <1>4, <3>1, <3>5, <3>6 DEF out, z
    <2>8. CASE loud # {}
      <3>1. out.trimmer = opens /\ out.pcm = rest
        BY <1>1, <1>6, <2>8
      <3>2. loud \subseteq Nat
        <4> SUFFICES ASSUME NEW at \in loud PROVE at \in Nat
          OBVIOUS
        <4>1. PICK n \in q..(k - 1) : at = n * Hop
          BY <2>6
        <4>2. n \in Nat
          BY <2>3
        <4> QED
          BY <4>1, <4>2, HopIs, MulGrows
      <3>3. start \in loud /\ \A other \in loud : start <= other
        <4>1. \E at \in loud : \A other \in loud : at <= other
          BY <2>8, <3>2, Least
        <4> QED
          BY <4>1
      <3> HIDE DEF start
      <3>4. PICK n \in q..(k - 1) : /\ start = n * Hop
                                    /\ \E i \in (n * Hop + 1)..(n * Hop + Hop) : z[i] > 0
        BY <2>6, <3>3
      <3>5. n \in Nat /\ q <= n /\ n < k
        BY <2>3, <2>6
      <3>6. \A m \in q..(n - 1) : ~ (m * Hop \in LoudHops(z, q * Hop))
        <4> SUFFICES ASSUME NEW m \in q..(n - 1), m * Hop \in loud PROVE FALSE
          BY <2>2
        <4>1. m \in Nat /\ m < n
          BY <2>3, <3>5
        <4> DEFINE a == m * Hop
                   b == n * Hop
        <4>2. a + Hop <= b /\ a \in Nat /\ b \in Nat
          BY <3>5, <4>1, HopIs, MulGrows
        <4>3. b <= a
          BY <3>3, <3>4
        <4> HIDE DEF a, b
        <4> QED
          BY <4>2, <4>3, HopIs
      <3>7. \A i \in 1..n * Hop : z[i] < 0
        <4>1. n <= Len(z) \div Hop
          BY <2>6, <3>5
        <4> HIDE DEF k
        <4> QED
          BY <1>2, <2>3, <2>4, <2>5, <3>5, <3>6, <4>1, ScanSilent
      <3>8. n * Hop + Hop <= Len(z)
        <4> DEFINE a == n * Hop
                   b == k * Hop
        <4> HIDE DEF k
        <4>1. a + Hop <= b /\ a \in Nat /\ b \in Nat
          BY <2>6, <3>5, HopIs, MulGrows
        <4>2. b <= Len(z)
          BY <2>6
        <4> HIDE DEF a, b
        <4>3. a + Hop <= Len(z)
          BY <1>2, <4>1, <4>2, HopIs
        <4> QED
          BY <4>3 DEF a
      <3>9. Opens(z, n)
        BY <3>4, <3>5, <3>7, <3>8 DEF Opens
      <3>10. rest = After(z, Dropped(n))
        BY <2>2, <3>4 DEF Dropped
      <3> HIDE DEF rest
      <3>11. rest \in Seq(Sample)
        BY <1>2, <3>9, <3>10, DroppedIs, AfterIs
      <3>12. <<>> \o rest = rest
        BY <3>11, ConcatEmptySeq
      <3>13. opens \in Trimmer /\ opens.passing = TRUE /\ opens.held = <<>>
        BY <1>3, <1>4 DEF Trimmer
      <3> HIDE DEF opens
      <3>14. TrimState(opens, z, rest)
        BY <3>9, <3>10, <3>13 DEF TrimState
      <3>15. y \o rest = rest
        BY <2>1, <3>12
      <3> QED
        BY <3>1, <3>11, <3>14, <3>15 DEF out, z
    <2> QED
      BY <2>7, <2>8
  <1> QED
    BY <1>3, <1>5, <1>6

LEMMA TrimStateIs ==
    ASSUME NEW x \in Seq(Sample), NEW y, NEW tr, TrimState(tr, x, y)
    PROVE  /\ y \in Seq(Sample) /\ tr.held \in Seq(Sample)
           /\ y \o tr.held = WithoutLead(x)
           /\ x # <<>> => WithoutLead(x) # <<>>
           /\ tr \in Trimmer
  <1>1. CASE tr.passing = FALSE /\ tr.held = x /\ y = <<>> /\ Silent(x)
    <2>1. WithoutLead(x) = x
      BY <1>1, LeadSilent
    <2>2. <<>> \o x = x
      BY ConcatEmptySeq
    <2>3. <<>> \in Seq(Sample)
      OBVIOUS
    <2> QED
      BY <1>1, <2>1, <2>2, <2>3 DEF TrimState
  <1>2. ASSUME NEW n, Opens(x, n), tr.held = <<>>, y = After(x, Dropped(n))
        PROVE  /\ y \in Seq(Sample) /\ tr.held \in Seq(Sample)
               /\ y \o tr.held = WithoutLead(x)
               /\ x # <<>> => WithoutLead(x) # <<>>
    <2>1. WithoutLead(x) = y
      BY <1>2, LeadOpens
    <2>2. y \in Seq(Sample) /\ Len(y) = Len(x) - Dropped(n) /\ Dropped(n) < Len(x)
          /\ Dropped(n) \in 0..Len(x)
      BY <1>2, DroppedIs, AfterIs
    <2>3. y # <<>>
      <3>1. Len(y) > 0
        BY <2>2
      <3> QED
        BY <3>1
    <2>4. y \o <<>> = y /\ <<>> \in Seq(Sample)
      BY <2>2, ConcatEmptySeq
    <2> QED
      BY <1>2, <2>1, <2>2, <2>3, <2>4
  <1> QED
    BY <1>1, <1>2 DEF TrimState

LEMMA TrimLeadingIs ==
    ASSUME NEW x \in Seq(Sample)
    PROVE  TrimLeadingSilence(x) = WithoutLead(x) /\ WithoutLead(x) \in Seq(Sample)
           /\ (x # <<>> => WithoutLead(x) # <<>>)
  <1> DEFINE out == Trimmed(NewTrimmer, x)
             tr == out.trimmer
             y == out.pcm
  <1>1. <<>> \in Seq(Sample) /\ <<>> \o x = x
    BY ConcatEmptySeq
  <1>2. y \in Seq(Sample) /\ TrimState(tr, <<>> \o x, <<>> \o y)
    BY <1>1, TrimStart, TrimmedKeeps
  <1>3. <<>> \o y = y
    BY <1>2, ConcatEmptySeq
  <1>4. TrimState(tr, x, y)
    BY <1>1, <1>2, <1>3
  <1>5. TrimLeadingSilence(x) = y \o tr.held
    BY DEF TrimLeadingSilence
  <1> HIDE DEF y, tr
  <1>6. y \o tr.held = WithoutLead(x) /\ (x # <<>> => WithoutLead(x) # <<>>)
    BY <1>4, TrimStateIs
  <1>7. y \o tr.held \in Seq(Sample)
    BY <1>4, TrimStateIs, ConcatProperties
  <1> QED
    BY <1>5, <1>6, <1>7

------------------------------------------------------------------------------
(* The blocks of an mp3.                                                   *)

Byte == Int \cup [at : Nat, pcm : Seq(Sample)] \cup [length : Nat]

LEMMA SamplesAreBytes == Seq(Sample) \subseteq Seq(Byte)
  <1>1. Sample \subseteq Byte
    BY DEF Sample, Byte
  <1> QED
    BY <1>1, SeqMonotonic

LEMMA BlockSizeIs == Mp3Block \in Nat \ {0} /\ Mp3Block \in Nat /\ Mp3Block > 0
  BY EncodeAssumption

LEMMA AfterAfter ==
    ASSUME NEW S, NEW z \in Seq(S), NEW a \in 0..Len(z), NEW b \in 0..(Len(z) - a)
    PROVE  After(After(z, a), b) = After(z, a + b)
  <1> DEFINE s == After(z, a)
             t == After(s, b)
             u == After(z, a + b)
             n == Len(z)
  <1>1. n \in Nat /\ a \in Nat /\ b \in Nat /\ a + b \in 0..n
    BY LenProperties
  <1>2. s \in Seq(S) /\ Len(s) = n - a /\ \A i \in 1..(n - a) : s[i] = z[a + i]
    BY AfterIs
  <1> HIDE DEF s
  <1>3. b \in 0..Len(s)
    BY <1>2
  <1>4. t \in Seq(S) /\ Len(t) = Len(s) - b /\ \A i \in 1..(Len(s) - b) : t[i] = s[b + i]
    BY <1>2, <1>3, AfterIs
  <1>5. u \in Seq(S) /\ Len(u) = n - (a + b) /\ \A i \in 1..(n - (a + b)) : u[i] = z[(a + b) + i]
    BY <1>1, AfterIs
  <1> HIDE DEF t, u, n
  <1>6. Len(t) = Len(u)
    BY <1>1, <1>2, <1>4, <1>5
  <1>7. ASSUME NEW i \in 1..Len(t) PROVE t[i] = u[i]
    <2>1. i \in 1..(Len(s) - b) /\ b + i \in 1..(n - a) /\ i \in 1..(n - (a + b))
          /\ a + (b + i) = (a + b) + i
      BY <1>1, <1>2, <1>4
    <2> QED
      BY <1>2, <1>4, <1>5, <2>1
  <1>8. t = u
    BY <1>4, <1>5, <1>6, <1>7, SeqEqual
  <1> QED
    BY <1>8 DEF s, t, u

\* The first m blocks of a reading.
Blocks(y, m) ==
    [i \in 1..m |-> [at |-> i, pcm |-> SubSeq(y, (i - 1) * Mp3Block + 1, i * Mp3Block)]]

\* What the mp3 encoder holds when y was fed to it and b came out.
Mp3State(mp3, y, b) ==
    /\ mp3 \in [held : Seq(Sample), made : Nat]
    /\ mp3.made = Len(y) \div Mp3Block
    /\ mp3.held = After(y, mp3.made * Mp3Block)
    /\ b = Blocks(y, mp3.made)

LEMMA BlocksType ==
    ASSUME NEW y \in Seq(Sample), NEW m \in Nat, m * Mp3Block <= Len(y)
    PROVE  /\ Blocks(y, m) \in Seq(Byte) /\ Len(Blocks(y, m)) = m
           /\ \A i \in 1..m : /\ (i - 1) * Mp3Block + 1 \in 1..Len(y)
                              /\ i * Mp3Block \in 1..Len(y)
                              /\ Blocks(y, m)[i] = [at |-> i,
                                    pcm |-> SubSeq(y, (i - 1) * Mp3Block + 1, i * Mp3Block)]
  <1> DEFINE b == Blocks(y, m)
  <1>1. ASSUME NEW i \in 1..m
        PROVE  /\ (i - 1) * Mp3Block + 1 \in 1..Len(y)
               /\ i * Mp3Block \in 1..Len(y)
               /\ [at |-> i, pcm |-> SubSeq(y, (i - 1) * Mp3Block + 1, i * Mp3Block)] \in Byte
    <2> DEFINE p == (i - 1) * Mp3Block
               q == i * Mp3Block
               r == m * Mp3Block
    <2>1. i \in Nat /\ i - 1 \in Nat /\ i - 1 < i /\ i <= m
      OBVIOUS
    <2>2. p + Mp3Block <= q /\ q <= r /\ p \in Nat /\ q \in Nat /\ r \in Nat
      BY <2>1, BlockSizeIs, MulGrows
    <2>3. r <= Len(y) /\ Len(y) \in Nat
      BY LenProperties
    <2> HIDE DEF p, q, r
    <2>4. p + 1 \in 1..Len(y) /\ q \in 1..Len(y)
      BY <2>2, <2>3, BlockSizeIs
    <2>5. \A j \in (p + 1)..q : y[j] \in Sample
      <3>1. \A j \in (p + 1)..q : j \in 1..Len(y)
        BY <2>4, <2>3
      <3> QED
        BY <3>1, ElementOfSeq
    <2>6. SubSeq(y, p + 1, q) \in Seq(Sample)
      BY <2>4, <2>5, SubSeqProperties
    <2> DEFINE s == SubSeq(y, p + 1, q)
    <2>7. s \in Seq(Sample)
      BY <2>6
    <2> HIDE DEF s
    <2>8. [at |-> i, pcm |-> s] \in Byte
      BY <2>1, <2>7 DEF Byte
    <2> QED
      BY <2>4, <2>8 DEF p, q, s
  <1>2. b \in Seq(Byte) /\ Len(b) = m
    <2>1. \A i \in 1..m :
             [at |-> i, pcm |-> SubSeq(y, (i - 1) * Mp3Block + 1, i * Mp3Block)] \in Byte
      BY <1>1
    <2> QED
      BY <2>1 DEF Blocks
  <1>3. \A i \in 1..m : b[i] = [at |-> i,
                                pcm |-> SubSeq(y, (i - 1) * Mp3Block + 1, i * Mp3Block)]
    BY DEF Blocks
  <1> QED
    BY <1>1, <1>2, <1>3

LEMMA Mp3Start == Mp3State(NewMp3, <<>>, <<>>)
  <1>1. <<>> \in Seq(Sample) /\ Len(<<>>) = 0
    OBVIOUS
  <1>2. 0 * Mp3Block = 0
    BY BlockSizeIs, MulGrows
  <1>3. 0 \div Mp3Block = 0
    BY <1>2, BlockSizeIs, DivUnique
  <1>4. After(<<>>, 0) = <<>>
    BY <1>1, AfterNone
  <1>5. Blocks(<<>>, 0) = <<>>
    <2>1. 0 * Mp3Block <= Len(<<>>)
      BY <1>1, <1>2
    <2>2. Blocks(<<>>, 0) \in Seq(Byte) /\ Len(Blocks(<<>>, 0)) = 0
      BY <1>1, <2>1, BlocksType
    <2> DEFINE b == Blocks(<<>>, 0)
    <2>3. b \in Seq(Byte) /\ Len(b) = 0
      BY <2>2
    <2> HIDE DEF b
    <2>4. b = <<>>
      BY <2>3
    <2> QED
      BY <2>4 DEF b
  <1>6. NewMp3.made = 0 /\ NewMp3.held = <<>> /\ NewMp3 \in [held : Seq(Sample), made : Nat]
    BY <1>1 DEF NewMp3
  <1> QED
    BY <1>1, <1>2, <1>3, <1>4, <1>5, <1>6 DEF Mp3State

\* The blocks of a reading are the same however it was cut into frames.
LEMMA Mp3Keeps ==
    ASSUME NEW y \in Seq(Sample), NEW f \in Seq(Sample), NEW mp3, NEW b, Mp3State(mp3, y, b)
    PROVE  /\ Mp3Encoded(mp3, f).bytes \in Seq(Byte)
           /\ Mp3State(Mp3Encoded(mp3, f).mp3, y \o f, b \o Mp3Encoded(mp3, f).bytes)
  <1> DEFINE z == y \o f
             m == mp3.made
             c == m * Mp3Block
             all == mp3.held \o f
             n == Len(all) \div Mp3Block
             d == n * Mp3Block
             new == [i \in 1..n |->
                       [at |-> m + i,
                        pcm |-> SubSeq(all, (i - 1) * Mp3Block + 1, i * Mp3Block)]]
             next == [held |-> After(all, d), made |-> m + n]
  <1>1. Mp3Encoded(mp3, f).mp3 = next /\ Mp3Encoded(mp3, f).bytes = new
    BY DEF Mp3Encoded
  <1>2. /\ mp3.held \in Seq(Sample) /\ m \in Nat
        /\ m = Len(y) \div Mp3Block /\ mp3.held = After(y, c) /\ b = Blocks(y, m)
    BY DEF Mp3State
  <1>3. /\ z \in Seq(Sample) /\ Len(z) = Len(y) + Len(f) /\ Len(y) \in Nat /\ Len(f) \in Nat
    BY ConcatProperties, LenProperties
  <1>4. c \in Nat /\ c <= Len(y)
    <2>1. m \in Nat /\ c <= Len(y)
      BY <1>2, <1>3, BlockSizeIs, DivIs
    <2> HIDE DEF m
    <2> QED
      BY <2>1, BlockSizeIs, MulGrows
  <1> HIDE DEF next
  <1>5. all = After(z, c)
    <2>1. c \in 0..Len(y)
      BY <1>3, <1>4
    <2> HIDE DEF c
    <2> QED
      BY <1>2, <2>1, AfterConcat
  <1>6. all \in Seq(Sample) /\ Len(all) = Len(z) - c /\ Len(all) \in Nat
    <2>1. c \in 0..Len(z)
      BY <1>3, <1>4
    <2> HIDE DEF all, c, z
    <2> QED
      BY <1>3, <1>4, <1>5, <2>1, AfterIs, LenProperties
  <1>7. n \in Nat /\ d <= Len(all) /\ Len(all) < d + Mp3Block
    BY <1>6, BlockSizeIs, DivIs
  <1> HIDE DEF n
  <1>8. d \in Nat /\ (m + n) * Mp3Block = c + d
    BY <1>2, <1>7, BlockSizeIs, MulGrows
  <1>9. Len(z) \div Mp3Block = m + n /\ c + d <= Len(z)
    <2> DEFINE e == (m + n) * Mp3Block
    <2>1. e = c + d
      BY <1>8
    <2> HIDE DEF c, d, all, z, e
    <2>2. e <= Len(z) /\ Len(z) < e + Mp3Block /\ Len(z) \in Nat
      BY <1>3, <1>4, <1>6, <1>7, <1>8, <2>1, BlockSizeIs
    <2>3. m + n \in Nat
      BY <1>2, <1>7
    <2> HIDE DEF m
    <2>4. Len(z) \div Mp3Block = m + n
      BY <2>2, <2>3, BlockSizeIs, DivUnique DEF e
    <2> QED
      BY <2>1, <2>2, <2>4
  <1>10. After(all, d) = After(z, c + d) /\ After(all, d) \in Seq(Sample)
    <2>1. c \in 0..Len(z) /\ d \in 0..(Len(z) - c) /\ d \in 0..Len(all)
      BY <1>3, <1>4, <1>6, <1>7, <1>8
    <2> HIDE DEF all, c, d, z
    <2> QED
      BY <1>3, <1>5, <1>6, <2>1, AfterAfter, AfterIs
  <1>11. ASSUME NEW i \in 1..n
         PROVE  /\ SubSeq(all, (i - 1) * Mp3Block + 1, i * Mp3Block)
                     = SubSeq(z, ((m + i) - 1) * Mp3Block + 1, (m + i) * Mp3Block)
                /\ SubSeq(all, (i - 1) * Mp3Block + 1, i * Mp3Block) \in Seq(Sample)
    <2> DEFINE p == (i - 1) * Mp3Block + 1
               q == i * Mp3Block
    <2>1. d <= Len(all)
      BY <1>7
    <2>2. p \in 1..Len(all) /\ q \in 1..Len(all)
      <3> HIDE DEF all
      <3> QED
        BY <1>6, <1>7, BlocksType
    <2>3. c + 1 \in 1..Len(z) /\ Len(z) \in 1..Len(z)
      <3> HIDE DEF c, z, all, p, q
      <3> QED
        BY <1>3, <1>4, <1>6, <2>2
    <2>4. p \in 1..Len(z) - (c + 1) + 1 /\ q \in 1..Len(z) - (c + 1) + 1
      <3> HIDE DEF c, z, all, p, q
      <3> QED
        BY <1>3, <1>4, <1>6, <2>2
    <2>5. all = SubSeq(z, c + 1, Len(z))
      BY <1>5 DEF After
    <2>6. SubSeq(SubSeq(z, c + 1, Len(z)), p, q) = SubSeq(z, (c + 1) + p - 1, (c + 1) + q - 1)
      <3> DEFINE e == c + 1
                 len == Len(z)
      <3>1. z \in Seq(Sample) /\ e \in 1..len /\ len \in 1..len
        BY <1>3, <2>3
      <3>2. p \in 1..len - e + 1 /\ q \in 1..len - e + 1
        BY <2>4
      <3> HIDE DEF e, z, all, p, q
      <3>3. SubSeq(SubSeq(z, e, len), p, q) = SubSeq(z, e + p - 1, e + q - 1)
        BY <3>1, <3>2, SubSeqOfSubSeq
      <3> QED
        BY <3>3 DEF e
    <2>7. (c + 1) + p - 1 = ((m + i) - 1) * Mp3Block + 1 /\ (c + 1) + q - 1 = (m + i) * Mp3Block
      <3>1. (m + i) - 1 = m + (i - 1) /\ i \in Nat /\ i - 1 \in Nat
        BY <1>2
      <3>2. (m + (i - 1)) * Mp3Block = c + (i - 1) * Mp3Block /\ (m + i) * Mp3Block = c + q
        BY <1>2, <3>1, BlockSizeIs, MulGrows
      <3> DEFINE r == (i - 1) * Mp3Block
      <3>3. r \in Nat /\ q \in Nat /\ p = r + 1
        BY <3>1, BlockSizeIs, MulGrows
      <3>4. ((m + i) - 1) * Mp3Block = c + r
        BY <3>1, <3>2
      <3> HIDE DEF r, q, p, c
      <3>5. (c + 1) + p - 1 = (c + r) + 1 /\ (c + 1) + q - 1 = c + q
        BY <1>4, <3>3
      <3> QED
        BY <3>2, <3>4, <3>5
    <2>8. \A j \in p..q : all[j] \in Sample
      <3> HIDE DEF all, p, q
      <3>1. \A j \in p..q : j \in 1..Len(all)
        BY <1>6, <2>2
      <3> QED
        BY <1>6, <3>1, ElementOfSeq
    <2>9. SubSeq(all, p, q) \in Seq(Sample)
      <3>1. p \in Int /\ q \in Int
        BY <2>2
      <3> HIDE DEF all, p, q
      <3> QED
        BY <2>8, <3>1, SubSeqProperties
    <2> QED
      BY <2>5, <2>6, <2>7, <2>9
  <1>12. new \in Seq(Byte) /\ Len(new) = n
    <2>1. \A i \in 1..n : [at |-> m + i,
                           pcm |-> SubSeq(all, (i - 1) * Mp3Block + 1, i * Mp3Block)] \in Byte
      <3> SUFFICES ASSUME NEW i \in 1..n
                   PROVE  [at |-> m + i,
                           pcm |-> SubSeq(all, (i - 1) * Mp3Block + 1, i * Mp3Block)] \in Byte
        OBVIOUS
      <3> DEFINE s == SubSeq(all, (i - 1) * Mp3Block + 1, i * Mp3Block)
      <3>1. s \in Seq(Sample)
        BY <1>11
      <3>2. m + i \in Nat
        <4> HIDE DEF m
        <4> QED
          BY <1>2
      <3> HIDE DEF s, all, m
      <3>3. [at |-> m + i, pcm |-> s] \in Byte
        BY <3>1, <3>2 DEF Byte
      <3> QED
        BY <3>3 DEF s
    <2> HIDE DEF all
    <2> QED
      BY <1>7, <2>1
  <1>13. \A i \in 1..n : new[i] = [at |-> m + i,
                                   pcm |-> SubSeq(z, ((m + i) - 1) * Mp3Block + 1,
                                                  (m + i) * Mp3Block)]
    <2>1. \A i \in 1..n : new[i] = [at |-> m + i,
                             pcm |-> SubSeq(all, (i - 1) * Mp3Block + 1, i * Mp3Block)]
      OBVIOUS
    <2> HIDE DEF new, all
    <2> QED
      BY <1>11, <2>1
  <1> HIDE DEF new
  <1> DEFINE g == Blocks(z, m + n)
             h == Blocks(y, m)
             k == h \o new
  <1>14. /\ g \in Seq(Byte) /\ Len(g) = m + n
         /\ \A i \in 1..(m + n) :
               g[i] = [at |-> i, pcm |-> SubSeq(z, (i - 1) * Mp3Block + 1, i * Mp3Block)]
    <2>1. m + n \in Nat /\ (m + n) * Mp3Block <= Len(z)
      BY <1>2, <1>7, <1>8, <1>9
    <2> HIDE DEF z, m
    <2> QED
      BY <1>3, <2>1, BlocksType
  <1>15. /\ h \in Seq(Byte) /\ Len(h) = m
         /\ \A i \in 1..m : /\ (i - 1) * Mp3Block + 1 \in 1..Len(y) /\ i * Mp3Block \in 1..Len(y)
                            /\ h[i] = [at |-> i,
                                       pcm |-> SubSeq(y, (i - 1) * Mp3Block + 1, i * Mp3Block)]
    BY <1>2, <1>4, BlocksType
  <1> HIDE DEF g, h
  <1>16. /\ k \in Seq(Byte) /\ Len(k) = m + n
         /\ \A i \in 1..(m + n) : k[i] = IF i <= m THEN h[i] ELSE new[i - m]
    <2>1. h \in Seq(Byte) /\ new \in Seq(Byte) /\ Len(h) = m /\ Len(new) = n
      BY <1>12, <1>15
    <2> HIDE DEF m, z, c, d, all
    <2> QED
      BY <2>1, ConcatProperties
  <1> HIDE DEF k
  <1>17. \A i \in 1..m : SubSeq(z, (i - 1) * Mp3Block + 1, i * Mp3Block)
                           = SubSeq(y, (i - 1) * Mp3Block + 1, i * Mp3Block)
    BY <1>15, SubSeqOfConcat1
  <1>18. ASSUME NEW i \in 1..(m + n) PROVE k[i] = g[i]
    <2>1. CASE i <= m
      <3>1. i \in 1..m
        BY <1>2, <2>1
      <3> HIDE DEF z, m, c, d, all
      <3> QED
        BY <1>14, <1>15, <1>16, <1>17, <2>1, <3>1
    <2>2. CASE ~ (i <= m)
      <3>1. i - m \in 1..n /\ m + (i - m) = i
        BY <1>2, <1>7, <2>2
      <3>2. k[i] = new[i - m]
        BY <1>16, <2>2
      <3> HIDE DEF z, m, c, d, all
      <3>3. new[i - m] = [at |-> i, pcm |-> SubSeq(z, (i - 1) * Mp3Block + 1, i * Mp3Block)]
        BY <1>13, <3>1
      <3> QED
        BY <1>14, <3>2, <3>3
    <2> QED
      BY <2>1, <2>2
  <1>19. k = g
    BY <1>14, <1>16, <1>18, SeqEqual
  <1>20. next.held = After(all, d) /\ next.made = m + n
         /\ next \in [held : Seq(Sample), made : Nat]
    <2>1. m + n \in Nat
      BY <1>2, <1>7
    <2> HIDE DEF all, m, d
    <2> QED
      BY <1>10, <2>1 DEF next
  <1>21. Mp3State(next, z, k)
    <2> HIDE DEF all, c, d, z, m
    <2>1. next.held = After(z, next.made * Mp3Block)
      BY <1>8, <1>10, <1>20
    <2> QED
      BY <1>9, <1>19, <1>20, <2>1 DEF Mp3State, g
  <1> QED
    BY <1>1, <1>2, <1>12, <1>21 DEF k, h

------------------------------------------------------------------------------
(* The encoder of a sentence, frame by frame and at once.                  *)

LEMMA BytesAssociate ==
    ASSUME NEW a \in Seq(Byte), NEW b \in Seq(Byte), NEW c \in Seq(Byte)
    PROVE  (a \o b) \o c = a \o (b \o c)
  BY ConcatAssociative

Encoder == [format : {"mp3", "pcm"}, trimmer : Trimmer, mp3 : [held : Seq(Sample), made : Nat]]

\* What came out of an encoder, y having been let through by its trimmer.
OutOf(enc, y, o) == IF enc.format = "mp3" THEN Mp3State(enc.mp3, y, o) ELSE o = y

\* What an encoder holds when x was fed to it and o came out.
EncState(enc, format, x, o) ==
    /\ enc \in Encoder
    /\ enc.format = format
    /\ \E y \in Seq(Sample) : TrimState(enc.trimmer, x, y) /\ OutOf(enc, y, o)

LEMMA OutType ==
    ASSUME NEW enc, NEW y \in Seq(Sample), NEW o, OutOf(enc, y, o)
    PROVE  o \in Seq(Byte)
  <1>1. CASE enc.format = "mp3"
    <2> DEFINE m == enc.mp3.made
    <2>1. m \in Nat /\ m = Len(y) \div Mp3Block /\ o = Blocks(y, m)
      BY <1>1 DEF OutOf, Mp3State
    <2>2. m * Mp3Block <= Len(y)
      BY <2>1, BlockSizeIs, DivIs, LenProperties
    <2> HIDE DEF m
    <2> QED
      BY <2>1, <2>2, BlocksType
  <1>2. CASE enc.format # "mp3"
    BY <1>2, SamplesAreBytes DEF OutOf
  <1> QED
    BY <1>1, <1>2

LEMMA EncType ==
    ASSUME NEW enc, NEW format, NEW x, NEW o, EncState(enc, format, x, o)
    PROVE  o \in Seq(Byte)
  BY OutType DEF EncState

LEMMA EncStart ==
    ASSUME NEW format \in {"mp3", "pcm"}
    PROVE  EncState(NewChunked(format), format, <<>>, <<>>)
  <1> DEFINE enc == NewChunked(format)
  <1>1. <<>> \in Seq(Sample)
    OBVIOUS
  <1>2. TrimState(NewTrimmer, <<>>, <<>>) /\ NewTrimmer \in Trimmer
    BY TrimStart DEF TrimState
  <1>3. Mp3State(NewMp3, <<>>, <<>>) /\ NewMp3 \in [held : Seq(Sample), made : Nat]
    BY Mp3Start DEF Mp3State
  <1>4. /\ enc \in Encoder /\ enc.format = format
        /\ enc.trimmer = NewTrimmer /\ enc.mp3 = NewMp3
    BY <1>2, <1>3 DEF Encoder, NewChunked
  <1> HIDE DEF enc
  <1>5. OutOf(enc, <<>>, <<>>)
    BY <1>3, <1>4 DEF OutOf
  <1>6. EncState(enc, format, <<>>, <<>>)
    BY <1>1, <1>2, <1>4, <1>5 DEF EncState
  <1> QED
    BY <1>6 DEF enc

LEMMA CodedKeeps ==
    ASSUME NEW enc \in Encoder, NEW y \in Seq(Sample), NEW o, OutOf(enc, y, o),
           NEW g \in Seq(Sample)
    PROVE  /\ Coded(enc, g).chunked \in Encoder
           /\ Coded(enc, g).chunked.format = enc.format
           /\ Coded(enc, g).chunked.trimmer = enc.trimmer
           /\ Coded(enc, g).bytes \in Seq(Byte)
           /\ OutOf(Coded(enc, g).chunked, y \o g, o \o Coded(enc, g).bytes)
  <1> DEFINE c == Coded(enc, g)
             fed == Mp3Encoded(enc.mp3, g)
             more == [enc EXCEPT !.mp3 = fed.mp3]
  <1>1. c = IF g = <<>> THEN [chunked |-> enc, bytes |-> <<>>]
            ELSE IF enc.format = "mp3" THEN [chunked |-> more, bytes |-> fed.bytes]
            ELSE [chunked |-> enc, bytes |-> g]
    BY DEF Coded
  <1>2. enc \in [format : {"mp3", "pcm"}, trimmer : Trimmer, mp3 : [held : Seq(Sample), made : Nat]]
    BY DEF Encoder
  <1> HIDE DEF c
  <1>3. CASE g = <<>>
    <2>1. c.chunked = enc /\ c.bytes = <<>>
      BY <1>1, <1>3
    <2>2. o \in Seq(Byte)
      BY OutType
    <2>3. y \o <<>> = y /\ o \o <<>> = o /\ <<>> \in Seq(Byte)
      BY <2>2, ConcatEmptySeq
    <2> QED
      BY <1>3, <2>1, <2>3 DEF c
  <1>4. CASE g # <<>> /\ enc.format = "mp3"
    <2>1. c.chunked = more /\ c.bytes = fed.bytes
      BY <1>1, <1>4
    <2>2. Mp3State(enc.mp3, y, o)
      BY <1>4 DEF OutOf
    <2>3. fed.bytes \in Seq(Byte) /\ Mp3State(fed.mp3, y \o g, o \o fed.bytes)
      BY <2>2, Mp3Keeps
    <2>4. fed.mp3 \in [held : Seq(Sample), made : Nat]
      BY <2>3 DEF Mp3State
    <2> DEFINE fmp3 == fed.mp3
    <2> HIDE DEF fed
    <2>5. /\ more \in [format : {"mp3", "pcm"}, trimmer : Trimmer,
                       mp3 : [held : Seq(Sample), made : Nat]]
          /\ more.format = enc.format /\ more.trimmer = enc.trimmer /\ more.mp3 = fed.mp3
      BY <1>2, <2>4
    <2> HIDE DEF more
    <2>6. OutOf(more, y \o g, o \o fed.bytes)
      BY <1>4, <2>3, <2>5 DEF OutOf
    <2> QED
      BY <2>1, <2>3, <2>5, <2>6 DEF c, Encoder
  <1>5. CASE g # <<>> /\ enc.format # "mp3"
    <2>1. c.chunked = enc /\ c.bytes = g
      BY <1>1, <1>5
    <2>2. o = y /\ g \in Seq(Byte)
      BY <1>5, SamplesAreBytes DEF OutOf
    <2>3. OutOf(enc, y \o g, o \o g)
      BY <1>5, <2>2 DEF OutOf
    <2> QED
      BY <2>1, <2>2, <2>3 DEF c
  <1> QED
    BY <1>3, <1>4, <1>5

\* A frame more fed to the encoder.
LEMMA PushedKeeps ==
    ASSUME NEW enc, NEW format, NEW x \in Seq(Sample), NEW o, EncState(enc, format, x, o),
           NEW f \in Seq(Sample)
    PROVE  /\ Pushed(enc, f).bytes \in Seq(Byte)
           /\ EncState(Pushed(enc, f).chunked, format, x \o f, o \o Pushed(enc, f).bytes)
  <1> DEFINE t == Trimmed(enc.trimmer, f)
             e == [enc EXCEPT !.trimmer = t.trimmer]
             c == Coded(e, t.pcm)
  <1>1. Pushed(enc, f) = c
    BY DEF Pushed
  <1>2. PICK y \in Seq(Sample) : TrimState(enc.trimmer, x, y) /\ OutOf(enc, y, o)
    BY DEF EncState
  <1>3. /\ enc.format = format
        /\ enc \in [format : {"mp3", "pcm"}, trimmer : Trimmer,
                    mp3 : [held : Seq(Sample), made : Nat]]
    BY DEF EncState, Encoder
  <1>4. t.pcm \in Seq(Sample) /\ TrimState(t.trimmer, x \o f, y \o t.pcm)
    BY <1>2, TrimmedKeeps
  <1>5. t.trimmer \in Trimmer
    BY <1>4 DEF TrimState
  <1> HIDE DEF t
  <1>6. e \in Encoder /\ e.format = format /\ e.trimmer = t.trimmer /\ e.mp3 = enc.mp3
    BY <1>3, <1>5 DEF Encoder
  <1> HIDE DEF e
  <1>7. OutOf(e, y, o)
    BY <1>2, <1>3, <1>6 DEF OutOf
  <1>8. /\ c.chunked \in Encoder /\ c.chunked.format = e.format
        /\ c.chunked.trimmer = e.trimmer /\ c.bytes \in Seq(Byte)
        /\ OutOf(c.chunked, y \o t.pcm, o \o c.bytes)
    BY <1>4, <1>6, <1>7, CodedKeeps
  <1> HIDE DEF c
  <1>9. y \o t.pcm \in Seq(Sample)
    BY <1>4, ConcatProperties
  <1>10. TrimState(c.chunked.trimmer, x \o f, y \o t.pcm)
    BY <1>4, <1>6, <1>8
  <1>11. EncState(c.chunked, format, x \o f, o \o c.bytes)
    BY <1>6, <1>8, <1>9, <1>10 DEF EncState
  <1> QED
    BY <1>1, <1>8, <1>11

\* A sentence encoded on its own, whole.
Alone(format, pcm) == Encoded(format, WithoutLead(pcm))

LEMMA Mp3EncodedIs ==
    ASSUME NEW y \in Seq(Sample), NEW mp3, NEW b, Mp3State(mp3, y, b)
    PROVE  Encoded("mp3", y) = b \o Mp3Flushed(mp3) /\ Mp3Flushed(mp3) \in Seq(Byte)
           /\ Mp3Flushed(mp3) # <<>>
  <1> DEFINE fed == Mp3Encoded(NewMp3, y)
             m == fed.mp3
             bytes == fed.bytes
  <1>1. Encoded("mp3", y) = bytes \o Mp3Flushed(m)
    BY DEF Encoded
  <1>2. <<>> \in Seq(Sample) /\ <<>> \o y = y
    BY ConcatEmptySeq
  <1>3. bytes \in Seq(Byte) /\ Mp3State(m, <<>> \o y, <<>> \o bytes)
    BY <1>2, Mp3Start, Mp3Keeps
  <1> HIDE DEF bytes, m
  <1>4. <<>> \o bytes = bytes
    BY <1>3, ConcatEmptySeq
  <1>5. Mp3State(m, y, bytes)
    BY <1>2, <1>3, <1>4
  <1>6. m.made = mp3.made /\ m.held = mp3.held /\ bytes = b
    BY <1>5 DEF Mp3State
  <1>7. Mp3Flushed(m) = Mp3Flushed(mp3)
    BY <1>6 DEF Mp3Flushed
  <1>8. mp3.made + 1 \in Nat /\ mp3.held \in Seq(Sample)
    BY DEF Mp3State
  <1> DEFINE r == [at |-> mp3.made + 1, pcm |-> mp3.held]
  <1>9. r \in Byte
    BY <1>8 DEF Byte
  <1>10. Mp3Flushed(mp3) = <<r>>
    BY DEF Mp3Flushed
  <1> HIDE DEF r
  <1>11. <<r>> \in Seq(Byte) /\ <<r>> # <<>>
    BY <1>9
  <1> QED
    BY <1>1, <1>6, <1>7, <1>10, <1>11

LEMMA FinishedIs ==
    ASSUME NEW enc, NEW format, NEW x \in Seq(Sample), NEW o, EncState(enc, format, x, o)
    PROVE  Alone(format, x) = o \o Finished(enc) /\ Finished(enc) \in Seq(Byte)
  <1> DEFINE h == enc.trimmer.held
             c == Coded(enc, h)
             w == WithoutLead(x)
             d == c.bytes
  <1>1. PICK y \in Seq(Sample) : TrimState(enc.trimmer, x, y) /\ OutOf(enc, y, o)
    BY DEF EncState
  <1>2. enc \in Encoder /\ enc.format = format
    BY DEF EncState
  <1>3. h \in Seq(Sample) /\ y \o h = w
    BY <1>1, TrimStateIs
  <1>4. w \in Seq(Sample)
    BY TrimLeadingIs
  <1>5. Finished(enc) = d \o (IF format = "mp3" THEN Mp3Flushed(c.chunked.mp3) ELSE <<>>)
    BY <1>2 DEF Finished
  <1> HIDE DEF w, h
  <1>6. /\ c.chunked.format = format /\ d \in Seq(Byte) /\ OutOf(c.chunked, w, o \o d)
    BY <1>1, <1>2, <1>3, CodedKeeps
  <1> HIDE DEF d, c
  <1>7. o \in Seq(Byte)
    BY EncType
  <1>8. Alone(format, x) = Encoded(format, w)
    BY DEF Alone, w
  <1>9. CASE format = "mp3"
    <2> DEFINE f == Mp3Flushed(c.chunked.mp3)
    <2>1. Mp3State(c.chunked.mp3, w, o \o d)
      BY <1>6, <1>9 DEF OutOf
    <2>2. Encoded("mp3", w) = (o \o d) \o f /\ f \in Seq(Byte)
      BY <1>4, <2>1, Mp3EncodedIs
    <2> HIDE DEF f
    <2>3. (o \o d) \o f = o \o (d \o f)
      BY <1>6, <1>7, <2>2, BytesAssociate
    <2>4. d \o f \in Seq(Byte)
      BY <1>6, <2>2, ConcatProperties
    <2> QED
      BY <1>5, <1>8, <1>9, <2>2, <2>3, <2>4 DEF f
  <1>10. CASE format # "mp3"
    <2>1. format = "pcm"
      BY <1>2, <1>10 DEF Encoder
    <2>2. Encoded(format, w) = w
      BY <2>1 DEF Encoded
    <2>3. o \o d = w
      BY <1>6, <1>10 DEF OutOf
    <2>4. d \o <<>> = d
      BY <1>6, ConcatEmptySeq
    <2> QED
      BY <1>5, <1>6, <1>8, <1>10, <2>2, <2>3, <2>4
  <1> QED
    BY <1>9, <1>10

LEMMA AloneType ==
    ASSUME NEW format \in Format, NEW x \in Seq(Sample)
    PROVE  /\ Alone(format, x) \in Seq(Byte)
           /\ x # <<>> => Alone(format, x) # <<>>
  <1> DEFINE w == WithoutLead(x)
  <1>1. w \in Seq(Sample) /\ (x # <<>> => w # <<>>)
    BY TrimLeadingIs
  <1>2. Alone(format, x) = Encoded(format, w)
    BY DEF Alone
  <1> HIDE DEF w
  <1>3. w \in Seq(Byte)
    BY <1>1, SamplesAreBytes
  <1>4. CASE format = "pcm"
    BY <1>1, <1>2, <1>3, <1>4 DEF Encoded
  <1>5. CASE format = "wav"
    <2> DEFINE r == [length |-> Len(w)]
    <2>1. r \in Byte
      BY <1>1 DEF Byte
    <2>2. Encoded("wav", w) = <<r>> \o w
      BY DEF Encoded
    <2> HIDE DEF r
    <2>3. <<r>> \in Seq(Byte) /\ <<r>> # <<>>
      BY <2>1
    <2> DEFINE s == <<r>>
    <2>4. s \in Seq(Byte) /\ s # <<>> /\ Encoded("wav", w) = s \o w
      BY <2>2, <2>3
    <2> HIDE DEF s
    <2>5. s \o w \in Seq(Byte) /\ s \o w # <<>>
      BY <1>3, <2>4, ConcatProperties, ConcatEqualIffEmpty
    <2> QED
      BY <1>2, <1>5, <2>4, <2>5
  <1>6. CASE format = "mp3"
    <2> DEFINE fed == Mp3Encoded(NewMp3, w)
               m == fed.mp3
               b == fed.bytes
    <2>1. <<>> \in Seq(Sample) /\ <<>> \o w = w
      BY <1>1, ConcatEmptySeq
    <2>2. b \in Seq(Byte) /\ Mp3State(m, w, <<>> \o b)
      BY <1>1, <2>1, Mp3Start, Mp3Keeps
    <2> HIDE DEF b, m
    <2>3. <<>> \o b = b
      BY <2>2, ConcatEmptySeq
    <2>4. Mp3State(m, w, b)
      BY <2>2, <2>3
    <2> DEFINE f == Mp3Flushed(m)
    <2>5. Encoded("mp3", w) = b \o f /\ f \in Seq(Byte) /\ f # <<>>
      BY <1>1, <2>4, Mp3EncodedIs
    <2> HIDE DEF f
    <2>6. b \o f \in Seq(Byte) /\ b \o f # <<>>
      BY <2>2, <2>5, ConcatProperties, ConcatEqualIffEmpty
    <2> QED
      BY <1>2, <1>6, <2>5, <2>6
  <1> QED
    BY <1>4, <1>5, <1>6 DEF Format

------------------------------------------------------------------------------
(* The reading: what was sent, and how far it was received.                *)

\* The samples sent of each sentence, when e of them are ended.
Spoken(sp, e) ==
    /\ sp \in Seq(Seq(Sample))
    /\ e \in Nat /\ e <= Len(sp) /\ Len(sp) <= e + 1
    /\ \A i \in 1..Len(sp) : sp[i] # <<>>

\* What was sent of the sentence after those.
Open(sp, e) == IF Len(sp) > e THEN sp[e + 1] ELSE <<>>

\* A place in the reading: k sentences are passed, and p samples of the next.
Place(k, p) == [k |-> k, p |-> p]

Given(sp, at) == IF at.k < Len(sp) THEN SubSeq(sp[at.k + 1], 1, at.p) ELSE <<>>

PlacesIn(sp, e) ==
    {at \in [k : 0..e, p : Nat] :
        IF at.k < Len(sp) THEN at.p <= Len(sp[at.k + 1]) ELSE at.p = 0}

\* A piece leads from one place to the next.
Moves(sp, e, piece, from, to) ==
    IF piece = SegmentEnd
    THEN from.k < e /\ from.p = Len(sp[from.k + 1]) /\ to = Place(from.k + 1, 0)
    ELSE /\ from.k < Len(sp) /\ to.k = from.k /\ to.p = from.p + Len(piece)
         /\ Given(sp, to) = Given(sp, from) \o piece

\* The pieces of a channel lead from place to place, up to all that was sent.
Path(at, ch, sp, e) ==
    /\ at \in [0..Len(ch) -> PlacesIn(sp, e)]
    /\ at[Len(ch)] = Place(e, Len(Open(sp, e)))
    /\ \A j \in 1..Len(ch) : Moves(sp, e, ch[j], at[j - 1], at[j])

Reached(first, ch, sp, e) == \E at : Path(at, ch, sp, e) /\ at[0] = first

LEMMA ReachedStart == Spoken(<<>>, 0) /\ Reached(Place(0, 0), <<>>, <<>>, 0)
  <1>1. <<>> \in Seq(Seq(Sample)) /\ Len(<<>>) = 0
    OBVIOUS
  <1>2. Spoken(<<>>, 0)
    BY <1>1 DEF Spoken
  <1> DEFINE at == [j \in 0..0 |-> Place(0, 0)]
  <1>3. Place(0, 0) \in PlacesIn(<<>>, 0)
    BY <1>1 DEF Place, PlacesIn
  <1>4. Open(<<>>, 0) = <<>>
    BY <1>1 DEF Open
  <1>5. Path(at, <<>>, <<>>, 0)
    BY <1>1, <1>3, <1>4 DEF Path
  <1>6. at[0] = Place(0, 0)
    OBVIOUS
  <1> HIDE DEF at
  <1> QED
    BY <1>2, <1>5, <1>6 DEF Reached

LEMMA OpenType ==
    ASSUME NEW sp, NEW e, Spoken(sp, e)
    PROVE  /\ Open(sp, e) \in Seq(Sample) /\ Len(Open(sp, e)) \in Nat
           /\ Len(sp) \in Nat
           /\ Len(sp) = e \/ Len(sp) = e + 1
           /\ Len(sp) = e => Open(sp, e) = <<>>
           /\ Len(sp) = e + 1 => Open(sp, e) = sp[e + 1] /\ Open(sp, e) # <<>>
           /\ Place(e, Len(Open(sp, e))) \in PlacesIn(sp, e)
           /\ Given(sp, Place(e, Len(Open(sp, e)))) = Open(sp, e)
  <1> DEFINE n == Len(sp)
             o == Open(sp, e)
             end == Place(e, Len(o))
  <1>1. /\ sp \in Seq(Seq(Sample)) /\ e \in Nat /\ e <= n /\ n <= e + 1 /\ n \in Nat
        /\ \A i \in 1..n : sp[i] # <<>> /\ sp[i] \in Seq(Sample)
    <2>1. sp \in Seq(Seq(Sample)) /\ \A i \in 1..n : sp[i] # <<>>
      BY DEF Spoken
    <2>2. \A i \in 1..n : sp[i] \in Seq(Sample)
      BY <2>1, ElementOfSeq
    <2> QED
      BY <2>1, <2>2 DEF Spoken
  <1>2. n = e \/ n = e + 1
    <2> HIDE DEF n
    <2> QED
      BY <1>1
  <1>3. CASE n = e
    <2>1. o = <<>> /\ <<>> \in Seq(Sample) /\ Len(<<>>) = 0
      BY <1>1, <1>3 DEF Open
    <2>2. end.k = e /\ end.p = 0 /\ end \in [k : 0..e, p : Nat]
      BY <1>1, <2>1 DEF Place
    <2>3. end \in PlacesIn(sp, e)
      BY <1>1, <1>3, <2>2 DEF PlacesIn
    <2>4. Given(sp, end) = <<>>
      BY <1>1, <1>3, <2>2 DEF Given
    <2> QED
      BY <1>1, <1>3, <2>1, <2>3, <2>4
  <1>4. CASE n = e + 1
    <2>1. e + 1 \in 1..n
      BY <1>1, <1>4
    <2>2. o = sp[e + 1] /\ o \in Seq(Sample) /\ o # <<>>
      BY <1>1, <1>4, <2>1 DEF Open
    <2>3. Len(o) \in Nat
      BY <2>2, LenProperties
    <2>4. end.k = e /\ end.p = Len(o) /\ end \in [k : 0..e, p : Nat]
      BY <1>1, <2>3 DEF Place
    <2>5. end \in PlacesIn(sp, e)
      BY <1>1, <1>4, <2>2, <2>3, <2>4 DEF PlacesIn
    <2>6. SubSeq(o, 1, Len(o)) = o
      BY <2>2, SubSeqFull
    <2>7. Given(sp, end) = o
      <3>1. e < Len(sp)
        BY <1>1, <1>4
      <3>2. end.k = e /\ end.p = Len(o) /\ o = sp[e + 1]
        BY <2>2, <2>4
      <3> HIDE DEF end, o, n
      <3>3. Given(sp, end) = SubSeq(o, 1, Len(o))
        BY <3>1, <3>2 DEF Given
      <3> QED
        BY <2>6, <3>3
    <2> QED
      BY <1>1, <1>4, <2>2, <2>3, <2>5, <2>7
  <1> QED
    BY <1>2, <1>3, <1>4

\* One piece is received.
LEMMA ReachedTail ==
    ASSUME NEW ch \in Seq(Seq(Sample)), ch # <<>>, NEW sp, NEW e, NEW first,
           Reached(first, ch, sp, e)
    PROVE  \E next \in PlacesIn(sp, e) : /\ Moves(sp, e, Head(ch), first, next)
                                         /\ Reached(next, Tail(ch), sp, e)
  <1> DEFINE n == Len(ch)
             rest == Tail(ch)
  <1>1. PICK at : Path(at, ch, sp, e) /\ at[0] = first
    BY DEF Reached
  <1>2. n \in Nat /\ n > 0 /\ Len(rest) = n - 1 /\ Head(ch) = ch[1]
        /\ \A j \in 1..(n - 1) : rest[j] = ch[j + 1]
    <2>1. n \in Nat \ {0}
      <3>1. n \in Nat
        BY LenProperties
      <3>2. CASE n = 0
        <4>1. ch = <<>>
          BY <3>2
        <4> QED
          BY <4>1
      <3> QED
        BY <3>1, <3>2
    <2>2. Len(rest) = n - 1 /\ \A j \in 1..Len(rest) : rest[j] = ch[j + 1]
      BY HeadTailProperties
    <2>3. Head(ch) = ch[1]
      BY DEF Head
    <2> HIDE DEF rest, n
    <2> QED
      BY <2>1, <2>2, <2>3
  <1>3. /\ at \in [0..n -> PlacesIn(sp, e)] /\ at[n] = Place(e, Len(Open(sp, e)))
        /\ \A j \in 1..n : Moves(sp, e, ch[j], at[j - 1], at[j])
    BY <1>1 DEF Path
  <1> HIDE DEF n, rest
  <1> DEFINE bt == [j \in 0..(n - 1) |-> at[j + 1]]
  <1>4. \A j \in 0..(n - 1) : bt[j] = at[j + 1] /\ j + 1 \in 0..n /\ j + 1 \in 1..n
    BY <1>2
  <1>5. bt \in [0..(n - 1) -> PlacesIn(sp, e)]
    BY <1>3, <1>4
  <1> HIDE DEF bt
  <1>6. bt[n - 1] = at[n] /\ bt[0] = at[1] /\ at[1] \in PlacesIn(sp, e)
    <2>1. n - 1 \in 0..(n - 1) /\ 0 \in 0..(n - 1) /\ (n - 1) + 1 = n /\ 0 + 1 = 1 /\ 1 \in 0..n
      BY <1>2
    <2> QED
      BY <1>3, <1>4, <2>1
  <1>7. ASSUME NEW j \in 1..(n - 1) PROVE Moves(sp, e, rest[j], bt[j - 1], bt[j])
    <2>1. j - 1 \in 0..(n - 1) /\ j \in 0..(n - 1) /\ (j - 1) + 1 = j /\ (j + 1) - 1 = j
          /\ j + 1 \in 1..n
      BY <1>2
    <2>2. bt[j - 1] = at[j] /\ bt[j] = at[j + 1] /\ rest[j] = ch[j + 1]
      BY <1>2, <1>4, <2>1
    <2>3. Moves(sp, e, ch[j + 1], at[(j + 1) - 1], at[j + 1])
      BY <1>3, <2>1
    <2> QED
      BY <2>1, <2>2, <2>3
  <1>8. Path(bt, rest, sp, e)
    BY <1>2, <1>3, <1>5, <1>6, <1>7 DEF Path
  <1>9. Moves(sp, e, ch[1], at[0], at[1])
    <2>1. 1 \in 1..n /\ 1 - 1 = 0
      BY <1>2
    <2> QED
      BY <1>3, <2>1
  <1>10. Reached(at[1], rest, sp, e)
    BY <1>6, <1>8 DEF Reached
  <1> QED
    BY <1>1, <1>2, <1>6, <1>9, <1>10 DEF rest

LEMMA ReachedDone ==
    ASSUME NEW sp, NEW e, NEW first, Reached(first, <<>>, sp, e)
    PROVE  first = Place(e, Len(Open(sp, e)))
  BY DEF Reached, Path

LEMMA ReachedIn ==
    ASSUME NEW ch \in Seq(Seq(Sample)), NEW sp, NEW e, NEW first, Reached(first, ch, sp, e)
    PROVE  first \in PlacesIn(sp, e)
  <1>1. PICK at : Path(at, ch, sp, e) /\ at[0] = first
    BY DEF Reached
  <1>2. 0 \in 0..Len(ch)
    BY LenProperties
  <1> QED
    BY <1>1, <1>2 DEF Path

\* One piece more in the channel.
LEMMA PathMore ==
    ASSUME NEW ch \in Seq(Seq(Sample)), NEW piece \in Seq(Sample),
           NEW sp, NEW e, NEW more, NEW f, NEW first,
           Reached(first, ch, sp, e),
           PlacesIn(sp, e) \subseteq PlacesIn(more, f),
           \A s, from, to : Moves(sp, e, s, from, to) /\ from \in PlacesIn(sp, e)
                            /\ to \in PlacesIn(sp, e) => Moves(more, f, s, from, to),
           Place(f, Len(Open(more, f))) \in PlacesIn(more, f),
           Moves(more, f, piece, Place(e, Len(Open(sp, e))), Place(f, Len(Open(more, f))))
    PROVE  Reached(first, Append(ch, piece), more, f)
  <1> DEFINE n == Len(ch)
             dh == Append(ch, piece)
             end == Place(f, Len(Open(more, f)))
  <1>1. PICK at : Path(at, ch, sp, e) /\ at[0] = first
    BY DEF Reached
  <1>2. n \in Nat /\ Len(dh) = n + 1 /\ dh[n + 1] = piece /\ \A j \in 1..n : dh[j] = ch[j]
    BY AppendProperties, LenProperties
  <1>3. /\ at \in [0..n -> PlacesIn(sp, e)] /\ at[n] = Place(e, Len(Open(sp, e)))
        /\ \A j \in 1..n : Moves(sp, e, ch[j], at[j - 1], at[j])
    BY <1>1 DEF Path
  <1> HIDE DEF n, dh, end
  <1> DEFINE bt == [j \in 0..(n + 1) |-> IF j = n + 1 THEN end ELSE at[j]]
  <1>4. bt[n + 1] = end /\ \A j \in 0..n : bt[j] = at[j]
    BY <1>2
  <1>5. bt \in [0..(n + 1) -> PlacesIn(more, f)]
    <2>1. \A j \in 0..(n + 1) : j = n + 1 \/ j \in 0..n
      BY <1>2
    <2>2. end \in PlacesIn(more, f)
      BY DEF end
    <2> QED
      BY <1>3, <2>1, <2>2
  <1> HIDE DEF bt
  <1>6. ASSUME NEW j \in 1..(n + 1) PROVE Moves(more, f, dh[j], bt[j - 1], bt[j])
    <2>1. CASE j = n + 1
      <3>1. j - 1 = n /\ n \in 0..n
        BY <1>2, <2>1
      <3>2. bt[j - 1] = Place(e, Len(Open(sp, e))) /\ bt[j] = end /\ dh[j] = piece
        BY <1>2, <1>3, <1>4, <2>1, <3>1
      <3> QED
        BY <3>2 DEF end
    <2>2. CASE j # n + 1
      <3>1. j \in 1..n /\ j \in 0..n /\ j - 1 \in 0..n
        BY <1>2, <2>2
      <3>2. bt[j - 1] = at[j - 1] /\ bt[j] = at[j] /\ dh[j] = ch[j]
        BY <1>2, <1>4, <3>1
      <3>3. at[j - 1] \in PlacesIn(sp, e) /\ at[j] \in PlacesIn(sp, e)
        BY <1>3, <3>1
      <3>4. Moves(sp, e, ch[j], at[j - 1], at[j])
        BY <1>3, <3>1
      <3>5. Moves(more, f, ch[j], at[j - 1], at[j])
        BY <3>3, <3>4
      <3> QED
        BY <3>2, <3>5
    <2> QED
      BY <2>1, <2>2
  <1>7. Path(bt, dh, more, f)
    BY <1>2, <1>4, <1>5, <1>6 DEF Path, end
  <1>8. bt[0] = first
    <2>1. 0 \in 0..n
      BY <1>2
    <2> QED
      BY <1>1, <1>4, <2>1
  <1> QED
    BY <1>7, <1>8 DEF Reached, dh

\* A frame more was sent.
SpokenMore(sp, e, f) == Append(SubSeq(sp, 1, e), Open(sp, e) \o f)

LEMMA MoreIs ==
    ASSUME NEW sp, NEW e, Spoken(sp, e), NEW f \in Seq(Sample), f # <<>>
    PROVE  LET more == SpokenMore(sp, e, f)
           IN  /\ Spoken(more, e) /\ Len(more) = e + 1
               /\ \A i \in 1..e : more[i] = sp[i]
               /\ more[e + 1] = Open(sp, e) \o f
               /\ Open(more, e) = Open(sp, e) \o f
  <1> DEFINE more == SpokenMore(sp, e, f)
             o == Open(sp, e)
             a == SubSeq(sp, 1, e)
             s == o \o f
  <1>1. /\ sp \in Seq(Seq(Sample)) /\ e \in Nat /\ e <= Len(sp) /\ Len(sp) <= e + 1
        /\ \A i \in 1..Len(sp) : sp[i] # <<>>
    BY DEF Spoken
  <1>2. o \in Seq(Sample)
    BY OpenType
  <1> HIDE DEF o
  <1>3. s \in Seq(Sample) /\ s # <<>>
    BY <1>2, ConcatProperties, ConcatEqualIffEmpty
  <1> HIDE DEF s
  <1>4. a \in Seq(Seq(Sample)) /\ Len(a) = e /\ \A i \in 1..e : a[i] = sp[i]
    <2>1. e \in 0..Len(sp)
      BY <1>1, LenProperties
    <2>2. a \in Seq(Seq(Sample)) /\ Len(a) = e
      BY <1>1, <2>1, FirstType
    <2>3. \A i \in 1..e : a[i] = sp[i]
      BY <1>1
    <2> QED
      BY <2>2, <2>3
  <1> HIDE DEF a
  <1>5. more = Append(a, s)
    BY DEF SpokenMore, a, s, o
  <1> HIDE DEF more
  <1>6. /\ more \in Seq(Seq(Sample)) /\ Len(more) = e + 1
        /\ \A i \in 1..e : more[i] = a[i]
        /\ more[e + 1] = s
    <2> DEFINE b == Append(a, s)
    <2>1. /\ b \in Seq(Seq(Sample)) /\ Len(b) = Len(a) + 1
          /\ \A i \in 1..Len(a) : b[i] = a[i]
          /\ b[Len(a) + 1] = s
      BY <1>3, <1>4, AppendProperties
    <2> HIDE DEF b
    <2>2. more = b
      BY <1>5 DEF b
    <2> QED
      BY <1>4, <2>1, <2>2
  <1>7. \A i \in 1..e : more[i] = sp[i]
    BY <1>4, <1>6
  <1>8. \A i \in 1..(e + 1) : more[i] # <<>>
    <2>1. \A i \in 1..(e + 1) : i = e + 1 \/ (i \in 1..e /\ i \in 1..Len(sp))
      BY <1>1, LenProperties
    <2> QED
      BY <1>1, <1>3, <1>6, <1>7, <2>1
  <1>9. e <= e + 1 /\ e + 1 <= e + 1 /\ e + 1 > e
    BY <1>1
  <1>10. Spoken(more, e)
    BY <1>1, <1>6, <1>8, <1>9 DEF Spoken
  <1>11. Open(more, e) = s
    BY <1>6, <1>9 DEF Open
  <1> QED
    BY <1>6, <1>7, <1>10, <1>11 DEF more, s, o

LEMMA GivenMore ==
    ASSUME NEW sp, NEW e, Spoken(sp, e), NEW f \in Seq(Sample), f # <<>>,
           NEW at \in PlacesIn(sp, e)
    PROVE  /\ at \in PlacesIn(SpokenMore(sp, e, f), e)
           /\ Given(SpokenMore(sp, e, f), at) = Given(sp, at)
  <1> DEFINE more == SpokenMore(sp, e, f)
             o == Open(sp, e)
             k == at.k
             p == at.p
  <1>1. /\ Len(more) = e + 1 /\ \A i \in 1..e : more[i] = sp[i]
        /\ more[e + 1] = o \o f
    BY MoreIs
  <1>2. /\ o \in Seq(Sample) /\ Len(o) \in Nat
        /\ Len(sp) = e \/ Len(sp) = e + 1
        /\ Len(sp) = e + 1 => o = sp[e + 1]
    BY OpenType
  <1>3. e \in Nat
    BY DEF Spoken
  <1>4. /\ at \in [k : 0..e, p : Nat] /\ k \in 0..e /\ p \in Nat
        /\ IF k < Len(sp) THEN p <= Len(sp[k + 1]) ELSE p = 0
    BY DEF PlacesIn
  <1>5. Len(f) \in Nat /\ Len(o \o f) = Len(o) + Len(f)
    BY <1>2, ConcatProperties, LenProperties
  <1> HIDE DEF more, o
  <1>6. CASE k < e
    <2>1. k + 1 \in 1..e /\ k < Len(sp) /\ k < Len(more)
      BY <1>1, <1>2, <1>3, <1>4, <1>6
    <2>2. more[k + 1] = sp[k + 1]
      BY <1>1, <2>1
    <2>3. at \in PlacesIn(more, e)
      BY <1>4, <2>1, <2>2 DEF PlacesIn
    <2>4. Given(more, at) = Given(sp, at)
      BY <2>1, <2>2 DEF Given
    <2> QED
      BY <2>3, <2>4 DEF more
  <1>7. CASE ~ (k < e) /\ Len(sp) = e + 1
    <2>1. k = e /\ k < Len(sp) /\ k < Len(more)
      BY <1>1, <1>3, <1>4, <1>7
    <2>2. sp[k + 1] = o /\ more[k + 1] = o \o f
      BY <1>1, <1>2, <1>7, <2>1
    <2>3. p <= Len(o)
      BY <1>4, <2>1, <2>2
    <2>4. SubSeq(o \o f, 1, p) = SubSeq(o, 1, p)
      <3>1. CASE p = 0
        BY <3>1, SubSeqEmpty
      <3>2. CASE p # 0
        <4>1. 1 \in 1..Len(o) /\ p \in 1..Len(o)
          BY <1>2, <1>4, <2>3, <3>2
        <4> HIDE DEF p
        <4> QED
          BY <1>2, <4>1, SubSeqOfConcat1
      <3> QED
        BY <3>1, <3>2
    <2>5. p <= Len(o \o f)
      BY <1>2, <1>4, <1>5, <2>3
    <2>6. at \in PlacesIn(more, e)
      BY <1>4, <2>1, <2>2, <2>5 DEF PlacesIn
    <2>7. Given(more, at) = Given(sp, at)
      BY <2>1, <2>2, <2>4 DEF Given
    <2> QED
      BY <2>6, <2>7 DEF more
  <1>8. CASE ~ (k < e) /\ Len(sp) = e
    <2>1. k = e /\ ~ (k < Len(sp)) /\ k < Len(more) /\ p = 0
      BY <1>1, <1>3, <1>4, <1>8
    <2>2. more[k + 1] = o \o f
      BY <1>1, <2>1
    <2>3. 0 <= Len(o \o f)
      BY <1>2, <1>5
    <2>4. at \in PlacesIn(more, e)
      BY <1>4, <2>1, <2>2, <2>3 DEF PlacesIn
    <2>5. SubSeq(o \o f, 1, 0) = <<>>
      BY SubSeqEmpty
    <2>6. Given(more, at) = Given(sp, at)
      BY <2>1, <2>2, <2>5 DEF Given
    <2> QED
      BY <2>4, <2>6 DEF more
  <1> QED
    BY <1>2, <1>6, <1>7, <1>8

LEMMA ReachedSpeak ==
    ASSUME NEW sp, NEW e, Spoken(sp, e), NEW f \in Seq(Sample), f # <<>>,
           NEW ch \in Seq(Seq(Sample)), NEW first, Reached(first, ch, sp, e)
    PROVE  Reached(first, Append(ch, f), SpokenMore(sp, e, f), e)
  <1> DEFINE more == SpokenMore(sp, e, f)
             o == Open(sp, e)
             from == Place(e, Len(o))
             to == Place(e, Len(Open(more, e)))
  <1>1. /\ Spoken(more, e) /\ Len(more) = e + 1
        /\ \A i \in 1..e : more[i] = sp[i] /\ Open(more, e) = o \o f
    BY MoreIs
  <1>2. Open(more, e) = o \o f
    BY MoreIs
  <1>3. /\ o \in Seq(Sample) /\ Len(o) \in Nat /\ from \in PlacesIn(sp, e) /\ Given(sp, from) = o
        /\ Len(sp) = e \/ Len(sp) = e + 1
    BY OpenType
  <1>4. to \in PlacesIn(more, e) /\ Given(more, to) = o \o f
    BY <1>1, <1>2, OpenType
  <1>5. \A at \in PlacesIn(sp, e) : at \in PlacesIn(more, e) /\ Given(more, at) = Given(sp, at)
    BY GivenMore
  <1>6. e \in Nat
    BY DEF Spoken
  <1>7. Len(o \o f) = Len(o) + Len(f)
    BY <1>3, ConcatProperties
  <1> HIDE DEF more
  <1>8. ASSUME NEW s, NEW a \in PlacesIn(sp, e), NEW b \in PlacesIn(sp, e), Moves(sp, e, s, a, b)
        PROVE  Moves(more, e, s, a, b)
    <2>1. CASE s = SegmentEnd
      <3>1. a.k < e /\ a.p = Len(sp[a.k + 1]) /\ b = Place(a.k + 1, 0)
        BY <1>8, <2>1 DEF Moves
      <3>2. a.k \in 0..e
        BY DEF PlacesIn
      <3>3. a.k + 1 \in 1..e
        BY <1>6, <3>1, <3>2
      <3>4. more[a.k + 1] = sp[a.k + 1]
        BY <1>1, <3>3
      <3> QED
        BY <2>1, <3>1, <3>4 DEF Moves
    <2>2. CASE s # SegmentEnd
      <3>1. /\ a.k < Len(sp) /\ b.k = a.k /\ b.p = a.p + Len(s)
            /\ Given(sp, b) = Given(sp, a) \o s
        BY <1>8, <2>2 DEF Moves
      <3>2. a.k \in 0..e
        BY DEF PlacesIn
      <3>3. a.k < Len(more)
        BY <1>1, <1>3, <1>6, <3>1, <3>2
      <3>4. Given(more, b) = Given(more, a) \o s
        BY <1>5, <3>1
      <3> QED
        BY <2>2, <3>1, <3>3, <3>4 DEF Moves
    <2> QED
      BY <2>1, <2>2
  <1>9. Moves(more, e, f, from, to)
    <2>1. from.k = e /\ from.p = Len(o) /\ to.k = e /\ to.p = Len(o \o f)
      BY <1>2 DEF Place
    <2>2. Given(more, from) = o
      BY <1>3, <1>5
    <2>3. e < Len(more)
      BY <1>1, <1>6
    <2> HIDE DEF from, to
    <2> QED
      BY <1>4, <1>7, <2>1, <2>2, <2>3 DEF Moves, SegmentEnd
  <1>10. PlacesIn(sp, e) \subseteq PlacesIn(more, e)
    BY <1>5
  <1>11. Reached(first, Append(ch, f), more, e)
    BY <1>4, <1>8, <1>9, <1>10, PathMore
  <1> QED
    BY <1>11 DEF more

LEMMA ReachedEnd ==
    ASSUME NEW sp, NEW e, Spoken(sp, e), Len(sp) > e,
           NEW ch \in Seq(Seq(Sample)), NEW first, Reached(first, ch, sp, e)
    PROVE  Spoken(sp, e + 1) /\ Reached(first, Append(ch, <<>>), sp, e + 1)
  <1> DEFINE from == Place(e, Len(Open(sp, e)))
             to == Place(e + 1, Len(Open(sp, e + 1)))
  <1>1. /\ sp \in Seq(Seq(Sample)) /\ e \in Nat /\ e <= Len(sp) /\ Len(sp) <= e + 1
        /\ \A i \in 1..Len(sp) : sp[i] # <<>> /\ Len(sp) \in Nat
    BY LenProperties DEF Spoken
  <1>2. Len(sp) = e + 1
    BY OpenType
  <1>3. Spoken(sp, e + 1)
    BY <1>1, <1>2 DEF Spoken
  <1>4. Open(sp, e) = sp[e + 1]
    BY <1>2, OpenType
  <1>5. Open(sp, e + 1) = <<>> /\ to \in PlacesIn(sp, e + 1)
    BY <1>2, <1>3, OpenType
  <1>6. to = Place(e + 1, 0)
    BY <1>5
  <1>7. ASSUME NEW at \in PlacesIn(sp, e) PROVE at \in PlacesIn(sp, e + 1)
    <2>1. at \in [k : 0..e, p : Nat] /\ IF at.k < Len(sp) THEN at.p <= Len(sp[at.k + 1]) ELSE at.p = 0
      BY DEF PlacesIn
    <2>2. at \in [k : 0..(e + 1), p : Nat]
      BY <1>1, <2>1
    <2> QED
      BY <2>1, <2>2 DEF PlacesIn
  <1>8. ASSUME NEW s, NEW a \in PlacesIn(sp, e), NEW b \in PlacesIn(sp, e), Moves(sp, e, s, a, b)
        PROVE  Moves(sp, e + 1, s, a, b)
    <2>1. a.k \in 0..e
      BY DEF PlacesIn
    <2>2. a.k < e => a.k < e + 1
      BY <1>1, <2>1
    <2> QED
      BY <1>8, <2>2 DEF Moves
  <1>9. Moves(sp, e + 1, <<>>, from, to)
    <2>1. from.k = e /\ from.p = Len(sp[e + 1])
      BY <1>4 DEF Place
    <2>2. e < e + 1
      BY <1>1
    <2> HIDE DEF from, to
    <2> QED
      BY <1>6, <2>1, <2>2 DEF Moves, SegmentEnd
  <1>10. PlacesIn(sp, e) \subseteq PlacesIn(sp, e + 1)
    BY <1>7
  <1>11. <<>> \in Seq(Sample)
    OBVIOUS
  <1>12. Reached(first, Append(ch, <<>>), sp, e + 1)
    BY <1>5, <1>8, <1>9, <1>10, <1>11, PathMore
  <1> QED
    BY <1>3, <1>12

------------------------------------------------------------------------------
\* The first k sentences, each encoded on its own.
Encodings(format, sp, k) == [i \in 1..k |-> Alone(format, sp[i])]

LEMMA EncodingsType ==
    ASSUME NEW format \in Format, NEW sp \in Seq(Seq(Sample)), NEW k \in 0..Len(sp)
    PROVE  /\ Encodings(format, sp, k) \in Seq(Seq(Byte))
           /\ Len(Encodings(format, sp, k)) = k
           /\ \A i \in 1..k : Encodings(format, sp, k)[i] = Alone(format, sp[i])
                              /\ i \in 1..Len(sp)
  <1>1. k \in Nat /\ \A i \in 1..k : i \in 1..Len(sp)
    BY LenProperties
  <1>2. \A i \in 1..k : Alone(format, sp[i]) \in Seq(Byte)
    <2> SUFFICES ASSUME NEW i \in 1..k PROVE Alone(format, sp[i]) \in Seq(Byte)
      OBVIOUS
    <2>1. sp[i] \in Seq(Sample)
      BY <1>1, ElementOfSeq
    <2> QED
      BY <2>1, AloneType
  <1> QED
    BY <1>1, <1>2 DEF Encodings

LEMMA EncodingsMore ==
    ASSUME NEW format \in Format, NEW sp \in Seq(Seq(Sample)), NEW k \in Nat, k < Len(sp)
    PROVE  /\ Encodings(format, sp, k + 1)
                = Append(Encodings(format, sp, k), Alone(format, sp[k + 1]))
           /\ Alone(format, sp[k + 1]) \in Seq(Byte)
           /\ sp[k + 1] \in Seq(Sample)
  <1> DEFINE a == Encodings(format, sp, k)
             b == Encodings(format, sp, k + 1)
             s == Alone(format, sp[k + 1])
             c == Append(a, s)
  <1>1. k \in 0..Len(sp) /\ k + 1 \in 0..Len(sp) /\ k + 1 \in 1..Len(sp)
    BY LenProperties
  <1>2. sp[k + 1] \in Seq(Sample)
    BY <1>1, ElementOfSeq
  <1>3. s \in Seq(Byte)
    BY <1>2, AloneType
  <1>4. a \in Seq(Seq(Byte)) /\ Len(a) = k /\ \A i \in 1..k : a[i] = Alone(format, sp[i])
    BY <1>1, EncodingsType
  <1>5. /\ b \in Seq(Seq(Byte)) /\ Len(b) = k + 1
        /\ \A i \in 1..(k + 1) : b[i] = Alone(format, sp[i])
    BY <1>1, EncodingsType
  <1>6. b[k + 1] = s
    <2>1. k + 1 \in 1..(k + 1)
      OBVIOUS
    <2> QED
      BY <1>5, <2>1
  <1> HIDE DEF a, b, s
  <1>7. /\ c \in Seq(Seq(Byte)) /\ Len(c) = k + 1
        /\ \A i \in 1..k : c[i] = a[i]
        /\ c[k + 1] = s
    BY <1>3, <1>4, AppendProperties
  <1> HIDE DEF c
  <1>8. \A i \in 1..(k + 1) : i = k + 1 \/ i \in 1..k
    OBVIOUS
  <1>9. \A i \in 1..Len(b) : b[i] = c[i]
    BY <1>4, <1>5, <1>6, <1>7, <1>8
  <1>10. b = c
    BY <1>5, <1>7, <1>9, SeqEqual
  <1> QED
    BY <1>2, <1>3, <1>10 DEF a, b, c, s

------------------------------------------------------------------------------
(* What the body's task makes of it.                                       *)

\* The pieces `out` handed to the body, and what is gathered of the next, when
\* the first at.k sentences are passed and the next made the bytes o so far.
Written(format, framed, sp, at, o, out, segment) ==
    IF framed
    THEN out = Encodings(format, sp, at.k) /\ segment = o
    ELSE segment = <<>> /\ FlattenSeq(out) = FlattenSeq(Encodings(format, sp, at.k)) \o o

Piece(s) == IF s = <<>> THEN <<>> ELSE <<s>>

\* How the body's task stands with what the engine sent.
Streamed(cod, format, framed, ch, sp, e, sent) ==
    \E at, o :
        /\ Reached(at, ch, sp, e)
        /\ EncState(cod.enc, format, Given(sp, at), o)
        /\ cod.fed => at.p > 0
        /\ ~ cod.fed => at.p = 0
        /\ at.p = 0 => o = <<>>
        /\ Written(format, framed, sp, at, o, sent \o Piece(cod.sending), cod.segment)

LEMMA EncodingsSame ==
    ASSUME NEW format, NEW sp, NEW more, NEW k \in Nat, \A i \in 1..k : more[i] = sp[i]
    PROVE  Encodings(format, more, k) = Encodings(format, sp, k)
  BY DEF Encodings

LEMMA EncodingsNone ==
    ASSUME NEW format, NEW sp
    PROVE  Encodings(format, sp, 0) = <<>>
  BY DEF Encodings

LEMMA PieceEmpty ==
    ASSUME NEW S, NEW sent \in Seq(Seq(S))
    PROVE  sent \o Piece(<<>>) = sent
  <1>1. Piece(<<>>) = <<>>
    BY DEF Piece
  <1>2. sent \o <<>> = sent
    BY ConcatEmptySeq
  <1> QED
    BY <1>1, <1>2

LEMMA PieceOne ==
    ASSUME NEW S, NEW sent \in Seq(Seq(S)), NEW s \in Seq(S), s # <<>>
    PROVE  sent \o Piece(s) = Append(sent, s) /\ Append(sent, s) \in Seq(Seq(S))
  <1>1. Piece(s) = <<s>>
    BY DEF Piece
  <1>2. sent \o <<s>> = Append(sent, s)
    BY AppendIsConcat
  <1>3. Append(sent, s) \in Seq(Seq(S))
    BY AppendProperties
  <1> QED
    BY <1>1, <1>2, <1>3

LEMMA PieceFlat ==
    ASSUME NEW S, NEW sent \in Seq(Seq(S)), NEW s \in Seq(S)
    PROVE  FlattenSeq(sent \o Piece(s)) = FlattenSeq(sent) \o s
           /\ FlattenSeq(sent) \in Seq(S)
  <1>1. FlattenSeq(sent) \in Seq(S)
    BY FlattenType
  <1>2. CASE s = <<>>
    <2>1. sent \o Piece(s) = sent
      BY <1>2, PieceEmpty
    <2>2. FlattenSeq(sent) \o <<>> = FlattenSeq(sent)
      BY <1>1, ConcatEmptySeq
    <2> QED
      BY <1>1, <1>2, <2>1, <2>2
  <1>3. CASE s # <<>>
    <2>1. sent \o Piece(s) = Append(sent, s)
      BY <1>3, PieceOne
    <2>2. FlattenSeq(Append(sent, s)) = FlattenSeq(sent) \o s
      BY FlattenAppend
    <2> QED
      BY <1>1, <2>1, <2>2
  <1> QED
    BY <1>2, <1>3

LEMMA GivenType ==
    ASSUME NEW sp, NEW e, Spoken(sp, e), NEW at \in PlacesIn(sp, e)
    PROVE  /\ Given(sp, at) \in Seq(Sample) /\ at.k \in 0..e /\ at.k \in 0..Len(sp)
           /\ at.p \in Nat
           /\ at.p = 0 => Given(sp, at) = <<>>
           /\ at.k < Len(sp) => /\ sp[at.k + 1] \in Seq(Sample) /\ sp[at.k + 1] # <<>>
                                /\ at.p \in 0..Len(sp[at.k + 1])
                                /\ at.p = Len(sp[at.k + 1]) => Given(sp, at) = sp[at.k + 1]
           /\ ~ (at.k < Len(sp)) => at.p = 0
  <1> DEFINE k == at.k
             p == at.p
             s == sp[k + 1]
  <1>1. /\ sp \in Seq(Seq(Sample)) /\ e \in Nat /\ e <= Len(sp) /\ Len(sp) <= e + 1
        /\ \A i \in 1..Len(sp) : sp[i] # <<>>
    BY DEF Spoken
  <1>2. /\ k \in 0..e /\ p \in Nat
        /\ IF k < Len(sp) THEN p <= Len(s) ELSE p = 0
    BY DEF PlacesIn
  <1>3. Len(sp) \in Nat
    BY <1>1, LenProperties
  <1>4. k \in 0..Len(sp)
    BY <1>1, <1>2, <1>3
  <1>5. CASE k < Len(sp)
    <2>1. k + 1 \in 1..Len(sp)
      BY <1>2, <1>3, <1>5
    <2>2. s \in Seq(Sample) /\ s # <<>>
      BY <1>1, <2>1, ElementOfSeq
    <2>3. Len(s) \in Nat
      BY <2>2, LenProperties
    <2>4. p \in 0..Len(s)
      BY <1>2, <1>5, <2>3
    <2>5. Given(sp, at) = SubSeq(s, 1, p)
      BY <1>5 DEF Given
    <2> HIDE DEF s, p, k
    <2>6. SubSeq(s, 1, p) \in Seq(Sample)
      BY <2>2, <2>4, FirstType
    <2>7. SubSeq(s, 1, Len(s)) = s
      BY <2>2, SubSeqFull
    <2>8. SubSeq(s, 1, 0) = <<>>
      BY SubSeqEmpty
    <2> QED
      BY <1>2, <1>4, <1>5, <2>2, <2>4, <2>5, <2>6, <2>7, <2>8 DEF s, p, k
  <1>6. CASE ~ (k < Len(sp))
    <2>1. Given(sp, at) = <<>>
      BY <1>6 DEF Given
    <2>2. <<>> \in Seq(Sample)
      OBVIOUS
    <2> HIDE DEF s
    <2> QED
      BY <1>2, <1>4, <1>6, <2>1, <2>2
  <1> QED
    BY <1>5, <1>6

LEMMA StreamStart ==
    ASSUME NEW format \in {"mp3", "pcm"}, NEW framed, NEW cod,
           cod.enc = NewChunked(format), cod.fed = FALSE, cod.segment = <<>>, cod.sending = <<>>,
           NEW ch, NEW sp, NEW e, Reached(Place(0, 0), ch, sp, e)
    PROVE  Streamed(cod, format, framed, ch, sp, e, <<>>)
  <1> DEFINE at == Place(0, 0)
  <1>1. at.k = 0 /\ at.p = 0
    BY DEF Place
  <1>2. Given(sp, at) = <<>>
    BY <1>1, SubSeqEmpty DEF Given
  <1>3. EncState(cod.enc, format, <<>>, <<>>)
    BY EncStart
  <1>4. Encodings(format, sp, 0) = <<>>
    BY EncodingsNone
  <1>5. <<>> \o <<>> = <<>>
    OBVIOUS
  <1>6. Piece(cod.sending) = <<>>
    BY DEF Piece
  <1>7. FlattenSeq(<<>>) = <<>>
    BY FlattenEmpty
  <1>8. Written(format, framed, sp, at, <<>>, <<>> \o Piece(cod.sending), cod.segment)
    BY <1>1, <1>4, <1>5, <1>6, <1>7 DEF Written
  <1> HIDE DEF at
  <1>9. Reached(at, ch, sp, e)
    BY DEF at
  <1> QED
    BY <1>1, <1>2, <1>3, <1>8, <1>9 DEF Streamed

\* The engine sends a frame more.
LEMMA StreamSpeak ==
    ASSUME NEW format, NEW framed, NEW cod, NEW ch \in Seq(Seq(Sample)), NEW sp, NEW e,
           Spoken(sp, e), NEW sent, Streamed(cod, format, framed, ch, sp, e, sent),
           NEW f \in Seq(Sample), f # <<>>
    PROVE  Streamed(cod, format, framed, Append(ch, f), SpokenMore(sp, e, f), e, sent)
  <1> DEFINE more == SpokenMore(sp, e, f)
             out == sent \o Piece(cod.sending)
  <1>1. PICK at, o :
        /\ Reached(at, ch, sp, e)
        /\ EncState(cod.enc, format, Given(sp, at), o)
        /\ cod.fed => at.p > 0
        /\ ~ cod.fed => at.p = 0
        /\ at.p = 0 => o = <<>>
        /\ Written(format, framed, sp, at, o, out, cod.segment)
    BY DEF Streamed
  <1>2. at \in PlacesIn(sp, e)
    BY <1>1, ReachedIn
  <1>3. Reached(at, Append(ch, f), more, e)
    BY <1>1, ReachedSpeak
  <1>4. Given(more, at) = Given(sp, at)
    BY <1>2, GivenMore
  <1>5. at.k \in 0..e
    BY <1>2 DEF PlacesIn
  <1>6. e \in Nat /\ \A i \in 1..e : more[i] = sp[i]
    <2>1. \A i \in 1..e : more[i] = sp[i]
      BY MoreIs
    <2>2. e \in Nat
      BY DEF Spoken
    <2> QED
      BY <2>1, <2>2
  <1>7. at.k \in Nat /\ \A i \in 1..at.k : more[i] = sp[i]
    BY <1>5, <1>6
  <1>8. Encodings(format, more, at.k) = Encodings(format, sp, at.k)
    BY <1>7, EncodingsSame
  <1>9. Written(format, framed, more, at, o, out, cod.segment)
    BY <1>1, <1>8 DEF Written
  <1>10. Streamed(cod, format, framed, Append(ch, f), more, e, sent)
    BY <1>1, <1>3, <1>4, <1>9 DEF Streamed, out
  <1> QED
    BY <1>10 DEF more

\* The engine ends a sentence.
LEMMA StreamEnd ==
    ASSUME NEW format, NEW framed, NEW cod, NEW ch \in Seq(Seq(Sample)), NEW sp, NEW e,
           Spoken(sp, e), Len(sp) > e,
           NEW sent, Streamed(cod, format, framed, ch, sp, e, sent)
    PROVE  Streamed(cod, format, framed, Append(ch, <<>>), sp, e + 1, sent)
  <1>1. PICK at, o :
        /\ Reached(at, ch, sp, e)
        /\ EncState(cod.enc, format, Given(sp, at), o)
        /\ cod.fed => at.p > 0
        /\ ~ cod.fed => at.p = 0
        /\ at.p = 0 => o = <<>>
        /\ Written(format, framed, sp, at, o, sent \o Piece(cod.sending), cod.segment)
    BY DEF Streamed
  <1>2. Reached(at, Append(ch, <<>>), sp, e + 1)
    BY <1>1, ReachedEnd
  <1> QED
    BY <1>1, <1>2 DEF Streamed

\* The body takes a piece.
LEMMA StreamSend ==
    ASSUME NEW format, NEW framed, NEW cod, NEW ch, NEW sp, NEW e,
           NEW sent \in Seq(Seq(Byte)), Streamed(cod, format, framed, ch, sp, e, sent),
           cod.sending \in Seq(Byte), cod.sending # <<>>,
           NEW cod2, cod2.enc = cod.enc, cod2.fed = cod.fed, cod2.segment = cod.segment,
           cod2.sending = <<>>
    PROVE  Streamed(cod2, format, framed, ch, sp, e, Append(sent, cod.sending))
  <1> DEFINE more == Append(sent, cod.sending)
  <1>1. sent \o Piece(cod.sending) = more /\ more \in Seq(Seq(Byte))
    BY PieceOne
  <1> HIDE DEF more
  <1>2. more \o Piece(cod2.sending) = more
    BY <1>1, PieceEmpty
  <1>3. PICK at, o :
        /\ Reached(at, ch, sp, e)
        /\ EncState(cod.enc, format, Given(sp, at), o)
        /\ cod.fed => at.p > 0
        /\ ~ cod.fed => at.p = 0
        /\ at.p = 0 => o = <<>>
        /\ Written(format, framed, sp, at, o, sent \o Piece(cod.sending), cod.segment)
    BY DEF Streamed
  <1>4. Written(format, framed, sp, at, o, more \o Piece(cod2.sending), cod2.segment)
    BY <1>1, <1>2, <1>3
  <1>5. Streamed(cod2, format, framed, ch, sp, e, more)
    BY <1>3, <1>4 DEF Streamed
  <1> QED
    BY <1>5 DEF more

\* What a frame makes of the coder.
Makes(cod, cod2, framed, frame) ==
    /\ cod2.enc = Pushed(cod.enc, frame).chunked /\ cod2.fed = TRUE
    /\ IF framed
       THEN /\ cod2.segment = cod.segment \o Pushed(cod.enc, frame).bytes
            /\ cod2.sending = <<>>
       ELSE /\ cod2.segment = cod.segment
            /\ cod2.sending = Pushed(cod.enc, frame).bytes

LEMMA StreamFrame ==
    ASSUME NEW format, NEW framed, NEW cod, NEW ch \in Seq(Seq(Sample)), ch # <<>>,
           NEW sp, NEW e, Spoken(sp, e), NEW sent \in Seq(Seq(Byte)),
           Streamed(cod, format, framed, ch, sp, e, sent),
           cod.sending = <<>>, Head(ch) # SegmentEnd,
           NEW cod2, Makes(cod, cod2, framed, Head(ch))
    PROVE  /\ Streamed(cod2, format, framed, Tail(ch), sp, e, sent)
           /\ cod2.sending \in Seq(Byte)
  <1> DEFINE piece == Head(ch)
             made == Pushed(cod.enc, piece).bytes
             enc2 == Pushed(cod.enc, piece).chunked
  <1>1. PICK at, o :
        /\ Reached(at, ch, sp, e)
        /\ EncState(cod.enc, format, Given(sp, at), o)
        /\ cod.fed => at.p > 0
        /\ ~ cod.fed => at.p = 0
        /\ at.p = 0 => o = <<>>
        /\ Written(format, framed, sp, at, o, sent \o Piece(cod.sending), cod.segment)
    BY DEF Streamed
  <1>2. piece \in Seq(Sample) /\ piece # <<>>
    BY HeadTailProperties DEF SegmentEnd
  <1>3. PICK to \in PlacesIn(sp, e) : Moves(sp, e, piece, at, to) /\ Reached(to, Tail(ch), sp, e)
    BY <1>1, ReachedTail
  <1>4. at \in PlacesIn(sp, e)
    BY <1>1, ReachedIn
  <1>5. /\ to.k = at.k /\ to.p = at.p + Len(piece)
        /\ Given(sp, to) = Given(sp, at) \o piece
    BY <1>2, <1>3 DEF Moves, SegmentEnd
  <1>6. Given(sp, at) \in Seq(Sample)
    BY <1>4, GivenType
  <1>7. at.p \in Nat
    BY <1>4 DEF PlacesIn
  <1>8. to.p > 0
    <2>1. Len(piece) \in Nat /\ Len(piece) > 0
      BY <1>2, EmptySeq, LenProperties
    <2> HIDE DEF piece
    <2> QED
      BY <1>5, <1>7, <2>1
  <1>9. made \in Seq(Byte) /\ EncState(enc2, format, Given(sp, at) \o piece, o \o made)
    BY <1>1, <1>2, <1>6, PushedKeeps
  <1>10. o \in Seq(Byte)
    BY <1>1, EncType
  <1>15. /\ cod2.enc = enc2 /\ cod2.fed
         /\ framed => cod2.segment = cod.segment \o made /\ cod2.sending = <<>>
         /\ ~ framed => cod2.segment = cod.segment /\ cod2.sending = made
    BY DEF Makes
  <1> HIDE DEF piece, made, enc2
  <1>11. sent \o Piece(cod.sending) = sent
    BY PieceEmpty
  <1> DEFINE out2 == sent \o Piece(cod2.sending)
  <1>12. /\ Written(format, framed, sp, to, o \o made, out2, cod2.segment)
         /\ cod2.sending \in Seq(Byte)
    <2>1. CASE framed
      <3>1. /\ sent = Encodings(format, sp, at.k) /\ cod.segment = o
        BY <1>1, <1>11, <2>1 DEF Written
      <3>2. out2 = sent
        BY <1>15, <2>1, PieceEmpty
      <3>3. cod2.segment = o \o made /\ cod2.sending = <<>>
        BY <1>15, <2>1, <3>1
      <3>4. <<>> \in Seq(Byte)
        OBVIOUS
      <3> HIDE DEF out2
      <3> QED
        BY <1>5, <2>1, <3>1, <3>2, <3>3, <3>4 DEF Written
    <2>2. CASE ~ framed
      <3>1. /\ cod.segment = <<>>
            /\ FlattenSeq(sent) = FlattenSeq(Encodings(format, sp, at.k)) \o o
        BY <1>1, <1>11, <2>2 DEF Written
      <3>2. cod2.segment = <<>> /\ cod2.sending = made
        BY <1>15, <2>2, <3>1
      <3>3. FlattenSeq(out2) = FlattenSeq(sent) \o made
        BY <1>9, <3>2, PieceFlat
      <3>4. Encodings(format, sp, at.k) \in Seq(Seq(Byte))
        <4>1. format \in Format
          BY <1>1 DEF EncState, Encoder, Format
        <4>2. at.k \in 0..Len(sp) /\ sp \in Seq(Seq(Sample))
          BY <1>4, GivenType DEF Spoken
        <4> QED
          BY <4>1, <4>2, EncodingsType
      <3>5. FlattenSeq(Encodings(format, sp, at.k)) \in Seq(Byte)
        BY <3>4, FlattenType
      <3>6. (FlattenSeq(Encodings(format, sp, at.k)) \o o) \o made
              = FlattenSeq(Encodings(format, sp, at.k)) \o (o \o made)
        BY <1>9, <1>10, <3>5, BytesAssociate
      <3>7. FlattenSeq(out2) = FlattenSeq(Encodings(format, sp, to.k)) \o (o \o made)
        BY <1>5, <3>1, <3>3, <3>6
      <3> HIDE DEF out2
      <3> QED
        BY <1>9, <2>2, <3>2, <3>7 DEF Written
    <2> QED
      BY <2>1, <2>2
  <1>13. EncState(cod2.enc, format, Given(sp, to), o \o made)
    BY <1>5, <1>9, <1>15
  <1>14. cod2.fed /\ ~ (to.p = 0)
    BY <1>8, <1>15
  <1> QED
    BY <1>3, <1>12, <1>13, <1>8, <1>14 DEF Streamed

\* The bytes o of the sentence after the first k, then those its end flushes.
Closes(format, sp, k, o, fin) ==
    /\ Alone(format, sp[k + 1]) = o \o fin
    /\ o \in Seq(Byte) /\ fin \in Seq(Byte)
    /\ Alone(format, sp[k + 1]) # <<>>
    /\ Encodings(format, sp, k) \in Seq(Seq(Byte))
    /\ Encodings(format, sp, k + 1) = Append(Encodings(format, sp, k), Alone(format, sp[k + 1]))
    /\ FlattenSeq(Encodings(format, sp, k + 1))
         = FlattenSeq(Encodings(format, sp, k)) \o (o \o fin)
    /\ FlattenSeq(Encodings(format, sp, k)) \in Seq(Byte)

LEMMA WholeSentence ==
    ASSUME NEW format, NEW sp, NEW e, Spoken(sp, e), NEW at \in PlacesIn(sp, e),
           at.k < Len(sp), at.p = Len(sp[at.k + 1]),
           NEW enc, NEW o, EncState(enc, format, Given(sp, at), o)
    PROVE  Closes(format, sp, at.k, o, Finished(enc))
  <1> DEFINE k == at.k
             s == sp[k + 1]
             a == Encodings(format, sp, k)
             w == Alone(format, s)
             fin == Finished(enc)
  <1>1. /\ Given(sp, at) = s /\ s \in Seq(Sample) /\ s # <<>> /\ k \in 0..Len(sp)
    BY GivenType
  <1>2. sp \in Seq(Seq(Sample)) /\ format \in Format
    BY DEF Spoken, EncState, Encoder, Format
  <1>3. w = o \o fin /\ fin \in Seq(Byte)
    BY <1>1, FinishedIs
  <1>4. o \in Seq(Byte)
    BY EncType
  <1>5. w \in Seq(Byte) /\ w # <<>>
    BY <1>1, <1>2, AloneType
  <1>6. a \in Seq(Seq(Byte))
    BY <1>1, <1>2, EncodingsType
  <1>7. k \in Nat /\ k < Len(sp)
    BY <1>1, <1>2, LenProperties
  <1>8. Encodings(format, sp, k + 1) = Append(a, w)
    BY <1>2, <1>7, EncodingsMore
  <1>9. FlattenSeq(a) \in Seq(Byte)
    BY <1>6, FlattenType
  <1> HIDE DEF a, w
  <1>10. FlattenSeq(Append(a, w)) = FlattenSeq(a) \o w
    BY <1>5, <1>6, FlattenAppend
  <1> HIDE DEF s, k, fin
  <1> QED
    BY <1>3, <1>4, <1>5, <1>6, <1>8, <1>9, <1>10 DEF a, w, s, k, fin, Closes

\* A sentence's end is encoded.
LEMMA StreamFlush ==
    ASSUME NEW format, NEW framed, NEW cod, NEW ch \in Seq(Seq(Sample)), ch # <<>>,
           NEW sp, NEW e, Spoken(sp, e), NEW sent \in Seq(Seq(Byte)),
           Streamed(cod, format, framed, ch, sp, e, sent),
           cod.sending = <<>>, Head(ch) = SegmentEnd,
           NEW cod2, cod2.enc = NewChunked(format), cod2.fed = FALSE, cod2.segment = <<>>,
           IF framed THEN cod2.sending = cod.segment \o Finished(cod.enc)
           ELSE cod2.sending = Finished(cod.enc)
    PROVE  /\ Streamed(cod2, format, framed, Tail(ch), sp, e, sent)
           /\ cod2.sending \in Seq(Byte)
  <1> DEFINE fin == Finished(cod.enc)
             out2 == sent \o Piece(cod2.sending)
  <1>1. PICK at, o :
        /\ Reached(at, ch, sp, e)
        /\ EncState(cod.enc, format, Given(sp, at), o)
        /\ cod.fed => at.p > 0
        /\ ~ cod.fed => at.p = 0
        /\ at.p = 0 => o = <<>>
        /\ Written(format, framed, sp, at, o, sent \o Piece(cod.sending), cod.segment)
    BY DEF Streamed
  <1>2. PICK to \in PlacesIn(sp, e) : Moves(sp, e, Head(ch), at, to) /\ Reached(to, Tail(ch), sp, e)
    BY <1>1, ReachedTail
  <1>3. at.k < e /\ at.p = Len(sp[at.k + 1]) /\ to = Place(at.k + 1, 0)
    BY <1>2 DEF Moves
  <1>4. at \in PlacesIn(sp, e)
    BY <1>1, ReachedIn
  <1>5. at.k \in 0..e /\ e \in Nat /\ e <= Len(sp) /\ Len(sp) \in Nat
    BY <1>4, LenProperties DEF Spoken, PlacesIn
  <1>6. at.k < Len(sp)
    BY <1>3, <1>5
  <1> DEFINE k == at.k
             w == Alone(format, sp[k + 1])
             a == Encodings(format, sp, k)
             b == Encodings(format, sp, k + 1)
  <1>7. /\ w = o \o fin /\ o \in Seq(Byte) /\ fin \in Seq(Byte) /\ w # <<>>
        /\ a \in Seq(Seq(Byte)) /\ b = Append(a, w)
        /\ FlattenSeq(b) = FlattenSeq(a) \o (o \o fin)
        /\ FlattenSeq(a) \in Seq(Byte)
    <2>1. Closes(format, sp, at.k, o, Finished(cod.enc))
      BY <1>1, <1>3, <1>4, <1>6, WholeSentence
    <2> QED
      BY <2>1 DEF Closes
  <1>8. to.k = k + 1 /\ to.p = 0
    BY <1>3 DEF Place
  <1>9. Given(sp, to) = <<>>
    BY <1>2, <1>8, GivenType
  <1>10. format \in {"mp3", "pcm"}
    BY <1>1 DEF EncState, Encoder
  <1>11. EncState(cod2.enc, format, Given(sp, to), <<>>)
    BY <1>9, <1>10, EncStart
  <1>12. sent \o Piece(cod.sending) = sent
    BY PieceEmpty
  <1> HIDE DEF fin, w
  <1>13. w \in Seq(Byte)
    BY <1>7, ConcatProperties
  <1>14. /\ Written(format, framed, sp, to, <<>>, out2, cod2.segment)
         /\ cod2.sending \in Seq(Byte)
    <2>1. CASE framed
      <3>1. sent = a /\ cod.segment = o
        BY <1>1, <1>12, <2>1 DEF Written
      <3>2. cod2.sending = w
        BY <1>7, <2>1, <3>1 DEF fin
      <3>3. out2 = Append(sent, w)
        BY <1>7, <1>13, <3>2, PieceOne
      <3> HIDE DEF out2, a, b
      <3>4. out2 = b
        BY <1>7, <3>1, <3>3
      <3> QED
        BY <1>8, <1>13, <2>1, <3>2, <3>4 DEF Written, b
    <2>2. CASE ~ framed
      <3>1. FlattenSeq(sent) = FlattenSeq(a) \o o
        BY <1>1, <1>12, <2>2 DEF Written
      <3>2. cod2.sending = fin
        BY <2>2 DEF fin
      <3>3. FlattenSeq(out2) = FlattenSeq(sent) \o fin
        BY <1>7, <3>2, PieceFlat
      <3> HIDE DEF out2, a, b
      <3>4. (FlattenSeq(a) \o o) \o fin = FlattenSeq(a) \o (o \o fin)
        BY <1>7, BytesAssociate
      <3>5. FlattenSeq(out2) = FlattenSeq(b)
        BY <1>7, <3>1, <3>3, <3>4
      <3>6. FlattenSeq(b) \in Seq(Byte)
        <4>1. o \o fin \in Seq(Byte)
          BY <1>7, <1>13
        <4> QED
          BY <1>7, <4>1, ConcatProperties
      <3>7. FlattenSeq(b) \o <<>> = FlattenSeq(b)
        BY <3>6, ConcatEmptySeq
      <3> QED
        BY <1>7, <1>8, <2>2, <3>2, <3>5, <3>7 DEF Written, b
    <2> QED
      BY <2>1, <2>2
  <1> QED
    BY <1>2, <1>8, <1>11, <1>14 DEF Streamed

\* All the engine sent is in the pieces `out`.
Complete(format, framed, sp, out) ==
    IF framed THEN out = Encodings(format, sp, Len(sp))
    ELSE FlattenSeq(out) = FlattenSeq(Encodings(format, sp, Len(sp)))

\* The channel is empty and closed: what is left is flushed.
LEMMA StreamDone ==
    ASSUME NEW format, NEW framed, NEW cod, NEW sp, NEW e, Spoken(sp, e),
           NEW sent \in Seq(Seq(Byte)), Streamed(cod, format, framed, <<>>, sp, e, sent),
           cod.sending = <<>>, NEW tail, tail = cod.segment \o Finished(cod.enc)
    PROVE  /\ tail \in Seq(Byte)
           /\ ~ cod.fed \/ tail = <<>> => Complete(format, framed, sp, sent)
           /\ cod.fed /\ tail # <<>> => Complete(format, framed, sp, Append(sent, tail))
  <1> DEFINE fin == Finished(cod.enc)
             o2 == Open(sp, e)
  <1>1. PICK at, o :
        /\ Reached(at, <<>>, sp, e)
        /\ EncState(cod.enc, format, Given(sp, at), o)
        /\ cod.fed => at.p > 0
        /\ ~ cod.fed => at.p = 0
        /\ at.p = 0 => o = <<>>
        /\ Written(format, framed, sp, at, o, sent \o Piece(cod.sending), cod.segment)
    BY DEF Streamed
  <1>2. at = Place(e, Len(o2))
    BY <1>1, ReachedDone
  <1>3. /\ o2 \in Seq(Sample) /\ Len(o2) \in Nat /\ at \in PlacesIn(sp, e)
        /\ Given(sp, at) = o2 /\ Len(sp) \in Nat
        /\ Len(sp) = e \/ Len(sp) = e + 1
        /\ Len(sp) = e => o2 = <<>>
        /\ Len(sp) = e + 1 => o2 = sp[e + 1] /\ o2 # <<>>
    BY <1>2, OpenType
  <1>4. at.k = e /\ at.p = Len(o2) /\ e \in Nat
    BY <1>2 DEF Place, Spoken
  <1>5. sent \o Piece(cod.sending) = sent
    BY PieceEmpty
  <1>6. fin \in Seq(Byte) /\ o \in Seq(Byte)
    BY <1>1, <1>3, FinishedIs, EncType
  <1>7. Written(format, framed, sp, at, o, sent, cod.segment)
    BY <1>1, <1>5
  <1>8. tail = cod.segment \o fin
    OBVIOUS
  <1>9. tail \in Seq(Byte)
    <2>1. cod.segment = o \/ cod.segment = <<>>
      BY <1>7 DEF Written
    <2>2. <<>> \in Seq(Byte)
      OBVIOUS
    <2>3. cod.segment \in Seq(Byte)
      BY <1>6, <2>1, <2>2
    <2> HIDE DEF fin
    <2> QED
      BY <1>6, <1>8, <2>3, ConcatProperties
  <1> HIDE DEF fin
  <1>10. CASE Len(sp) = e
    <2>1. at.p = 0 /\ o = <<>>
      BY <1>1, <1>3, <1>4, <1>10
    <2>2. ~ cod.fed
      BY <1>1, <2>1
    <2>3. Encodings(format, sp, e) = Encodings(format, sp, Len(sp))
      BY <1>10
    <2>4. CASE framed
      BY <1>4, <1>7, <1>9, <2>2, <2>3, <2>4 DEF Written, Complete
    <2>5. CASE ~ framed
      <3>1. FlattenSeq(sent) = FlattenSeq(Encodings(format, sp, e)) \o <<>>
        BY <1>4, <1>7, <2>1, <2>5 DEF Written
      <3>2. FlattenSeq(Encodings(format, sp, e)) \in Seq(Byte)
        <4>1. format \in Format
          BY <1>1 DEF EncState, Encoder, Format
        <4>2. e \in 0..Len(sp) /\ sp \in Seq(Seq(Sample))
          BY <1>4, <1>10 DEF Spoken
        <4>3. Encodings(format, sp, e) \in Seq(Seq(Byte))
          BY <4>1, <4>2, EncodingsType
        <4> QED
          BY <4>3, FlattenType
      <3>3. FlattenSeq(sent) = FlattenSeq(Encodings(format, sp, e))
        BY <3>1, <3>2, ConcatEmptySeq
      <3> QED
        BY <1>9, <2>2, <2>3, <2>5, <3>3 DEF Complete
    <2> QED
      BY <2>4, <2>5
  <1>11. CASE Len(sp) = e + 1
    <2>1. o2 = sp[e + 1] /\ o2 # <<>>
      BY <1>3, <1>11
    <2>2. at.k < Len(sp) /\ at.p = Len(sp[at.k + 1])
      BY <1>4, <1>11, <2>1
    <2>3. Closes(format, sp, at.k, o, Finished(cod.enc))
      BY <1>1, <1>3, <2>2, WholeSentence
    <2> DEFINE a == Encodings(format, sp, e)
               b == Encodings(format, sp, Len(sp))
               w == Alone(format, sp[e + 1])
    <2>4. /\ w = o \o fin /\ w # <<>> /\ b = Append(a, w)
          /\ FlattenSeq(b) = FlattenSeq(a) \o (o \o fin)
          /\ FlattenSeq(a) \in Seq(Byte)
      BY <1>4, <1>11, <2>3 DEF Closes, fin
    <2>5. at.p # 0
      <3>1. Len(o2) # 0
        BY <1>3, <2>1, EmptySeq
      <3> QED
        BY <1>4, <3>1
    <2>6. cod.fed
      BY <1>1, <2>5
    <2>7. Written(format, framed, sp, [k |-> e, p |-> Len(o2)], o, sent, cod.segment)
      BY <1>2, <1>7 DEF Place
    <2>8. CASE framed
      <3>1. sent = a /\ cod.segment = o
        BY <2>7, <2>8 DEF Written
      <3> HIDE DEF a, b, w
      <3>2. tail = w
        BY <1>8, <2>4, <3>1
      <3>3. Append(sent, tail) = b
        BY <2>4, <3>1, <3>2
      <3> QED
        BY <1>9, <2>4, <2>6, <2>8, <3>2, <3>3 DEF Complete, b
    <2>9. CASE ~ framed
      <3>1. FlattenSeq(sent) = FlattenSeq(a) \o o /\ cod.segment = <<>>
        BY <2>7, <2>9 DEF Written
      <3> HIDE DEF a, b, w
      <3>2. tail = fin
        BY <1>6, <1>8, <3>1, ConcatEmptySeq
      <3>3. FlattenSeq(a) \o (o \o fin) = FlattenSeq(sent) \o fin
        <4>1. (FlattenSeq(a) \o o) \o fin = FlattenSeq(a) \o (o \o fin)
          BY <1>6, <2>4, BytesAssociate
        <4> QED
          BY <3>1, <4>1
      <3>4. FlattenSeq(sent) \in Seq(Byte)
        BY FlattenType
      <3>5. fin = <<>> => FlattenSeq(b) = FlattenSeq(sent)
        <4>1. FlattenSeq(sent) \o <<>> = FlattenSeq(sent)
          BY <3>4, ConcatEmptySeq
        <4> QED
          BY <2>4, <3>3, <4>1
      <3>6. FlattenSeq(Append(sent, fin)) = FlattenSeq(b)
        <4>1. FlattenSeq(Append(sent, fin)) = FlattenSeq(sent) \o fin
          BY <1>6, FlattenAppend
        <4> QED
          BY <2>4, <3>3, <4>1
      <3> QED
        BY <1>9, <2>6, <2>9, <3>2, <3>5, <3>6 DEF Complete, b
    <2> QED
      BY <2>8, <2>9
  <1> QED
    BY <1>3, <1>10, <1>11

------------------------------------------------------------------------------
\* A wav is gathered: all the samples up to a place.
Buffered(segment, ch, sp, e) ==
    \E at : /\ Reached(at, ch, sp, e)
            /\ segment = FlattenSeq(SubSeq(sp, 1, at.k)) \o Given(sp, at)

LEMMA FirstSentencesType ==
    ASSUME NEW sp \in Seq(Seq(Sample)), NEW k \in 0..Len(sp)
    PROVE  /\ SubSeq(sp, 1, k) \in Seq(Seq(Sample))
           /\ FlattenSeq(SubSeq(sp, 1, k)) \in Seq(Sample)
           /\ k < Len(sp) => FlattenSeq(SubSeq(sp, 1, k + 1))
                               = FlattenSeq(SubSeq(sp, 1, k)) \o sp[k + 1]
  <1> DEFINE a == SubSeq(sp, 1, k)
  <1>1. a \in Seq(Seq(Sample))
    BY FirstType
  <1>2. FlattenSeq(a) \in Seq(Sample)
    BY <1>1, FlattenType
  <1>3. ASSUME k < Len(sp)
        PROVE  FlattenSeq(SubSeq(sp, 1, k + 1)) = FlattenSeq(a) \o sp[k + 1]
    <2>1. k + 1 \in 1..Len(sp) /\ (k + 1) - 1 = k
      BY <1>3, LenProperties
    <2> DEFINE n == k + 1
    <2>2. SubSeq(sp, 1, n) = Append(SubSeq(sp, 1, n - 1), sp[n])
      <3>1. n \in 1..Len(sp)
        BY <2>1
      <3> HIDE DEF n
      <3> QED
        BY <3>1, FirstMore
    <2>3. SubSeq(sp, 1, k + 1) = Append(a, sp[k + 1])
      BY <2>1, <2>2
    <2>4. sp[k + 1] \in Seq(Sample)
      BY <2>1, ElementOfSeq
    <2> HIDE DEF a
    <2>5. FlattenSeq(Append(a, sp[k + 1])) = FlattenSeq(a) \o sp[k + 1]
      BY <1>1, <2>4, FlattenAppend
    <2> QED
      BY <2>3, <2>5
  <1> QED
    BY <1>1, <1>2, <1>3

LEMMA SamplesAssociate ==
    ASSUME NEW a \in Seq(Sample), NEW b \in Seq(Sample), NEW c \in Seq(Sample)
    PROVE  (a \o b) \o c = a \o (b \o c)
  BY ConcatAssociative

LEMMA BufferedStart ==
    ASSUME NEW ch, NEW sp, NEW e, Reached(Place(0, 0), ch, sp, e)
    PROVE  Buffered(<<>>, ch, sp, e)
  <1> DEFINE at == Place(0, 0)
  <1>1. at.k = 0 /\ at.p = 0
    BY DEF Place
  <1>2. Given(sp, at) = <<>>
    BY <1>1, SubSeqEmpty DEF Given
  <1>3. FlattenSeq(SubSeq(sp, 1, at.k)) = <<>>
    <2>1. SubSeq(sp, 1, 0) = <<>>
      BY SubSeqEmpty
    <2> QED
      BY <1>1, <2>1, FlattenEmpty
  <1>4. <<>> = <<>> \o <<>>
    OBVIOUS
  <1> QED
    BY <1>2, <1>3, <1>4 DEF Buffered

LEMMA BufferedPiece ==
    ASSUME NEW segment, NEW ch \in Seq(Seq(Sample)), ch # <<>>, NEW sp, NEW e, Spoken(sp, e),
           Buffered(segment, ch, sp, e)
    PROVE  Buffered(segment \o Head(ch), Tail(ch), sp, e)
  <1> DEFINE piece == Head(ch)
  <1>1. PICK at : /\ Reached(at, ch, sp, e)
                  /\ segment = FlattenSeq(SubSeq(sp, 1, at.k)) \o Given(sp, at)
    BY DEF Buffered
  <1>2. PICK to \in PlacesIn(sp, e) : Moves(sp, e, piece, at, to) /\ Reached(to, Tail(ch), sp, e)
    BY <1>1, ReachedTail
  <1>3. piece \in Seq(Sample)
    BY HeadTailProperties
  <1>4. at \in PlacesIn(sp, e)
    BY <1>1, ReachedIn
  <1> DEFINE g == Given(sp, at)
             a == FlattenSeq(SubSeq(sp, 1, at.k))
  <1>5. g \in Seq(Sample) /\ at.k \in 0..Len(sp)
    BY <1>4, GivenType
  <1>6. at.k \in 0..e /\ e \in Nat /\ e <= Len(sp) /\ Len(sp) \in Nat /\ sp \in Seq(Seq(Sample))
    BY <1>4, LenProperties DEF Spoken, PlacesIn
  <1>7. a \in Seq(Sample) /\ at.k < Len(sp) => FlattenSeq(SubSeq(sp, 1, at.k + 1)) = a \o sp[at.k + 1]
    BY <1>5, <1>6, FirstSentencesType
  <1>8. a \in Seq(Sample)
    BY <1>5, <1>6, FirstSentencesType
  <1> HIDE DEF piece
  <1>9. CASE piece = SegmentEnd
    <2>1. at.k < e /\ at.p = Len(sp[at.k + 1]) /\ to = Place(at.k + 1, 0)
      BY <1>2, <1>9 DEF Moves
    <2>2. at.k < Len(sp)
      BY <1>6, <2>1
    <2>3. g = sp[at.k + 1]
      BY <1>4, <2>1, <2>2, GivenType
    <2>4. to.k = at.k + 1 /\ to.p = 0
      BY <2>1 DEF Place
    <2>5. Given(sp, to) = <<>>
      BY <1>2, <2>4, GivenType
    <2>6. FlattenSeq(SubSeq(sp, 1, to.k)) = a \o g
      BY <1>7, <1>8, <2>2, <2>3, <2>4
    <2>7. segment \o piece = FlattenSeq(SubSeq(sp, 1, to.k)) \o Given(sp, to)
      BY <1>1, <1>9, <2>5, <2>6 DEF SegmentEnd
    <2> QED
      BY <1>2, <2>7 DEF Buffered, piece
  <1>10. CASE piece # SegmentEnd
    <2>1. to.k = at.k /\ Given(sp, to) = g \o piece
      BY <1>2, <1>10 DEF Moves
    <2> HIDE DEF g, a
    <2>2. (a \o g) \o piece = a \o (g \o piece)
      BY <1>3, <1>5, <1>8, SamplesAssociate
    <2>3. segment \o piece = FlattenSeq(SubSeq(sp, 1, to.k)) \o Given(sp, to)
      BY <1>1, <2>1, <2>2 DEF a, g
    <2> QED
      BY <1>2, <2>3 DEF Buffered, piece
  <1> QED
    BY <1>9, <1>10

LEMMA BufferedSpeak ==
    ASSUME NEW segment, NEW ch \in Seq(Seq(Sample)), NEW sp, NEW e, Spoken(sp, e),
           Buffered(segment, ch, sp, e), NEW f \in Seq(Sample), f # <<>>
    PROVE  Buffered(segment, Append(ch, f), SpokenMore(sp, e, f), e)
  <1> DEFINE more == SpokenMore(sp, e, f)
  <1>1. PICK at : /\ Reached(at, ch, sp, e)
                  /\ segment = FlattenSeq(SubSeq(sp, 1, at.k)) \o Given(sp, at)
    BY DEF Buffered
  <1>2. at \in PlacesIn(sp, e)
    BY <1>1, ReachedIn
  <1>3. Reached(at, Append(ch, f), more, e)
    BY <1>1, ReachedSpeak
  <1>4. Given(more, at) = Given(sp, at)
    BY <1>2, GivenMore
  <1>5. \A i \in 1..e : more[i] = sp[i]
    BY MoreIs
  <1>6. at.k \in 0..e /\ e \in Nat
    BY <1>2 DEF PlacesIn, Spoken
  <1> HIDE DEF more
  <1>7. SubSeq(more, 1, at.k) = SubSeq(sp, 1, at.k)
    <2> DEFINE k == at.k
    <2>1. \A i \in 1..k : more[i] = sp[i]
      BY <1>5, <1>6
    <2>2. k \in Nat
      BY <1>6
    <2> HIDE DEF k
    <2>3. SubSeq(more, 1, k) = SubSeq(sp, 1, k)
      BY <2>1, <2>2 DEF SubSeq
    <2> QED
      BY <2>3 DEF k
  <1>8. Buffered(segment, Append(ch, f), more, e)
    BY <1>1, <1>3, <1>4, <1>7 DEF Buffered
  <1> QED
    BY <1>8 DEF more

LEMMA BufferedEnd ==
    ASSUME NEW segment, NEW ch \in Seq(Seq(Sample)), NEW sp, NEW e, Spoken(sp, e), Len(sp) > e,
           Buffered(segment, ch, sp, e)
    PROVE  Buffered(segment, Append(ch, <<>>), sp, e + 1)
  <1>1. PICK at : /\ Reached(at, ch, sp, e)
                  /\ segment = FlattenSeq(SubSeq(sp, 1, at.k)) \o Given(sp, at)
    BY DEF Buffered
  <1>2. Reached(at, Append(ch, <<>>), sp, e + 1)
    BY <1>1, ReachedEnd
  <1> QED
    BY <1>1, <1>2 DEF Buffered

LEMMA BufferedDone ==
    ASSUME NEW segment, NEW sp, NEW e, Spoken(sp, e), Buffered(segment, <<>>, sp, e)
    PROVE  segment = FlattenSeq(sp) /\ segment \in Seq(Sample)
  <1> DEFINE o == Open(sp, e)
  <1>1. PICK at : /\ Reached(at, <<>>, sp, e)
                  /\ segment = FlattenSeq(SubSeq(sp, 1, at.k)) \o Given(sp, at)
    BY DEF Buffered
  <1>2. at = Place(e, Len(o))
    BY <1>1, ReachedDone
  <1>3. /\ Given(sp, at) = o /\ Len(sp) \in Nat
        /\ Len(sp) = e \/ Len(sp) = e + 1
        /\ Len(sp) = e => o = <<>>
        /\ Len(sp) = e + 1 => o = sp[e + 1]
    BY <1>2, OpenType
  <1>4. at.k = e /\ e \in Nat /\ sp \in Seq(Seq(Sample))
    BY <1>2 DEF Place, Spoken
  <1>5. SubSeq(sp, 1, Len(sp)) = sp
    BY <1>4, SubSeqFull
  <1>6. FlattenSeq(sp) \in Seq(Sample)
    BY <1>4, FlattenType
  <1>7. CASE Len(sp) = e
    <2>1. SubSeq(sp, 1, at.k) = sp
      BY <1>4, <1>5, <1>7
    <2>2. segment = FlattenSeq(sp) \o <<>>
      BY <1>1, <1>3, <1>7, <2>1
    <2> QED
      BY <1>6, <2>2, ConcatEmptySeq
  <1>8. CASE Len(sp) = e + 1
    <2>1. e \in 0..Len(sp) /\ e < Len(sp)
      BY <1>4, <1>8
    <2>2. FlattenSeq(SubSeq(sp, 1, e + 1)) = FlattenSeq(SubSeq(sp, 1, e)) \o sp[e + 1]
      BY <1>4, <2>1, FirstSentencesType
    <2>3. SubSeq(sp, 1, e + 1) = sp
      BY <1>5, <1>8
    <2> HIDE DEF o
    <2>4. segment = FlattenSeq(SubSeq(sp, 1, e)) \o sp[e + 1]
      BY <1>1, <1>3, <1>4, <1>8
    <2> QED
      BY <1>6, <2>2, <2>3, <2>4
  <1> QED
    BY <1>3, <1>7, <1>8

------------------------------------------------------------------------------
(* What the listener holds.                                                *)

\* The bytes of `sent` begin those of the first k sentences and of the part x
\* of the next, of which `rest` follows; `more` is not sent yet.
Begins(format, sp, e, done, sent, k, x, rest, o, enc, more) ==
    /\ k \in 0..Len(sp) /\ (k <= e \/ done)
    /\ x \in Seq(Sample) /\ rest \in Seq(Sample) /\ more \in Seq(Byte)
    /\ EncState(enc, format, x, o)
    /\ FlattenSeq(sent) \o more = FlattenSeq(Encodings(format, sp, k)) \o o
    /\ IF k < Len(sp) THEN sp[k + 1] = x \o rest ELSE o = <<>>

Played(format, framed, sp, e, done, sent) ==
    IF framed
    THEN \A i \in 1..Len(sent) : /\ i <= Len(sp) /\ (i <= e \/ done)
                                 /\ sent[i] = Alone(format, sp[i])
    ELSE \E k, x, rest, o, enc, more : Begins(format, sp, e, done, sent, k, x, rest, o, enc, more)

LEMMA EncodingsFlat ==
    ASSUME NEW format \in {"mp3", "pcm"}, NEW sp \in Seq(Seq(Sample)), NEW k \in 0..Len(sp)
    PROVE  /\ Encodings(format, sp, k) \in Seq(Seq(Byte))
           /\ Len(Encodings(format, sp, k)) = k
           /\ FlattenSeq(Encodings(format, sp, k)) \in Seq(Byte)
  <1>1. format \in Format
    BY DEF Format
  <1>2. Encodings(format, sp, k) \in Seq(Seq(Byte)) /\ Len(Encodings(format, sp, k)) = k
    BY <1>1, EncodingsType
  <1> QED
    BY <1>2, FlattenType

LEMMA PlayedStart ==
    ASSUME NEW format \in {"mp3", "pcm"}, NEW framed, NEW done
    PROVE  Played(format, framed, <<>>, 0, done, <<>>)
  <1>1. CASE framed
    <2>1. \A i \in 1..Len(<<>>) : FALSE
      OBVIOUS
    <2> QED
      BY <1>1, <2>1 DEF Played
  <1>2. CASE ~ framed
    <2>1. EncState(NewChunked(format), format, <<>>, <<>>)
      BY EncStart
    <2>2. Encodings(format, <<>>, 0) = <<>>
      BY EncodingsNone
    <2>3. FlattenSeq(<<>>) \o <<>> = FlattenSeq(Encodings(format, <<>>, 0)) \o <<>>
      BY <2>2
    <2>4. <<>> \in Seq(Sample) /\ <<>> \in Seq(Byte) /\ Len(<<>>) = 0
      OBVIOUS
    <2>5. Begins(format, <<>>, 0, done, <<>>, 0, <<>>, <<>>, <<>>, NewChunked(format), <<>>)
      BY <2>1, <2>3, <2>4 DEF Begins
    <2> QED
      BY <1>2, <2>5 DEF Played
  <1> QED
    BY <1>1, <1>2

LEMMA PlayedLater ==
    ASSUME NEW format, NEW framed, NEW sp, NEW e \in Nat, NEW e2 \in Nat, e <= e2,
           NEW done, NEW done2, done => done2, Len(sp) \in Nat,
           NEW sent, Played(format, framed, sp, e, done, sent)
    PROVE  Played(format, framed, sp, e2, done2, sent)
  <1>1. CASE framed
    <2> SUFFICES ASSUME NEW i \in 1..Len(sent)
                 PROVE  i <= Len(sp) /\ (i <= e2 \/ done2) /\ sent[i] = Alone(format, sp[i])
      BY <1>1 DEF Played
    <2>1. i <= Len(sp) /\ (i <= e \/ done) /\ sent[i] = Alone(format, sp[i])
      BY <1>1 DEF Played
    <2>2. i \in Int
      OBVIOUS
    <2>3. i <= e => i <= e2
      BY <2>2
    <2> QED
      BY <2>1, <2>3
  <1>2. CASE ~ framed
    <2>1. PICK k, x, rest, o, enc, more :
            Begins(format, sp, e, done, sent, k, x, rest, o, enc, more)
      BY <1>2 DEF Played
    <2>2. k \in 0..Len(sp) /\ (k <= e \/ done)
      BY <2>1 DEF Begins
    <2>3. k <= e2 \/ done2
      <3>1. k \in Nat
        BY <2>2
      <3>2. k <= e => k <= e2
        BY <3>1
      <3> QED
        BY <2>2, <3>2
    <2>4. Begins(format, sp, e2, done2, sent, k, x, rest, o, enc, more)
      BY <2>1, <2>3 DEF Begins
    <2> QED
      BY <1>2, <2>4 DEF Played
  <1> QED
    BY <1>1, <1>2

LEMMA PlayedSpeak ==
    ASSUME NEW format, NEW framed, NEW sp, NEW e, Spoken(sp, e),
           NEW sent, Played(format, framed, sp, e, FALSE, sent),
           NEW f \in Seq(Sample), f # <<>>
    PROVE  Played(format, framed, SpokenMore(sp, e, f), e, FALSE, sent)
  <1> DEFINE more == SpokenMore(sp, e, f)
  <1>1. Len(more) = e + 1 /\ (\A i \in 1..e : more[i] = sp[i]) /\ more[e + 1] = Open(sp, e) \o f
    BY MoreIs
  <1>2. /\ Open(sp, e) \in Seq(Sample) /\ Len(sp) \in Nat
        /\ Len(sp) = e \/ Len(sp) = e + 1
        /\ Len(sp) = e + 1 => Open(sp, e) = sp[e + 1]
    BY OpenType
  <1>3. e \in Nat
    BY DEF Spoken
  <1> HIDE DEF more
  <1>4. CASE framed
    <2>1. ASSUME NEW i \in 1..Len(sent)
          PROVE  i <= Len(more) /\ i <= e /\ sent[i] = Alone(format, more[i])
      <3>1. i <= Len(sp) /\ i <= e /\ sent[i] = Alone(format, sp[i])
        BY <1>4 DEF Played
      <3>2. i \in 1..e /\ i <= Len(more)
        BY <1>1, <1>3, <3>1
      <3> QED
        BY <1>1, <3>1, <3>2
    <2>2. Played(format, framed, more, e, FALSE, sent)
      BY <1>4, <2>1 DEF Played
    <2> QED
      BY <2>2 DEF more
  <1>5. CASE ~ framed
    <2>1. PICK k, x, rest, o, enc, later :
            Begins(format, sp, e, FALSE, sent, k, x, rest, o, enc, later)
      BY <1>5 DEF Played
    <2>2. /\ k \in 0..Len(sp) /\ k <= e
          /\ x \in Seq(Sample) /\ rest \in Seq(Sample) /\ later \in Seq(Byte)
          /\ EncState(enc, format, x, o)
          /\ FlattenSeq(sent) \o later = FlattenSeq(Encodings(format, sp, k)) \o o
          /\ IF k < Len(sp) THEN sp[k + 1] = x \o rest ELSE o = <<>>
      BY <2>1 DEF Begins
    <2>3. k \in Nat /\ k < Len(more) /\ k \in 0..Len(more) /\ \A i \in 1..k : more[i] = sp[i]
      BY <1>1, <1>3, <2>2
    <2>4. Encodings(format, more, k) = Encodings(format, sp, k)
      BY <2>3, EncodingsSame
    <2>5. \E x2, rest2, enc2 : /\ x2 \in Seq(Sample) /\ rest2 \in Seq(Sample)
                               /\ EncState(enc2, format, x2, o)
                               /\ more[k + 1] = x2 \o rest2
      <3>1. CASE k < e
        <4>1. k + 1 \in 1..e /\ k < Len(sp)
          BY <1>2, <1>3, <2>3, <3>1
        <4>2. more[k + 1] = x \o rest
          BY <1>1, <2>2, <4>1
        <4> QED
          BY <2>2, <4>2
      <3>2. CASE ~ (k < e) /\ Len(sp) = e + 1
        <4>1. k = e /\ k < Len(sp)
          BY <1>3, <2>2, <2>3, <3>2
        <4>2. more[k + 1] = (x \o rest) \o f
          BY <1>1, <1>2, <2>2, <3>2, <4>1
        <4>3. (x \o rest) \o f = x \o (rest \o f)
          BY <2>2, SamplesAssociate
        <4>4. rest \o f \in Seq(Sample)
          BY <2>2, ConcatProperties
        <4> QED
          BY <2>2, <4>2, <4>3, <4>4
      <3>3. CASE ~ (k < e) /\ Len(sp) = e
        <4>1. k = e /\ ~ (k < Len(sp))
          BY <1>3, <2>2, <2>3, <3>3
        <4>2. o = <<>>
          BY <2>2, <4>1
        <4>3. format \in {"mp3", "pcm"}
          BY <2>2 DEF EncState, Encoder
        <4>4. EncState(NewChunked(format), format, <<>>, o)
          BY <4>2, <4>3, EncStart
        <4> DEFINE s == Open(sp, e) \o f
        <4>5. s \in Seq(Sample)
          BY <1>2, ConcatProperties
        <4>6. more[k + 1] = s
          BY <1>1, <4>1
        <4> HIDE DEF s
        <4>7. s = <<>> \o s /\ <<>> \in Seq(Sample)
          BY <4>5, ConcatEmptySeq
        <4> QED
          BY <4>4, <4>5, <4>6, <4>7
      <3> QED
        BY <1>2, <3>1, <3>2, <3>3
    <2>6. PICK x2, rest2, enc2 : /\ x2 \in Seq(Sample) /\ rest2 \in Seq(Sample)
                                 /\ EncState(enc2, format, x2, o)
                                 /\ more[k + 1] = x2 \o rest2
      BY <2>5
    <2>7. Begins(format, more, e, FALSE, sent, k, x2, rest2, o, enc2, later)
      BY <2>2, <2>3, <2>4, <2>6 DEF Begins
    <2>8. Played(format, framed, more, e, FALSE, sent)
      BY <1>5, <2>7 DEF Played
    <2> QED
      BY <2>8 DEF more
  <1> QED
    BY <1>4, <1>5

\* What is lost with the body is its end.
LEMMA PlayedFirst ==
    ASSUME NEW format, NEW framed, NEW sp, NEW e, NEW done,
           NEW h \in Seq(Seq(Byte)), NEW b \in Seq(Seq(Byte)),
           Played(format, framed, sp, e, done, h \o b)
    PROVE  Played(format, framed, sp, e, done, h)
  <1> DEFINE all == h \o b
  <1>1. CASE framed
    <2>1. /\ Len(h) \in Nat /\ Len(all) = Len(h) + Len(b) /\ Len(b) \in Nat
          /\ \A i \in 1..Len(h) : all[i] = h[i]
      BY ConcatProperties, LenProperties
    <2> HIDE DEF all
    <2>2. Played(format, framed, sp, e, done, all)
      BY DEF all
    <2> SUFFICES ASSUME NEW i \in 1..Len(h)
                 PROVE  i <= Len(sp) /\ (i <= e \/ done) /\ h[i] = Alone(format, sp[i])
      BY <1>1 DEF Played
    <2>3. i \in 1..Len(all) /\ all[i] = h[i]
      BY <2>1
    <2>4. i <= Len(sp) /\ (i <= e \/ done) /\ all[i] = Alone(format, sp[i])
      BY <1>1, <2>2, <2>3 DEF Played
    <2> QED
      BY <2>3, <2>4
  <1>2. CASE ~ framed
    <2>1. PICK k, x, rest, o, enc, more :
            Begins(format, sp, e, done, all, k, x, rest, o, enc, more)
      BY <1>2 DEF Played
    <2> DEFINE a == FlattenSeq(h)
               c == FlattenSeq(b)
               later == c \o more
    <2>2. FlattenSeq(all) = a \o c /\ a \in Seq(Byte) /\ c \in Seq(Byte)
      BY FlattenConcat, FlattenType
    <2>3. more \in Seq(Byte)
      BY <2>1 DEF Begins
    <2> HIDE DEF a, c
    <2>4. later \in Seq(Byte) /\ a \o later = (a \o c) \o more
      BY <2>2, <2>3, BytesAssociate, ConcatProperties
    <2> HIDE DEF later, all
    <2>5. FlattenSeq(h) \o later = FlattenSeq(all) \o more
      BY <2>2, <2>4 DEF a
    <2>6. Begins(format, sp, e, done, h, k, x, rest, o, enc, later)
      BY <2>1, <2>4, <2>5 DEF Begins
    <2> QED
      BY <1>2, <2>6 DEF Played
  <1> QED
    BY <1>1, <1>2

\* All that was made is sent.
LEMMA PlayedStream ==
    ASSUME NEW format, NEW framed, NEW cod, NEW ch \in Seq(Seq(Sample)), NEW sp, NEW e,
           Spoken(sp, e), NEW sent \in Seq(Seq(Byte)),
           Streamed(cod, format, framed, ch, sp, e, sent), cod.sending = <<>>, NEW done
    PROVE  Played(format, framed, sp, e, done, sent)
  <1>1. PICK at, o :
        /\ Reached(at, ch, sp, e)
        /\ EncState(cod.enc, format, Given(sp, at), o)
        /\ cod.fed => at.p > 0
        /\ ~ cod.fed => at.p = 0
        /\ at.p = 0 => o = <<>>
        /\ Written(format, framed, sp, at, o, sent \o Piece(cod.sending), cod.segment)
    BY DEF Streamed
  <1>2. at \in PlacesIn(sp, e)
    BY <1>1, ReachedIn
  <1>3. sent \o Piece(cod.sending) = sent
    BY PieceEmpty
  <1>4. Written(format, framed, sp, at, o, sent, cod.segment)
    BY <1>1, <1>3
  <1> DEFINE k == at.k
             p == at.p
             s == sp[k + 1]
  <1>5. /\ Given(sp, at) \in Seq(Sample) /\ k \in 0..Len(sp)
        /\ k < Len(sp) => s \in Seq(Sample) /\ p \in 0..Len(s)
        /\ ~ (k < Len(sp)) => p = 0
    BY <1>2, GivenType
  <1>6. k \in 0..e /\ e \in Nat /\ Len(sp) \in Nat /\ sp \in Seq(Seq(Sample))
    BY <1>2, LenProperties DEF PlacesIn, Spoken
  <1>7. format \in {"mp3", "pcm"}
    BY <1>1 DEF EncState, Encoder
  <1> DEFINE a == Encodings(format, sp, k)
  <1>8. a \in Seq(Seq(Byte)) /\ Len(a) = k /\ FlattenSeq(a) \in Seq(Byte)
    BY <1>5, <1>6, <1>7, EncodingsFlat
  <1>9. CASE framed
    <2>1. sent = a
      BY <1>4, <1>9 DEF Written
    <2> SUFFICES ASSUME NEW i \in 1..Len(sent)
                 PROVE  i <= Len(sp) /\ (i <= e \/ done) /\ sent[i] = Alone(format, sp[i])
      BY <1>9 DEF Played
    <2>2. i \in 1..k
      BY <1>8, <2>1
    <2>3. i <= Len(sp) /\ i <= e
      BY <1>5, <1>6, <2>2
    <2>4. a[i] = Alone(format, sp[i])
      BY <2>2 DEF Encodings
    <2> QED
      BY <2>1, <2>3, <2>4
  <1>10. CASE ~ framed
    <2>1. FlattenSeq(sent) = FlattenSeq(a) \o o
      BY <1>4, <1>10 DEF Written
    <2>2. FlattenSeq(sent) \in Seq(Byte)
      BY FlattenType
    <2>3. FlattenSeq(sent) \o <<>> = FlattenSeq(a) \o o /\ <<>> \in Seq(Byte)
      BY <2>1, <2>2, ConcatEmptySeq
    <2>4. k <= e
      BY <1>6
    <2>5. CASE k < Len(sp)
      <3> DEFINE rest == After(s, p)
      <3>1. s \in Seq(Sample) /\ p \in 0..Len(s) /\ Given(sp, at) = SubSeq(s, 1, p)
        BY <1>5, <2>5 DEF Given
      <3> HIDE DEF s, p
      <3>2. rest \in Seq(Sample) /\ SubSeq(s, 1, p) \o rest = s
        BY <3>1, AfterIs
      <3> HIDE DEF rest, a
      <3>3. sp[k + 1] = Given(sp, at) \o rest
        BY <3>1, <3>2 DEF s
      <3>4. Begins(format, sp, e, done, sent, k, Given(sp, at), rest, o, cod.enc, <<>>)
        BY <1>1, <1>5, <2>3, <2>4, <2>5, <3>2, <3>3 DEF Begins, a
      <3> QED
        BY <1>10, <3>4 DEF Played
    <2>6. CASE ~ (k < Len(sp))
      <3>1. o = <<>>
        BY <1>1, <1>5, <2>6
      <3>2. <<>> \in Seq(Sample)
        OBVIOUS
      <3> HIDE DEF s, p
      <3>3. Begins(format, sp, e, done, sent, k, Given(sp, at), <<>>, o, cod.enc, <<>>)
        BY <1>1, <1>5, <2>3, <2>4, <2>6, <3>1, <3>2 DEF Begins
      <3> QED
        BY <1>10, <3>3 DEF Played
    <2> QED
      BY <2>5, <2>6
  <1> QED
    BY <1>9, <1>10

LEMMA PlayedComplete ==
    ASSUME NEW format \in {"mp3", "pcm"}, NEW framed, NEW sp, NEW e, Spoken(sp, e),
           NEW sent \in Seq(Seq(Byte)), Complete(format, framed, sp, sent)
    PROVE  Played(format, framed, sp, e, TRUE, sent)
  <1> DEFINE n == Len(sp)
             a == Encodings(format, sp, n)
  <1>1. n \in Nat /\ n \in 0..n /\ sp \in Seq(Seq(Sample))
    BY LenProperties DEF Spoken
  <1>2. a \in Seq(Seq(Byte)) /\ Len(a) = n /\ FlattenSeq(a) \in Seq(Byte)
    BY <1>1, EncodingsFlat
  <1>3. CASE framed
    <2>1. sent = a
      BY <1>3 DEF Complete
    <2> SUFFICES ASSUME NEW i \in 1..Len(sent)
                 PROVE  i <= Len(sp) /\ sent[i] = Alone(format, sp[i])
      BY <1>3 DEF Played
    <2>2. i \in 1..n
      BY <1>2, <2>1
    <2>3. a[i] = Alone(format, sp[i]) /\ i <= n
      BY <1>1, <2>2 DEF Encodings
    <2> QED
      BY <2>1, <2>3
  <1>4. CASE ~ framed
    <2>1. FlattenSeq(sent) = FlattenSeq(a)
      BY <1>4 DEF Complete
    <2>2. FlattenSeq(sent) \o <<>> = FlattenSeq(a) \o <<>>
      BY <2>1
    <2>3. EncState(NewChunked(format), format, <<>>, <<>>)
      BY EncStart
    <2>4. <<>> \in Seq(Sample) /\ <<>> \in Seq(Byte) /\ ~ (n < Len(sp))
      BY <1>1
    <2>5. Begins(format, sp, e, TRUE, sent, n, <<>>, <<>>, <<>>, NewChunked(format), <<>>)
      BY <1>1, <2>2, <2>3, <2>4 DEF Begins
    <2> QED
      BY <1>4, <2>5 DEF Played
  <1> QED
    BY <1>3, <1>4

------------------------------------------------------------------------------
LEMMA Prefix ==
    ASSUME NEW S, NEW s \in Seq(S), NEW t \in Seq(S), NEW u \in Seq(S), s \o t = u
    PROVE  IsPrefix(s, u)
  <1>1. Len(s) \in Nat /\ Len(t) \in Nat /\ Len(u) = Len(s) + Len(t)
    BY ConcatProperties, LenProperties
  <1>2. \A i \in 1..Len(s) : u[i] = s[i]
    BY ConcatProperties
  <1>3. SubSeq(s, 1, Len(s)) = SubSeq(u, 1, Len(s))
    <2> DEFINE n == Len(s)
    <2>1. n \in Nat /\ \A i \in 1..n : u[i] = s[i]
      BY <1>1, <1>2
    <2> HIDE DEF n
    <2>2. SubSeq(s, 1, n) = SubSeq(u, 1, n)
      BY <2>1 DEF SubSeq
    <2> QED
      BY <2>2 DEF n
  <1>4. Len(s) <= Len(u)
    BY <1>1
  <1> QED
    BY <1>3, <1>4 DEF IsPrefix

\* The first k sentences' bytes, then the rest.
LEMMA EncodingsFirst ==
    ASSUME NEW format \in {"mp3", "pcm"}, NEW sp \in Seq(Seq(Sample)),
           NEW m \in 0..Len(sp), NEW k \in 0..m
    PROVE  \E rest \in Seq(Byte) :
               FlattenSeq(Encodings(format, sp, m)) = FlattenSeq(Encodings(format, sp, k)) \o rest
  <1> DEFINE a == Encodings(format, sp, k)
             b == Encodings(format, sp, m)
             c == After(b, k)
  <1>1. k \in 0..Len(sp) /\ k \in Nat /\ m \in Nat
    BY LenProperties
  <1>2. a \in Seq(Seq(Byte)) /\ Len(a) = k
    BY <1>1, EncodingsFlat
  <1>3. b \in Seq(Seq(Byte)) /\ Len(b) = m
    BY EncodingsFlat
  <1>4. \A i \in 1..k : a[i] = b[i]
    BY <1>1 DEF Encodings
  <1> HIDE DEF a, b
  <1>5. c \in Seq(Seq(Byte)) /\ SubSeq(b, 1, k) \o c = b
    BY <1>3, AfterIs
  <1>6. SubSeq(b, 1, k) = a
    <2>1. SubSeq(b, 1, k) \in Seq(Seq(Byte)) /\ Len(SubSeq(b, 1, k)) = k
      BY <1>3, FirstType
    <2>2. \A i \in 1..k : SubSeq(b, 1, k)[i] = b[i]
      OBVIOUS
    <2> DEFINE d == SubSeq(b, 1, k)
    <2>3. d \in Seq(Seq(Byte)) /\ Len(d) = k /\ \A i \in 1..k : d[i] = a[i]
      BY <1>4, <2>1, <2>2
    <2> HIDE DEF d
    <2>4. d = a
      BY <1>2, <2>3, SeqEqual
    <2> QED
      BY <2>4 DEF d
  <1> HIDE DEF c
  <1>7. FlattenSeq(a \o c) = FlattenSeq(a) \o FlattenSeq(c) /\ FlattenSeq(c) \in Seq(Byte)
    BY <1>2, <1>5, FlattenConcat, FlattenType
  <1>8. a \o c = b
    BY <1>5, <1>6
  <1> QED
    BY <1>7, <1>8 DEF a, b

LEMMA PlayedIs ==
    ASSUME NEW format \in {"mp3", "pcm"}, NEW framed, NEW sp, NEW e, Spoken(sp, e), NEW done,
           NEW sent \in Seq(Seq(Byte)), Played(format, framed, sp, e, done, sent)
    PROVE  IF framed
           THEN \A i \in DOMAIN sent : sent[i] = Alone(format, sp[i])
           ELSE IsPrefix(FlattenSeq(sent), FlattenSeq(Encodings(format, sp, Len(sp))))
  <1>1. sp \in Seq(Seq(Sample)) /\ Len(sp) \in Nat
    BY LenProperties DEF Spoken
  <1>2. CASE framed
    <2>1. DOMAIN sent = 1..Len(sent)
      BY LenProperties
    <2> QED
      BY <1>2, <2>1 DEF Played
  <1>3. CASE ~ framed
    <2>1. PICK k, x, rest, o, enc, more :
            Begins(format, sp, e, done, sent, k, x, rest, o, enc, more)
      BY <1>3 DEF Played
    <2>2. /\ k \in 0..Len(sp)
          /\ x \in Seq(Sample) /\ rest \in Seq(Sample) /\ more \in Seq(Byte)
          /\ EncState(enc, format, x, o)
          /\ FlattenSeq(sent) \o more = FlattenSeq(Encodings(format, sp, k)) \o o
          /\ IF k < Len(sp) THEN sp[k + 1] = x \o rest ELSE o = <<>>
      BY <2>1 DEF Begins
    <2> DEFINE n == Len(sp)
               u == FlattenSeq(Encodings(format, sp, n))
               a == FlattenSeq(Encodings(format, sp, k))
               s == FlattenSeq(sent)
    <2>3. u \in Seq(Byte) /\ a \in Seq(Byte) /\ s \in Seq(Byte)
      <3>1. n \in 0..Len(sp)
        BY <1>1
      <3> QED
        BY <1>1, <2>2, <3>1, EncodingsFlat, FlattenType
    <2>4. \E later \in Seq(Byte) : u = s \o later
      <3>1. CASE k < Len(sp)
        <4> DEFINE b == FlattenSeq(Encodings(format, sp, k + 1))
                   y == Pushed(enc, rest).bytes
                   enc2 == Pushed(enc, rest).chunked
                   z == Finished(enc2)
                   w == Alone(format, x \o rest)
        <4>1. y \in Seq(Byte) /\ EncState(enc2, format, x \o rest, o \o y)
          BY <2>2, PushedKeeps
        <4>2. x \o rest \in Seq(Sample) /\ o \in Seq(Byte)
          BY <2>2, EncType, ConcatProperties
        <4>3. w = (o \o y) \o z /\ z \in Seq(Byte)
          BY <4>1, <4>2, FinishedIs
        <4>4. k \in Nat /\ k + 1 \in 0..n /\ n \in 0..Len(sp) /\ format \in Format
              /\ k \in 0..Len(sp)
          BY <1>1, <2>2, <3>1 DEF Format
        <4>5. Encodings(format, sp, k + 1) = Append(Encodings(format, sp, k), Alone(format, sp[k + 1]))
              /\ Alone(format, sp[k + 1]) \in Seq(Byte)
          BY <1>1, <3>1, <4>4, EncodingsMore
        <4>6. Alone(format, sp[k + 1]) = w
          BY <2>2, <3>1
        <4>7. Encodings(format, sp, k) \in Seq(Seq(Byte))
          BY <1>1, <4>4, EncodingsFlat
        <4>8. b = a \o w
          <5> DEFINE ee == Encodings(format, sp, k)
                     al == Alone(format, sp[k + 1])
          <5>1. ee \in Seq(Seq(Byte)) /\ al \in Seq(Byte)
            BY <4>5, <4>7
          <5> HIDE DEF ee, al
          <5>2. FlattenSeq(Append(ee, al)) = FlattenSeq(ee) \o al
            BY <5>1, FlattenAppend
          <5> HIDE DEF w
          <5> QED
            BY <4>5, <4>6, <5>2 DEF ee, al
        <4>9. PICK last \in Seq(Byte) : u = b \o last
          BY <1>1, <4>4, EncodingsFirst
        <4> HIDE DEF y, z, enc2, w, b, u, a, s
        <4>10. o \o y \in Seq(Byte) /\ y \o z \in Seq(Byte)
          BY <4>1, <4>2, <4>3, ConcatProperties
        <4>11. w = o \o (y \o z)
          BY <4>1, <4>2, <4>3, BytesAssociate
        <4>12. b = (a \o o) \o (y \o z)
          <5> DEFINE yz == y \o z
          <5>1. yz \in Seq(Byte) /\ w = o \o yz
            BY <4>10, <4>11
          <5> HIDE DEF yz
          <5>2. (a \o o) \o yz = a \o (o \o yz)
            <6>1. a \in Seq(Byte) /\ o \in Seq(Byte) /\ yz \in Seq(Byte)
              BY <2>3, <4>2, <5>1
            <6> QED
              BY <6>1, BytesAssociate
          <5> QED
            BY <4>8, <5>1, <5>2 DEF yz
        <4>13. a \o o = s \o more
          BY <2>2 DEF a, s
        <4> DEFINE yz == y \o z
        <4>14. yz \in Seq(Byte) /\ b = (s \o more) \o yz
          BY <4>10, <4>12, <4>13
        <4> HIDE DEF yz
        <4>15. (s \o more) \o yz = s \o (more \o yz) /\ more \o yz \in Seq(Byte)
          <5>1. more \in Seq(Byte) /\ yz \in Seq(Byte)
            BY <2>2, <4>14
          <5>2. more \o yz \in Seq(Byte)
            BY <5>1, ConcatProperties
          <5>3. s \in Seq(Byte)
            BY <2>3
          <5>4. (s \o more) \o yz = s \o (more \o yz)
            BY <5>1, <5>3, BytesAssociate
          <5> QED
            BY <5>2, <5>4
        <4> DEFINE my == more \o yz
        <4>16. my \in Seq(Byte) /\ u = (s \o my) \o last
          BY <4>9, <4>14, <4>15
        <4> HIDE DEF my
        <4>17. (s \o my) \o last = s \o (my \o last) /\ my \o last \in Seq(Byte)
          <5>1. my \o last \in Seq(Byte)
            BY <4>9, <4>16, ConcatProperties
          <5> QED
            BY <2>3, <4>9, <4>16, <5>1, BytesAssociate
        <4> QED
          BY <4>16, <4>17
      <3>2. CASE ~ (k < Len(sp))
        <4>1. k = n
          BY <1>1, <2>2, <3>2
        <4>2. o = <<>>
          BY <2>2, <3>2
        <4>3. s \o more = a \o <<>>
          BY <2>2, <4>2
        <4>4. u = a
          BY <4>1
        <4> HIDE DEF u, a, s
        <4>5. a \o <<>> = a
          BY <2>3, ConcatEmptySeq
        <4> QED
          BY <2>2, <4>3, <4>4, <4>5
      <3> QED
        BY <3>1, <3>2
    <2>5. PICK later \in Seq(Byte) : u = s \o later
      BY <2>4
    <2> HIDE DEF u, s
    <2>6. IsPrefix(s, u)
      BY <2>3, <2>5, Prefix
    <2> QED
      BY <1>3, <2>6 DEF s, u
  <1> QED
    BY <1>2, <1>3

------------------------------------------------------------------------------
(* The invariant of a request.                                             *)

\* All the pieces of the answer, whole.
AllPieces == Encodings(asked.format, spoken, Len(spoken))

Recorded == DOMAIN coder = {"enc", "fed", "segment", "sending"}

\* What each variable holds, and that a framed answer is in a format that streams.
Types ==
    /\ asked.format \in Format /\ (asked.framed => CanChunk(asked.format))
    /\ Spoken(spoken, ended)
    /\ channel \in Seq(Seq(Sample))
    /\ heard \in Seq(Seq(Byte)) /\ body \in Seq(Seq(Byte))
    /\ closed \in BOOLEAN
    /\ Recorded

\* Nothing was asked, or nothing answered.
Unanswered ==
    /\ task = "idle" => spoken = <<>> /\ ended = 0 /\ channel = <<>> /\ sentences = 0
    /\ task \in {"idle", "first", "buffered"} => heard = <<>> /\ body = <<>> /\ ~ gone
    /\ task = "first" => Reached(Place(0, 0), channel, spoken, ended)

\* The handler gathers a wav.
Gathering ==
    task = "buffered" =>
        ~ CanChunk(asked.format) /\ Buffered(coder.segment, channel, spoken, ended)

\* The body's task encodes.
Encoding ==
    /\ task \in {"stream", "sending", "tail", "cut"} => CanChunk(asked.format)
    /\ task \in {"stream", "sending"} /\ ~ gone =>
         /\ Streamed(coder, asked.format, asked.framed, channel, spoken, ended, Sent)
         /\ coder.sending \in Seq(Byte)
         /\ task = "stream" <=> coder.sending = <<>>
    /\ task = "tail" => closed
    /\ task = "tail" /\ ~ gone =>
         /\ Complete(asked.format, asked.framed, spoken, Append(Sent, coder.sending))
         /\ coder.sending \in Seq(Byte)

\* The body ended, and is whole.
Whole ==
    task = "over" /\ answer = 200 /\ ~ gone =>
        FlattenSeq(Sent) = IF CanChunk(asked.format) THEN FlattenSeq(AllPieces)
                           ELSE Alone(asked.format, FlattenSeq(spoken))

Playable ==
    /\ CanChunk(asked.format) =>
         Played(asked.format, asked.framed, spoken, ended, closed, Sent)
    /\ gone => body = <<>>

\* What holds between any two steps of the handler, the engine, the body's task
\* and the listener; the two theorems below follow from it.
SpeechInv == Types /\ Unanswered /\ Gathering /\ Encoding /\ Whole /\ Playable

LEMMA Chunks ==
    ASSUME NEW format \in Format, CanChunk(format)
    PROVE  format \in {"mp3", "pcm"}
  BY DEF Format, CanChunk

LEMMA Refusals == \A status : status \in {400, 503} => status # 200
  OBVIOUS

LEMMA SentEmpty == <<>> \o <<>> = <<>> /\ <<>> \in Seq(Seq(Byte)) /\ <<>> \in Seq(Seq(Sample))
  OBVIOUS

LEMMA SentType ==
    ASSUME NEW h \in Seq(Seq(Byte)), NEW b \in Seq(Seq(Byte))
    PROVE  h \o b \in Seq(Seq(Byte))
  BY ConcatProperties

LEMMA SentAppend ==
    ASSUME NEW h \in Seq(Seq(Byte)), NEW b \in Seq(Seq(Byte)), NEW s \in Seq(Byte)
    PROVE  h \o Append(b, s) = Append(h \o b, s) /\ Append(b, s) \in Seq(Seq(Byte))
  <1>1. Append(b, s) = b \o <<s>>
    BY AppendIsConcat
  <1>2. h \o b \in Seq(Seq(Byte))
    BY ConcatProperties
  <1>3. <<s>> \in Seq(Seq(Byte))
    OBVIOUS
  <1>4. Append(h \o b, s) = (h \o b) \o <<s>>
    BY <1>2, AppendIsConcat
  <1>5. (h \o b) \o <<s>> = h \o (b \o <<s>>)
    BY <1>3, ConcatAssociative
  <1>6. Append(b, s) \in Seq(Seq(Byte))
    BY AppendProperties
  <1> QED
    BY <1>1, <1>4, <1>5, <1>6

LEMMA SentHeard ==
    ASSUME NEW h \in Seq(Seq(Byte)), NEW b \in Seq(Seq(Byte)), b # <<>>
    PROVE  /\ Append(h, Head(b)) \o Tail(b) = h \o b
           /\ Append(h, Head(b)) \in Seq(Seq(Byte)) /\ Tail(b) \in Seq(Seq(Byte))
  <1> DEFINE x == Head(b)
             t == Tail(b)
  <1>1. x \in Seq(Byte) /\ t \in Seq(Seq(Byte))
    BY HeadTailProperties
  <1>2. b = <<x>> \o t
    BY HeadTailProperties
  <1> HIDE DEF x, t
  <1>3. <<x>> \in Seq(Seq(Byte)) /\ Append(h, x) = h \o <<x>>
    BY <1>1, AppendIsConcat
  <1>4. (h \o <<x>>) \o t = h \o (<<x>> \o t)
    BY <1>1, <1>3, ConcatAssociative
  <1>5. Append(h, x) \in Seq(Seq(Byte))
    BY <1>1, AppendProperties
  <1> QED
    BY <1>1, <1>2, <1>3, <1>4, <1>5 DEF x, t

LEMMA PieceTypes ==
    ASSUME NEW ch \in Seq(Seq(Sample)), ch # <<>>
    PROVE  Head(ch) \in Seq(Sample) /\ Tail(ch) \in Seq(Seq(Sample))
  BY HeadTailProperties

LEMMA FrameType ==
    ASSUME NEW at, Spoken(spoken, ended)
    PROVE  FrameFrom(at) \in Seq(Sample) /\ FrameFrom(at) # <<>>
  <1> DEFINE n == Len(FlattenSeq(spoken))
  <1>1. n \in Nat
    <2>1. FlattenSeq(spoken) \in Seq(Sample)
      BY FlattenType DEF Spoken
    <2> QED
      BY <2>1, LenProperties
  <1> HIDE DEF n
  <1>2. FrameLen \in Nat \ {0}
    BY SpeechAssumption
  <1> DEFINE f == [i \in 1 .. FrameLen |-> IF i >= at THEN n + i ELSE - (n + i)]
  <1>3. \A i \in 1..FrameLen : n + i \in Sample /\ - (n + i) \in Sample
    BY <1>1, <1>2 DEF Sample
  <1>4. f \in [1..FrameLen -> Sample]
    BY <1>3
  <1>5. f \in Seq(Sample) /\ Len(f) = FrameLen
    BY <1>2, <1>4, LenProperties, IsASeq
  <1>6. f # <<>>
    BY <1>2, <1>5
  <1>7. FrameFrom(at) = f
    BY DEF FrameFrom, n
  <1> QED
    BY <1>5, <1>6, <1>7

LEMMA SpeechStarts == Init => SpeechInv
  <1> SUFFICES ASSUME Init PROVE SpeechInv
    OBVIOUS
  <1>1. /\ asked.format = "mp3" /\ asked.framed = FALSE
        /\ sentences = 0 /\ ended = 0 /\ spoken = <<>> /\ closed = FALSE
        /\ channel = <<>> /\ task = "idle" /\ coder = NoCoder
        /\ body = <<>> /\ heard = <<>> /\ gone = FALSE
    BY DEF Init
  <1>2. Sent = <<>>
    BY <1>1 DEF Sent
  <1>3. Types
    <2>1. Spoken(spoken, ended)
      BY <1>1, ReachedStart
    <2> QED
      BY <1>1, <2>1, SentEmpty DEF Types, Format, CanChunk, Recorded, NoCoder
  <1>4. Playable
    BY <1>1, <1>2, PlayedStart DEF Playable
  <1> QED
    BY <1>1, <1>3, <1>4 DEF SpeechInv, Unanswered, Gathering, Encoding, Whole

LEMMA AskKeeps == SpeechInv /\ Ask => SpeechInv'
  <1> SUFFICES ASSUME SpeechInv, Ask PROVE SpeechInv'
    OBVIOUS
  <1> USE DEF SpeechInv
  <1>2. /\ task = "idle"
        /\ \/ task' = "over" /\ answer' \in {400, 503}
           \/ task' = "first"
        /\ UNCHANGED <<ended, spoken, channel, coder, body, heard, gone>>
    BY DEF Ask
  <1>1. closed' \in BOOLEAN
    BY DEF Ask
  <1>3. /\ spoken = <<>> /\ ended = 0 /\ channel = <<>>
        /\ heard = <<>> /\ body = <<>> /\ ~ gone
    BY <1>2 DEF Unanswered
  <1>4. asked'.format \in Format /\ (asked'.framed => CanChunk(asked'.format))
    <2>1. PICK name \in Format \cup {""}, framed \in BOOLEAN :
            asked' = [format |-> Parsed(name), framed |-> framed /\ CanChunk(Parsed(name))]
      BY DEF Ask
    <2>2. Parsed(name) \in Format
      BY DEF Parsed, Format
    <2> QED
      BY <2>1, <2>2
  <1>5. Types'
    BY <1>1, <1>2, <1>4 DEF Types, Recorded
  <1>6. Sent' = <<>>
    BY <1>2, <1>3, SentEmpty DEF Sent
  <1>7. Playable'
    <2>1. ASSUME CanChunk(asked'.format)
          PROVE  Played(asked'.format, asked'.framed, spoken', ended', closed', Sent')
      <3>1. asked'.format \in {"mp3", "pcm"}
        BY <1>4, <2>1, Chunks
      <3>2. Played(asked'.format, asked'.framed, <<>>, 0, closed', <<>>)
        BY <3>1, PlayedStart
      <3>3. spoken' = <<>> /\ ended' = 0
        BY <1>2, <1>3
      <3> QED
        BY <1>6, <3>2, <3>3
    <2>2. gone' => body' = <<>>
      BY <1>2, <1>3
    <2> QED
      BY <2>1, <2>2 DEF Playable
  <1>8. Unanswered'
    <2>1. Reached(Place(0, 0), channel', spoken', ended')
      BY <1>2, <1>3, ReachedStart
    <2> QED
      BY <1>2, <1>3, <2>1 DEF Unanswered
  <1>9. Gathering' /\ Encoding' /\ Whole'
    <2>1. \/ task' = "over" /\ answer' # 200
          \/ task' = "first"
      BY <1>2, Refusals
    <2> QED
      BY <2>1 DEF Gathering, Encoding, Whole
  <1> QED
    BY <1>5, <1>7, <1>8, <1>9

LEMMA AwaitFirstKeeps == SpeechInv /\ AwaitFirst => SpeechInv'
  <1> SUFFICES ASSUME SpeechInv, AwaitFirst PROVE SpeechInv'
    OBVIOUS
  <1> USE DEF SpeechInv
  <1>1. /\ task = "first"
        /\ UNCHANGED <<asked, sentences, ended, spoken, closed, body, heard, gone>>
    BY DEF AwaitFirst, engineVars
  <1>2. /\ heard = <<>> /\ body = <<>> /\ ~ gone
        /\ Reached(Place(0, 0), channel, spoken, ended)
    BY <1>1 DEF Unanswered
  <1>3. /\ asked.format \in Format /\ Spoken(spoken, ended) /\ channel \in Seq(Seq(Sample))
        /\ Recorded
    BY DEF Types
  <1>4. Sent' = Sent /\ Sent = <<>>
    BY <1>1, <1>2 DEF Sent
  <1>5. Playable'
    BY <1>1, <1>4 DEF Playable
  <1>6. CASE task' = "over" /\ answer' = 500 /\ UNCHANGED <<coder, channel>>
    <2>1. Types'
      BY <1>1, <1>6 DEF Types, Recorded
    <2>2. Unanswered' /\ Gathering' /\ Encoding' /\ Whole'
      BY <1>6 DEF Unanswered, Gathering, Encoding, Whole
    <2> QED
      BY <1>5, <2>1, <2>2
  <1>7. CASE /\ CanChunk(asked.format) /\ task' = "stream"
             /\ coder' = [NoCoder EXCEPT !.enc = NewChunked(asked.format)]
             /\ UNCHANGED channel
    <2>1. /\ coder'.enc = NewChunked(asked.format) /\ coder'.fed = FALSE
          /\ coder'.segment = <<>> /\ coder'.sending = <<>> /\ Recorded'
      BY <1>7 DEF NoCoder, Recorded
    <2>2. Types'
      BY <1>1, <1>7, <2>1 DEF Types
    <2>3. asked.format \in {"mp3", "pcm"}
      BY <1>3, <1>7, Chunks
    <2> DEFINE cod == coder'
    <2>4. /\ cod.enc = NewChunked(asked.format) /\ cod.fed = FALSE
          /\ cod.segment = <<>> /\ cod.sending = <<>>
      BY <2>1
    <2> HIDE DEF cod
    <2>5. Streamed(cod, asked.format, asked.framed, channel, spoken, ended, <<>>)
      BY <1>2, <2>3, <2>4, StreamStart
    <2>6. /\ Streamed(coder', asked'.format, asked'.framed, channel', spoken', ended', Sent')
          /\ coder'.sending \in Seq(Byte)
      <3>1. <<>> \in Seq(Byte)
        OBVIOUS
      <3> QED
        BY <1>1, <1>4, <1>7, <2>1, <2>5, <3>1 DEF cod
    <2>7. Encoding'
      BY <1>1, <1>7, <2>1, <2>6 DEF Encoding
    <2>8. Unanswered' /\ Gathering' /\ Whole'
      BY <1>7 DEF Unanswered, Gathering, Whole
    <2> QED
      BY <1>5, <2>2, <2>7, <2>8
  <1>8. CASE /\ channel # <<>> /\ ~ CanChunk(asked.format) /\ task' = "buffered"
             /\ coder' = [NoCoder EXCEPT !.segment = Head(channel)]
             /\ channel' = Tail(channel)
    <2>1. Head(channel) \in Seq(Sample) /\ Tail(channel) \in Seq(Seq(Sample))
      BY <1>3, <1>8, PieceTypes
    <2>2. coder'.segment = Head(channel) /\ Recorded'
      BY <1>8 DEF NoCoder, Recorded
    <2>3. Types'
      BY <1>1, <1>8, <2>1, <2>2 DEF Types
    <2>4. Buffered(<<>>, channel, spoken, ended)
      BY <1>2, BufferedStart
    <2>5. Buffered(<<>> \o Head(channel), Tail(channel), spoken, ended)
      BY <1>3, <1>8, <2>4, BufferedPiece
    <2>6. <<>> \o Head(channel) = Head(channel)
      BY <2>1, ConcatEmptySeq
    <2>7. Buffered(coder'.segment, channel', spoken', ended')
      BY <1>1, <1>8, <2>2, <2>5, <2>6
    <2>8. Gathering'
      BY <1>1, <1>8, <2>7 DEF Gathering
    <2>9. Unanswered' /\ Encoding' /\ Whole'
      BY <1>1, <1>2, <1>8 DEF Unanswered, Encoding, Whole
    <2> QED
      BY <1>5, <2>3, <2>8, <2>9
  <1> QED
    BY <1>6, <1>7, <1>8 DEF AwaitFirst

LEMMA CollectKeeps == SpeechInv /\ Collect => SpeechInv'
  <1> SUFFICES ASSUME SpeechInv, Collect PROVE SpeechInv'
    OBVIOUS
  <1> USE DEF SpeechInv
  <1>1. /\ task = "buffered" /\ channel # <<>>
        /\ coder' = [coder EXCEPT !.segment = @ \o Head(channel)]
        /\ channel' = Tail(channel)
        /\ UNCHANGED <<asked, answer, sentences, ended, spoken, closed, task, body, heard, gone>>
    BY DEF Collect, requestVars, engineVars
  <1>2. /\ Spoken(spoken, ended) /\ channel \in Seq(Seq(Sample)) /\ Recorded
        /\ ~ CanChunk(asked.format) /\ Buffered(coder.segment, channel, spoken, ended)
    BY <1>1 DEF Types, Gathering
  <1>3. coder'.segment = coder.segment \o Head(channel) /\ Recorded'
    BY <1>1, <1>2 DEF Recorded
  <1>4. Tail(channel) \in Seq(Seq(Sample))
    BY <1>1, <1>2, PieceTypes
  <1>5. Types'
    BY <1>1, <1>3, <1>4 DEF Types
  <1>6. Buffered(coder.segment \o Head(channel), Tail(channel), spoken, ended)
    BY <1>1, <1>2, BufferedPiece
  <1>7. Gathering'
    BY <1>1, <1>2, <1>3, <1>6 DEF Gathering
  <1>8. Sent' = Sent
    BY <1>1 DEF Sent
  <1>9. Unanswered' /\ Encoding' /\ Whole' /\ Playable'
    BY <1>1, <1>8 DEF Unanswered, Encoding, Whole, Playable
  <1> QED
    BY <1>5, <1>7, <1>9

LEMMA AnswerWholeKeeps == SpeechInv /\ AnswerWhole => SpeechInv'
  <1> SUFFICES ASSUME SpeechInv, AnswerWhole PROVE SpeechInv'
    OBVIOUS
  <1> USE DEF SpeechInv
  <1> DEFINE all == FlattenSeq(spoken)
             bytes == Alone(asked.format, all)
  <1>1. /\ task = "buffered" /\ channel = <<>> /\ task' = "over"
        /\ body' = <<Encoded(asked.format, TrimLeadingSilence(coder.segment))>>
        /\ UNCHANGED <<asked, sentences, ended, spoken, closed, channel, coder, heard, gone>>
    BY DEF AnswerWhole, engineVars
  <1>2. /\ Spoken(spoken, ended) /\ asked.format \in Format
        /\ ~ CanChunk(asked.format) /\ Buffered(coder.segment, <<>>, spoken, ended)
        /\ heard = <<>> /\ ~ gone
    BY <1>1 DEF Types, Gathering, Unanswered
  <1>3. coder.segment = all /\ all \in Seq(Sample)
    BY <1>2, BufferedDone
  <1> HIDE DEF all
  <1>4. body' = <<bytes>> /\ bytes \in Seq(Byte)
    <2>1. TrimLeadingSilence(all) = WithoutLead(all)
      BY <1>3, TrimLeadingIs
    <2>2. bytes \in Seq(Byte)
      BY <1>2, <1>3, AloneType
    <2> QED
      BY <1>1, <1>3, <2>1, <2>2 DEF Alone
  <1> HIDE DEF bytes
  <1>5. body' \in Seq(Seq(Byte))
    BY <1>4
  <1>6. Types'
    BY <1>1, <1>5 DEF Types, Recorded
  <1>7. Sent' = <<bytes>>
    BY <1>1, <1>2, <1>4, <1>5, ConcatEmptySeq DEF Sent
  <1>8. FlattenSeq(Sent') = bytes
    BY <1>4, <1>7, FlattenOne
  <1>9. Whole'
    BY <1>1, <1>2, <1>8 DEF Whole, bytes, all
  <1>10. Unanswered' /\ Gathering' /\ Encoding' /\ Playable'
    BY <1>1, <1>2 DEF Unanswered, Gathering, Encoding, Playable
  <1> QED
    BY <1>6, <1>9, <1>10

LEMMA EncodeKeeps == SpeechInv /\ Encode => SpeechInv'
  <1> SUFFICES ASSUME SpeechInv, Encode PROVE SpeechInv'
    OBVIOUS
  <1> USE DEF SpeechInv
  <1> DEFINE piece == Head(channel)
             rest == Tail(channel)
             end == piece = SegmentEnd
  <1>1. /\ task = "stream" /\ channel # <<>>
        /\ coder' = Gathered(Fed(piece), end)
        /\ channel' = rest
        /\ task' = IF coder'.sending = <<>> THEN "stream" ELSE "sending"
        /\ UNCHANGED <<asked, answer, sentences, ended, spoken, closed, body, heard, gone>>
    BY DEF Encode, requestVars, engineVars
  <1>2. /\ Spoken(spoken, ended) /\ channel \in Seq(Seq(Sample)) /\ Recorded
        /\ asked.format \in Format /\ CanChunk(asked.format)
        /\ heard \in Seq(Seq(Byte)) /\ body \in Seq(Seq(Byte))
    BY <1>1 DEF Types, Encoding
  <1>3. rest \in Seq(Seq(Sample))
    BY <1>1, <1>2, PieceTypes
  <1>4. task' \in {"stream", "sending"}
    BY <1>1
  <1>5. ASSUME end
        PROVE  /\ Recorded' /\ coder'.enc = NewChunked(asked.format) /\ coder'.fed = FALSE
               /\ asked.framed => /\ coder'.segment = <<>>
                                  /\ coder'.sending = coder.segment \o Finished(coder.enc)
               /\ ~ asked.framed => /\ coder'.segment = coder.segment
                                    /\ coder'.sending = Finished(coder.enc)
    <2> DEFINE fin == Finished(coder.enc)
               enc2 == NewChunked(asked.format)
    <2>1. Fed(piece) = [coder EXCEPT !.enc = enc2, !.fed = FALSE, !.sending = fin]
      BY <1>5 DEF Fed
    <2> HIDE DEF fin, enc2, piece
    <2> DEFINE seg == coder.segment
               r == Fed(piece)
    <2>2. /\ r.enc = enc2 /\ r.fed = FALSE /\ r.segment = seg /\ r.sending = fin
          /\ DOMAIN r = {"enc", "fed", "segment", "sending"}
      BY <1>2, <2>1 DEF Recorded
    <2> HIDE DEF r
    <2>3. CASE asked.framed
      <3>1. coder' = [r EXCEPT !.segment = <<>>, !.sending = r.segment \o @]
        BY <1>1, <1>5, <2>3 DEF Gathered, r
      <3> HIDE DEF seg
      <3>2. /\ coder'.enc = r.enc /\ coder'.fed = r.fed /\ coder'.segment = <<>>
            /\ coder'.sending = r.segment \o r.sending /\ Recorded'
        BY <2>2, <3>1 DEF Recorded
      <3>3. /\ coder'.enc = enc2 /\ coder'.fed = FALSE /\ coder'.segment = <<>>
            /\ coder'.sending = seg \o fin
        BY <2>2, <3>2
      <3> QED
        BY <2>3, <3>2, <3>3 DEF fin, enc2, seg, piece
    <2>4. CASE ~ asked.framed
      <3>1. coder' = r
        BY <1>1, <2>4 DEF Gathered, r
      <3> HIDE DEF seg
      <3>2. Recorded'
        BY <2>2, <3>1 DEF Recorded
      <3> QED
        BY <2>2, <2>4, <3>1, <3>2 DEF fin, enc2, seg, piece
    <2> QED
      BY <2>3, <2>4
  <1>6. ASSUME ~ end
        PROVE  /\ Recorded' /\ coder'.enc = Pushed(coder.enc, piece).chunked /\ coder'.fed = TRUE
               /\ asked.framed => /\ coder'.segment
                                       = coder.segment \o Pushed(coder.enc, piece).bytes
                                  /\ coder'.sending = <<>>
               /\ ~ asked.framed => /\ coder'.segment = coder.segment
                                    /\ coder'.sending = Pushed(coder.enc, piece).bytes
    <2> DEFINE made == Pushed(coder.enc, piece).bytes
               enc2 == Pushed(coder.enc, piece).chunked
    <2>1. Fed(piece) = [coder EXCEPT !.enc = enc2, !.fed = TRUE, !.sending = made]
      BY <1>6 DEF Fed
    <2> HIDE DEF made, enc2, piece
    <2> DEFINE seg == coder.segment
               r == Fed(piece)
    <2>2. /\ r.enc = enc2 /\ r.fed = TRUE /\ r.segment = seg /\ r.sending = made
          /\ DOMAIN r = {"enc", "fed", "segment", "sending"}
      BY <1>2, <2>1 DEF Recorded
    <2> HIDE DEF r
    <2>3. CASE asked.framed
      <3>1. coder' = [r EXCEPT !.segment = @ \o r.sending, !.sending = <<>>]
        BY <1>1, <1>6, <2>3 DEF Gathered, r
      <3> HIDE DEF seg
      <3>2. /\ coder'.enc = r.enc /\ coder'.fed = r.fed /\ coder'.segment = r.segment \o r.sending
            /\ coder'.sending = <<>> /\ Recorded'
        BY <2>2, <3>1 DEF Recorded
      <3>3. /\ coder'.enc = enc2 /\ coder'.fed = TRUE /\ coder'.segment = seg \o made
            /\ coder'.sending = <<>>
        BY <2>2, <3>2
      <3> QED
        BY <2>3, <3>2, <3>3 DEF made, enc2, seg, piece
    <2>4. CASE ~ asked.framed
      <3>1. coder' = r
        BY <1>1, <2>4 DEF Gathered, r
      <3> HIDE DEF seg
      <3>2. Recorded'
        BY <2>2, <3>1 DEF Recorded
      <3> QED
        BY <2>2, <2>4, <3>1, <3>2 DEF made, enc2, seg, piece
    <2> QED
      BY <2>3, <2>4
  <1>7. Types'
    <2>1. Recorded'
      BY <1>5, <1>6
    <2> HIDE DEF rest, piece
    <2> QED
      BY <1>1, <1>3, <2>1 DEF Types
  <1>8. Sent' = Sent /\ Sent \in Seq(Seq(Byte))
    BY <1>1, <1>2, SentType DEF Sent
  <1>9. ASSUME ~ gone
        PROVE  /\ Streamed(coder', asked.format, asked.framed, rest, spoken, ended, Sent)
               /\ coder'.sending \in Seq(Byte)
    <2>1. Streamed(coder, asked.format, asked.framed, channel, spoken, ended, Sent)
          /\ coder.sending = <<>>
      BY <1>1, <1>9 DEF Encoding
    <2> DEFINE cod == coder'
    <2>2. CASE end
      <3>1. ~ asked.framed => coder.segment = <<>>
        BY <2>1 DEF Streamed, Written
      <3>2. /\ cod.enc = NewChunked(asked.format) /\ cod.fed = FALSE /\ cod.segment = <<>>
            /\ IF asked.framed THEN cod.sending = coder.segment \o Finished(coder.enc)
               ELSE cod.sending = Finished(coder.enc)
        BY <1>5, <2>2, <3>1
      <3>3. Head(channel) = SegmentEnd
        BY <2>2
      <3> HIDE DEF cod, piece, rest
      <3>4. /\ Streamed(cod, asked.format, asked.framed, Tail(channel), spoken, ended, Sent)
            /\ cod.sending \in Seq(Byte)
        BY <1>1, <1>2, <1>8, <2>1, <3>2, <3>3, StreamFlush
      <3> QED
        BY <3>4 DEF cod, rest
    <2>3. CASE ~ end
      <3>1. Makes(coder, cod, asked.framed, Head(channel))
        BY <1>6, <2>3 DEF Makes
      <3>2. Head(channel) # SegmentEnd
        BY <2>3
      <3> HIDE DEF cod, piece, rest
      <3>3. /\ Streamed(cod, asked.format, asked.framed, Tail(channel), spoken, ended, Sent)
            /\ cod.sending \in Seq(Byte)
        BY <1>1, <1>2, <1>8, <2>1, <3>1, <3>2, StreamFrame
      <3> QED
        BY <3>3 DEF cod, rest
    <2> QED
      BY <2>2, <2>3
  <1> HIDE DEF piece, rest
  <1>10. Encoding'
    <2>1. ~ gone' => /\ Streamed(coder', asked'.format, asked'.framed, channel', spoken', ended', Sent')
                     /\ coder'.sending \in Seq(Byte)
      BY <1>1, <1>8, <1>9
    <2>2. task' = "stream" <=> coder'.sending = <<>>
      BY <1>1
    <2>3. CanChunk(asked'.format)
      BY <1>1, <1>2
    <2> QED
      BY <1>4, <2>1, <2>2, <2>3 DEF Encoding
  <1>11. Unanswered' /\ Gathering' /\ Whole'
    BY <1>4 DEF Unanswered, Gathering, Whole
  <1>12. Playable'
    BY <1>1, <1>8 DEF Playable
  <1> QED
    BY <1>7, <1>10, <1>11, <1>12

LEMMA EncodeFailsKeeps == SpeechInv /\ EncodeFails => SpeechInv'
  <1> SUFFICES ASSUME SpeechInv, EncodeFails PROVE SpeechInv'
    OBVIOUS
  <1> USE DEF SpeechInv
  <1>1. /\ task = "stream" /\ task' = "cut"
        /\ UNCHANGED <<asked, answer, sentences, ended, spoken, closed, channel, coder,
                       body, heard, gone>>
    BY DEF EncodeFails, requestVars, engineVars
  <1>2. Sent' = Sent
    BY <1>1 DEF Sent
  <1>3. Types'
    BY <1>1 DEF Types, Recorded
  <1>4. Encoding'
    BY <1>1 DEF Encoding
  <1>5. Unanswered' /\ Gathering' /\ Whole'
    BY <1>1 DEF Unanswered, Gathering, Whole
  <1>6. Playable'
    BY <1>1, <1>2 DEF Playable
  <1> QED
    BY <1>3, <1>4, <1>5, <1>6

LEMMA FlushTailKeeps == SpeechInv /\ FlushTail => SpeechInv'
  <1> SUFFICES ASSUME SpeechInv, FlushTail PROVE SpeechInv'
    OBVIOUS
  <1> USE DEF SpeechInv
  <1> DEFINE tail == coder.segment \o Finished(coder.enc)
  <1>1. /\ task = "stream" /\ channel = <<>> /\ closed
        /\ \/ (~ coder.fed \/ tail = <<>>) /\ task' = "over" /\ coder' = coder
           \/ /\ coder.fed /\ tail # <<>> /\ task' = "tail"
              /\ coder' = [coder EXCEPT !.segment = <<>>, !.sending = tail]
        /\ UNCHANGED <<asked, answer, sentences, ended, spoken, closed, channel,
                       body, heard, gone>>
    BY DEF FlushTail, requestVars, engineVars
  <1>2. /\ Spoken(spoken, ended) /\ Recorded /\ CanChunk(asked.format)
        /\ heard \in Seq(Seq(Byte)) /\ body \in Seq(Seq(Byte))
    BY <1>1 DEF Types, Encoding
  <1>3. Sent' = Sent /\ Sent \in Seq(Seq(Byte))
    BY <1>1, <1>2, SentType DEF Sent
  <1>4. ASSUME ~ gone
        PROVE  /\ tail \in Seq(Byte)
               /\ ~ coder.fed \/ tail = <<>>
                    => Complete(asked.format, asked.framed, spoken, Sent)
               /\ coder.fed /\ tail # <<>>
                    => Complete(asked.format, asked.framed, spoken, Append(Sent, tail))
    <2>1. Streamed(coder, asked.format, asked.framed, <<>>, spoken, ended, Sent)
          /\ coder.sending = <<>>
      BY <1>1, <1>4 DEF Encoding
    <2> QED
      BY <1>2, <1>3, <2>1, StreamDone
  <1> HIDE DEF tail
  <1>5. Playable'
    BY <1>1, <1>3 DEF Playable
  <1>6. CASE (~ coder.fed \/ tail = <<>>) /\ task' = "over" /\ coder' = coder
    <2>1. Types'
      BY <1>1, <1>6 DEF Types, Recorded
    <2>2. Unanswered' /\ Gathering' /\ Encoding'
      BY <1>6 DEF Unanswered, Gathering, Encoding
    <2>3. ASSUME ~ gone
          PROVE  FlattenSeq(Sent) = FlattenSeq(AllPieces)
      <3>1. Complete(asked.format, asked.framed, spoken, Sent)
        BY <1>4, <1>6, <2>3
      <3> QED
        BY <3>1 DEF Complete, AllPieces
    <2>4. Whole'
      BY <1>1, <1>2, <1>3, <2>3 DEF Whole, AllPieces
    <2> QED
      BY <1>5, <2>1, <2>2, <2>4
  <1>7. CASE /\ coder.fed /\ tail # <<>> /\ task' = "tail"
             /\ coder' = [coder EXCEPT !.segment = <<>>, !.sending = tail]
    <2>1. coder'.sending = tail /\ Recorded'
      BY <1>2, <1>7 DEF Recorded
    <2>2. Types'
      BY <1>1, <2>1 DEF Types
    <2>3. Encoding'
      <3>1. ~ gone' => /\ Complete(asked'.format, asked'.framed, spoken',
                                   Append(Sent', coder'.sending))
                       /\ coder'.sending \in Seq(Byte)
        BY <1>1, <1>3, <1>4, <1>7, <2>1
      <3> QED
        BY <1>1, <1>2, <1>7, <3>1 DEF Encoding
    <2>4. Unanswered' /\ Gathering' /\ Whole'
      BY <1>7 DEF Unanswered, Gathering, Whole
    <2> QED
      BY <1>5, <2>2, <2>3, <2>4
  <1> QED
    BY <1>1, <1>6, <1>7

LEMMA SendKeeps == SpeechInv /\ Send => SpeechInv'
  <1> SUFFICES ASSUME SpeechInv, Send PROVE SpeechInv'
    OBVIOUS
  <1> USE DEF SpeechInv
  <1>1. /\ task \in {"sending", "tail"}
        /\ UNCHANGED <<asked, answer, sentences, ended, spoken, closed, channel, heard, gone>>
    BY DEF Send, requestVars, engineVars
  <1>2. /\ Spoken(spoken, ended) /\ Recorded /\ CanChunk(asked.format)
        /\ asked.format \in Format /\ channel \in Seq(Seq(Sample))
        /\ heard \in Seq(Seq(Byte)) /\ body \in Seq(Seq(Byte))
    BY <1>1 DEF Types, Encoding
  <1>3. Sent \in Seq(Seq(Byte))
    BY <1>2, SentType DEF Sent
  <1>4. CASE gone
    <2>1. task' = "over" /\ body' = body /\ coder' = coder
      BY <1>4 DEF Send
    <2>2. Types'
      BY <1>1, <2>1 DEF Types, Recorded
    <2>3. Sent' = Sent
      BY <1>1, <2>1 DEF Sent
    <2>4. Playable'
      BY <1>1, <2>1, <2>3 DEF Playable
    <2>5. Unanswered' /\ Gathering' /\ Encoding' /\ Whole'
      BY <1>1, <1>4, <2>1 DEF Unanswered, Gathering, Encoding, Whole
    <2> QED
      BY <2>2, <2>4, <2>5
  <1>5. CASE ~ gone
    <2> DEFINE s == coder.sending
    <2>1. /\ body' = Append(body, s)
          /\ coder' = [coder EXCEPT !.sending = <<>>]
          /\ task' = IF task = "tail" THEN "over" ELSE "stream"
      BY <1>5 DEF Send
    <2>2. s \in Seq(Byte)
      BY <1>1, <1>5 DEF Encoding
    <2>3. /\ coder'.enc = coder.enc /\ coder'.fed = coder.fed /\ coder'.segment = coder.segment
          /\ coder'.sending = <<>> /\ Recorded'
      BY <1>2, <2>1 DEF Recorded
    <2>4. Sent' = Append(Sent, s) /\ body' \in Seq(Seq(Byte))
      BY <1>1, <1>2, <2>1, <2>2, SentAppend DEF Sent
    <2> DEFINE more == Append(Sent, s)
    <2>5. more \in Seq(Seq(Byte))
      <3> DEFINE sent == Sent
      <3>1. sent \in Seq(Seq(Byte))
        BY <1>3
      <3> HIDE DEF sent, s
      <3>2. Append(sent, s) \in Seq(Seq(Byte))
        BY <2>2, <3>1, AppendProperties
      <3> QED
        BY <3>2 DEF sent
    <2>6. Types'
      BY <1>1, <2>3, <2>4 DEF Types
    <2>7. CASE task = "sending"
      <3>1. /\ Streamed(coder, asked.format, asked.framed, channel, spoken, ended, Sent)
            /\ s # <<>>
        BY <1>5, <2>7 DEF Encoding
      <3> DEFINE cod == coder'
      <3>2. /\ cod.enc = coder.enc /\ cod.fed = coder.fed /\ cod.segment = coder.segment
            /\ cod.sending = <<>>
        BY <2>3
      <3> HIDE DEF cod
      <3>3. Streamed(cod, asked.format, asked.framed, channel, spoken, ended, more)
        BY <1>3, <2>2, <3>1, <3>2, StreamSend
      <3> HIDE DEF more, s
      <3>4. Played(asked.format, asked.framed, spoken, ended, closed, more)
        BY <1>2, <2>5, <3>2, <3>3, PlayedStream
      <3>5. Sent' = more
        BY <2>4 DEF more
      <3>6. task' = "stream"
        BY <2>1, <2>7
      <3>7. Encoding'
        <4>1. /\ Streamed(coder', asked'.format, asked'.framed, channel', spoken', ended', Sent')
              /\ coder'.sending \in Seq(Byte)
          <5>1. <<>> \in Seq(Byte)
            OBVIOUS
          <5> QED
            BY <1>1, <2>3, <3>3, <3>5, <5>1 DEF cod
        <4> QED
          BY <1>1, <1>2, <2>3, <3>6, <4>1 DEF Encoding
      <3>8. Playable'
        BY <1>1, <1>5, <3>4, <3>5 DEF Playable
      <3>9. Unanswered' /\ Gathering' /\ Whole'
        BY <3>6 DEF Unanswered, Gathering, Whole
      <3> QED
        BY <2>6, <3>7, <3>8, <3>9
    <2>8. CASE task = "tail"
      <3>1. Complete(asked.format, asked.framed, spoken, more) /\ closed
        BY <1>5, <2>8 DEF Encoding
      <3>2. asked.format \in {"mp3", "pcm"}
        BY <1>2, Chunks
      <3> HIDE DEF more, s
      <3>3. Played(asked.format, asked.framed, spoken, ended, TRUE, more)
        BY <1>2, <2>5, <3>1, <3>2, PlayedComplete
      <3>4. Sent' = more
        BY <2>4 DEF more
      <3>5. task' = "over"
        BY <2>1, <2>8
      <3>6. closed = TRUE
        BY <3>1 DEF Types
      <3>7. Playable'
        BY <1>1, <1>5, <3>3, <3>4, <3>6 DEF Playable
      <3>8. FlattenSeq(more) = FlattenSeq(AllPieces)
        BY <3>1 DEF Complete, AllPieces
      <3>9. Whole'
        BY <1>1, <1>2, <3>4, <3>8 DEF Whole, AllPieces
      <3>10. Unanswered' /\ Gathering' /\ Encoding'
        BY <3>5 DEF Unanswered, Gathering, Encoding
      <3> QED
        BY <2>6, <3>7, <3>9, <3>10
    <2> QED
      BY <1>1, <2>7, <2>8
  <1> QED
    BY <1>4, <1>5

LEMMA HearKeeps == SpeechInv /\ Hear => SpeechInv'
  <1> SUFFICES ASSUME SpeechInv, Hear PROVE SpeechInv'
    OBVIOUS
  <1> USE DEF SpeechInv
  <1>1. /\ ~ gone /\ body # <<>>
        /\ heard' = Append(heard, Head(body)) /\ body' = Tail(body)
        /\ UNCHANGED <<asked, answer, sentences, ended, spoken, closed, channel, task, coder, gone>>
    BY DEF Hear, requestVars, engineVars
  <1>2. heard \in Seq(Seq(Byte)) /\ body \in Seq(Seq(Byte))
    BY DEF Types
  <1>3. Sent' = Sent /\ heard' \in Seq(Seq(Byte)) /\ body' \in Seq(Seq(Byte))
    BY <1>1, <1>2, SentHeard DEF Sent
  <1>4. Types'
    BY <1>1, <1>3 DEF Types, Recorded
  <1>5. Unanswered'
    BY <1>1 DEF Unanswered
  <1>6. Gathering' /\ Encoding' /\ Whole' /\ Playable'
    BY <1>1, <1>3 DEF Gathering, Encoding, Whole, AllPieces, Playable
  <1> QED
    BY <1>4, <1>5, <1>6

LEMMA LeaveKeeps == SpeechInv /\ Leave => SpeechInv'
  <1> SUFFICES ASSUME SpeechInv, Leave PROVE SpeechInv'
    OBVIOUS
  <1> USE DEF SpeechInv
  <1>1. /\ task # "idle" /\ gone' = TRUE /\ body' = <<>>
        /\ task' = IF task \in {"first", "buffered"} THEN "over" ELSE task
        /\ UNCHANGED <<asked, answer, sentences, ended, spoken, closed, channel, coder, heard>>
    BY DEF Leave, requestVars, engineVars
  <1>2. heard \in Seq(Seq(Byte)) /\ body \in Seq(Seq(Byte))
    BY DEF Types
  <1>3. Sent' = heard
    BY <1>1, <1>2, ConcatEmptySeq DEF Sent
  <1>4. Types'
    BY <1>1, SentEmpty DEF Types, Recorded
  <1>5. task' \notin {"idle", "first", "buffered"}
    BY <1>1
  <1>6. Encoding'
    BY <1>1 DEF Encoding
  <1>7. Unanswered' /\ Gathering' /\ Whole'
    BY <1>1, <1>5 DEF Unanswered, Gathering, Whole
  <1>8. Playable'
    <2>1. ASSUME CanChunk(asked.format)
          PROVE  Played(asked.format, asked.framed, spoken, ended, closed, heard)
      <3>1. Played(asked.format, asked.framed, spoken, ended, closed, heard \o body)
        BY <2>1 DEF Playable, Sent
      <3> QED
        BY <1>2, <3>1, PlayedFirst
    <2> QED
      BY <1>1, <1>3, <2>1 DEF Playable
  <1> QED
    BY <1>4, <1>6, <1>7, <1>8

------------------------------------------------------------------------------
\* The engine drops the Job: only `closed` changes.
LEMMA CloseKeeps ==
    ASSUME SpeechInv, closed' = TRUE,
           UNCHANGED <<asked, answer, sentences, ended, spoken, channel, task, coder,
                       body, heard, gone>>
    PROVE  SpeechInv'
  <1> USE DEF SpeechInv
  <1>1. Sent' = Sent
    BY DEF Sent
  <1>2. Types'
    BY DEF Types, Recorded
  <1>3. Unanswered' /\ Gathering' /\ Encoding' /\ Whole'
    BY <1>1 DEF Unanswered, Gathering, Encoding, Whole, AllPieces
  <1>4. ASSUME CanChunk(asked.format)
        PROVE  Played(asked.format, asked.framed, spoken, ended, TRUE, Sent)
    <2>1. Played(asked.format, asked.framed, spoken, ended, closed, Sent)
      BY <1>4 DEF Playable
    <2>2. ended \in Nat /\ ended <= ended /\ Len(spoken) \in Nat /\ (closed => TRUE)
      BY LenProperties DEF Types, Spoken
    <2> QED
      BY <2>1, <2>2, PlayedLater
  <1>5. Playable'
    BY <1>1, <1>4 DEF Playable
  <1> QED
    BY <1>2, <1>3, <1>5

LEMMA SpeakKeeps == SpeechInv /\ Speak => SpeechInv'
  <1> SUFFICES ASSUME SpeechInv, Speak PROVE SpeechInv'
    OBVIOUS
  <1>1. /\ ~ closed /\ ended < sentences
        /\ UNCHANGED <<asked, answer, task, coder, body, heard, gone, sentences, ended>>
    BY DEF Speak, otherVars, requestVars
  <1>2. CASE ~ Receiving
    <2>1. closed' = TRUE /\ UNCHANGED <<spoken, channel>>
      BY <1>2 DEF Speak
    <2> QED
      BY <1>1, <2>1, CloseKeeps
  <1>3. CASE Receiving
    <2> USE DEF SpeechInv
    <2>1. PICK at : /\ spoken' = Append(SubSeq(spoken, 1, ended), Sentence \o FrameFrom(at))
                    /\ channel' = Append(channel, FrameFrom(at))
                    /\ closed' = closed
      BY <1>3 DEF Speak
    <2> DEFINE f == FrameFrom(at)
               more == SpokenMore(spoken, ended, f)
               ch == Append(channel, f)
    <2>2. /\ Spoken(spoken, ended) /\ channel \in Seq(Seq(Sample))
          /\ closed = FALSE
      BY <1>1 DEF Types
    <2>3. f \in Seq(Sample) /\ f # <<>>
      BY <2>2, FrameType
    <2>4. Sentence = Open(spoken, ended)
      BY DEF Sentence, Begun, Open
    <2>5. spoken' = more /\ channel' = ch
      BY <2>1, <2>4 DEF SpokenMore
    <2> HIDE DEF f
    <2>6. ch \in Seq(Seq(Sample))
      BY <2>2, <2>3, AppendProperties
    <2>7. Spoken(more, ended)
      BY <2>2, <2>3, MoreIs
    <2> HIDE DEF more, ch
    <2>8. Types'
      BY <1>1, <2>1, <2>5, <2>6, <2>7 DEF Types, Recorded
    <2>9. Sent' = Sent
      BY <1>1 DEF Sent
    <2>10. task # "idle"
      <3>1. CASE task = "idle"
        <4>1. ended = 0 /\ sentences = 0
          BY <3>1 DEF Unanswered
        <4> QED
          BY <1>1, <4>1
      <3> QED
        BY <3>1
    <2>11. Unanswered'
      <3>1. ASSUME task = "first"
            PROVE  Reached(Place(0, 0), ch, more, ended)
        <4>1. Reached(Place(0, 0), channel, spoken, ended)
          BY <3>1 DEF Unanswered
        <4> QED
          BY <2>2, <2>3, <4>1, ReachedSpeak DEF ch, more
      <3> QED
        BY <1>1, <2>5, <2>10, <3>1 DEF Unanswered
    <2>12. Gathering'
      <3>1. ASSUME task = "buffered"
            PROVE  Buffered(coder.segment, ch, more, ended)
        <4>1. Buffered(coder.segment, channel, spoken, ended)
          BY <3>1 DEF Gathering
        <4> QED
          BY <2>2, <2>3, <4>1, BufferedSpeak DEF ch, more
      <3> QED
        BY <1>1, <2>5, <3>1 DEF Gathering
    <2>13. Encoding'
      <3>1. ASSUME task \in {"stream", "sending"}, ~ gone
            PROVE  Streamed(coder, asked.format, asked.framed, ch, more, ended, Sent)
        <4>1. Streamed(coder, asked.format, asked.framed, channel, spoken, ended, Sent)
          BY <3>1 DEF Encoding
        <4> QED
          BY <2>2, <2>3, <4>1, StreamSpeak DEF ch, more
      <3>2. task # "tail"
        BY <1>1 DEF Encoding
      <3> QED
        BY <1>1, <2>5, <2>9, <3>1, <3>2 DEF Encoding
    <2>14. Whole'
      BY <1>1, <1>3 DEF Whole, Receiving
    <2>15. Playable'
      <3>1. ASSUME CanChunk(asked.format)
            PROVE  Played(asked.format, asked.framed, more, ended, FALSE, Sent)
        <4>1. Played(asked.format, asked.framed, spoken, ended, FALSE, Sent)
          BY <2>2, <3>1 DEF Playable
        <4> QED
          BY <2>2, <2>3, <4>1, PlayedSpeak DEF more
      <3> QED
        BY <1>1, <2>1, <2>2, <2>5, <2>9, <3>1 DEF Playable
    <2> QED
      BY <2>8, <2>11, <2>12, <2>13, <2>14, <2>15
  <1> QED
    BY <1>2, <1>3

LEMMA EndSentenceKeeps == SpeechInv /\ EndSentence => SpeechInv'
  <1> SUFFICES ASSUME SpeechInv, EndSentence PROVE SpeechInv'
    OBVIOUS
  <1>1. /\ ~ closed /\ Len(spoken) > ended
        /\ UNCHANGED <<asked, answer, task, coder, body, heard, gone, sentences, spoken>>
    BY DEF EndSentence, Begun, otherVars, requestVars
  <1>2. CASE ~ Receiving
    <2>1. closed' = TRUE /\ UNCHANGED <<ended, channel>>
      BY <1>2 DEF EndSentence
    <2> QED
      BY <1>1, <2>1, CloseKeeps
  <1>3. CASE Receiving
    <2> USE DEF SpeechInv
    <2> DEFINE e2 == ended + 1
               ch == Append(channel, <<>>)
    <2>1. ended' = e2 /\ channel' = ch /\ closed' = closed
      BY <1>3 DEF EndSentence, SegmentEnd
    <2>2. /\ Spoken(spoken, ended) /\ channel \in Seq(Seq(Sample))
          /\ closed = FALSE
      BY <1>1 DEF Types
    <2>3. ch \in Seq(Seq(Sample))
      <3>1. <<>> \in Seq(Sample)
        OBVIOUS
      <3> QED
        BY <2>2, <3>1, AppendProperties
    <2>4. ended \in Nat /\ e2 \in Nat /\ ended <= e2 /\ Len(spoken) \in Nat
      BY <2>2, LenProperties DEF Spoken
    <2>5. Spoken(spoken, e2)
      <3>1. Len(spoken) <= ended + 1 /\ e2 <= Len(spoken) /\ Len(spoken) <= e2 + 1
        BY <1>1, <2>2, <2>4 DEF Spoken
      <3> HIDE DEF e2
      <3> QED
        BY <2>2, <2>4, <3>1 DEF Spoken
    <2>6. Sent' = Sent
      BY <1>1 DEF Sent
    <2>7. task # "idle"
      <3>1. CASE task = "idle"
        <4>1. ended = 0 /\ spoken = <<>>
          BY <3>1 DEF Unanswered
        <4> QED
          BY <1>1, <4>1
      <3> QED
        BY <3>1
    <2>8. Unanswered'
      <3>1. ASSUME task = "first"
            PROVE  Reached(Place(0, 0), ch, spoken, e2)
        <4>1. Reached(Place(0, 0), channel, spoken, ended)
          BY <3>1 DEF Unanswered
        <4> QED
          BY <1>1, <2>2, <4>1, ReachedEnd
      <3> HIDE DEF ch, e2
      <3> QED
        BY <1>1, <2>1, <2>7, <3>1 DEF Unanswered
    <2>9. Gathering'
      <3>1. ASSUME task = "buffered"
            PROVE  Buffered(coder.segment, ch, spoken, e2)
        <4>1. Buffered(coder.segment, channel, spoken, ended)
          BY <3>1 DEF Gathering
        <4> QED
          BY <1>1, <2>2, <4>1, BufferedEnd
      <3> HIDE DEF ch, e2
      <3> QED
        BY <1>1, <2>1, <3>1 DEF Gathering
    <2>10. Encoding'
      <3>1. ASSUME task \in {"stream", "sending"}, ~ gone
            PROVE  Streamed(coder, asked.format, asked.framed, ch, spoken, e2, Sent)
        <4>1. Streamed(coder, asked.format, asked.framed, channel, spoken, ended, Sent)
          BY <3>1 DEF Encoding
        <4> QED
          BY <1>1, <2>2, <4>1, StreamEnd
      <3>2. task # "tail"
        BY <1>1 DEF Encoding
      <3> HIDE DEF ch, e2
      <3> QED
        BY <1>1, <2>1, <2>6, <3>1, <3>2 DEF Encoding
    <2>11. Whole'
      BY <1>1, <1>3 DEF Whole, Receiving
    <2>12. ASSUME CanChunk(asked.format)
           PROVE  Played(asked.format, asked.framed, spoken, e2, closed, Sent)
      <3>1. Played(asked.format, asked.framed, spoken, ended, closed, Sent)
        BY <2>12 DEF Playable
      <3> HIDE DEF e2
      <3> QED
        BY <2>4, <3>1, PlayedLater
    <2> HIDE DEF ch, e2
    <2>13. Playable'
      BY <1>1, <2>1, <2>6, <2>12 DEF Playable
    <2>14. Types'
      BY <1>1, <2>1, <2>3, <2>5 DEF Types, Recorded
    <2> QED
      BY <2>8, <2>9, <2>10, <2>11, <2>13, <2>14
  <1> QED
    BY <1>2, <1>3

LEMMA SpeechKeeps == SpeechInv /\ [Next]_vars => SpeechInv'
  <1> SUFFICES ASSUME SpeechInv, [Next]_vars PROVE SpeechInv'
    OBVIOUS
  <1>1. CASE Ask
    BY <1>1, AskKeeps
  <1>2. CASE Speak
    BY <1>2, SpeakKeeps
  <1>3. CASE EndSentence
    BY <1>3, EndSentenceKeeps
  <1>4. CASE EndReading
    BY <1>4, CloseKeeps DEF EndReading, otherVars, requestVars
  <1>5. CASE ReadingFails
    BY <1>5, CloseKeeps DEF ReadingFails, otherVars, requestVars
  <1>6. CASE AwaitFirst
    BY <1>6, AwaitFirstKeeps
  <1>7. CASE Collect
    BY <1>7, CollectKeeps
  <1>8. CASE AnswerWhole
    BY <1>8, AnswerWholeKeeps
  <1>9. CASE Encode
    BY <1>9, EncodeKeeps
  <1>10. CASE FlushTail
    BY <1>10, FlushTailKeeps
  <1>11. CASE Send
    BY <1>11, SendKeeps
  <1>12. CASE EncodeFails
    BY <1>12, EncodeFailsKeeps
  <1>13. CASE Hear
    BY <1>13, HearKeeps
  <1>14. CASE Leave
    BY <1>14, LeaveKeeps
  <1>15. CASE UNCHANGED vars
    <2>1. UNCHANGED <<asked, answer, sentences, ended, spoken, closed, channel, task, coder,
                      body, heard, gone>>
      BY <1>15 DEF vars, requestVars, engineVars
    <2>2. Sent' = Sent
      BY <2>1 DEF Sent
    <2>3. Types' /\ Unanswered'
      BY <2>1 DEF SpeechInv, Types, Recorded, Unanswered
    <2>4. Gathering' /\ Encoding' /\ Whole' /\ Playable'
      BY <2>1, <2>2 DEF SpeechInv, Gathering, Encoding, Whole, AllPieces, Playable
    <2> QED
      BY <2>3, <2>4 DEF SpeechInv
  <1> QED
    BY <1>1, <1>2, <1>3, <1>4, <1>5, <1>6, <1>7, <1>8, <1>9, <1>10, <1>11, <1>12, <1>13,
       <1>14, <1>15 DEF Next, EngineSteps, TaskSteps, Listener

LEMMA SpeechHolds == Spec => []SpeechInv
  <1>1. Init => SpeechInv
    BY SpeechStarts
  <1>2. SpeechInv /\ [Next]_vars => SpeechInv'
    BY SpeechKeeps
  <1> QED
    BY <1>1, <1>2, PTL DEF Spec

LEMMA AllEncodedIs ==
    ASSUME Spoken(spoken, ended)
    PROVE  AllEncoded = FlattenSeq(AllPieces)
  <1>1. DOMAIN spoken = 1..Len(spoken)
    BY LenProperties DEF Spoken
  <1>2. [i \in DOMAIN spoken |-> EncodedAlone(spoken[i])] = AllPieces
    BY <1>1 DEF AllPieces, Encodings, EncodedAlone, Alone
  <1> QED
    BY <1>2 DEF AllEncoded

\* A body that ends with its listener there, no encoder having failed, holds all
\* the samples the engine sent: each sentence encoded on its own where the format
\* can be streamed (`stream`), the whole gathered and encoded once where it cannot
\* (`buffered`).
THEOREM NothingLostHolds == Spec => []NothingLost
  <1>1. SpeechInv => NothingLost
    <2> SUFFICES ASSUME SpeechInv PROVE NothingLost
      OBVIOUS
    <2>1. AllEncoded = FlattenSeq(AllPieces)
      BY AllEncodedIs DEF SpeechInv, Types
    <2> QED
      BY <2>1 DEF SpeechInv, Whole, NothingLost, EncodedAlone, Alone
  <1> QED
    BY <1>1, SpeechHolds, PTL

\* What a listener holds can be played at any moment, whatever fails and whoever
\* leaves: framed, a piece is one sentence encoded on its own; unframed, the bytes
\* begin the stream of all the sentences (the body's task in `stream`, `Chunked`).
THEOREM HeardIsPlayableHolds == Spec => []HeardIsPlayable
  <1>1. SpeechInv => HeardIsPlayable
    <2> SUFFICES ASSUME SpeechInv, CanChunk(asked.format)
                 PROVE  IF asked.framed
                        THEN \A i \in DOMAIN Sent : Sent[i] = EncodedAlone(spoken[i])
                        ELSE IsPrefix(FlattenSeq(Sent), AllEncoded)
      BY DEF HeardIsPlayable
    <2>1. /\ Spoken(spoken, ended) /\ asked.format \in Format
          /\ heard \in Seq(Seq(Byte)) /\ body \in Seq(Seq(Byte))
      BY DEF SpeechInv, Types
    <2>2. Sent \in Seq(Seq(Byte))
      BY <2>1, SentType DEF Sent
    <2>3. asked.format \in {"mp3", "pcm"}
      BY <2>1, Chunks
    <2>4. Played(asked.format, asked.framed, spoken, ended, closed, Sent)
      BY DEF SpeechInv, Playable
    <2>5. IF asked.framed
          THEN \A i \in DOMAIN Sent : Sent[i] = Alone(asked.format, spoken[i])
          ELSE IsPrefix(FlattenSeq(Sent), FlattenSeq(Encodings(asked.format, spoken, Len(spoken))))
      BY <2>1, <2>2, <2>3, <2>4, PlayedIs
    <2>6. AllEncoded = FlattenSeq(AllPieces)
      BY <2>1, AllEncodedIs
    <2> QED
      BY <2>5, <2>6 DEF AllPieces, EncodedAlone, Alone
  <1> QED
    BY <1>1, SpeechHolds, PTL
=============================================================================
