--------------------------- MODULE SchedulerProofs ---------------------------
(***************************************************************************)
(* Proofs about the scheduler.  The inductive invariant IInv counts the    *)
(* readings at each place: what the slot counters and the queued gauges    *)
(* hold is the number of readings whose Job is somewhere between two       *)
(* points of the code, and from that no deque can hold a reading when the  *)
(* engine goes on to step its batch.  StreamsHeld, on top of it, pairs the *)
(* readings with the streams of the batch, and Delivered says of each      *)
(* frame channel how far it got.                                           *)
(***************************************************************************)
EXTENDS Scheduler, BatcherProofs, SequenceTheorems

\* The readings of class c that f places in P.
Within(f, P, c) == {j \in Job : ClassOf[j] = c /\ f[j] \in P}

Waiting == {"counted", "channel", "queue"}

LEMMA WithinFinite ==
  ASSUME NEW f, NEW P, NEW c
  PROVE  /\ IsFiniteSet(Within(f, P, c))
         /\ Cardinality(Within(f, P, c)) \in Nat
<1>1. IsFiniteSet(Within(f, P, c))
  BY SchedulerAssumption, FS_Subset DEF Within, SchedulerAssumption
<1> QED
  BY <1>1, FS_CardinalityType

\* Moving one reading, as the EXCEPT of the actions does.
Move(f, j, p) == [f EXCEPT ![j] = p]

LEMMA WithinKept ==
  ASSUME NEW f \in [Job -> Places], NEW j \in Job, NEW p, NEW P, NEW c,
         f[j] \in P <=> p \in P
  PROVE  Within(Move(f, j, p), P, c) = Within(f, P, c)
BY DEF Within, Move

LEMMA WithinEntered ==
  ASSUME NEW f \in [Job -> Places], NEW j \in Job, NEW p, NEW P, NEW c,
         f[j] \notin P, p \in P
  PROVE  Cardinality(Within(Move(f, j, p), P, c)) =
           IF c = ClassOf[j] THEN Cardinality(Within(f, P, c)) + 1
                             ELSE Cardinality(Within(f, P, c))
<1>1. CASE c = ClassOf[j]
  <2>1. Within(Move(f, j, p), P, c) = Within(f, P, c) \cup {j} /\ j \notin Within(f, P, c)
    BY <1>1 DEF Within, Move
  <2> QED
    BY <1>1, <2>1, WithinFinite, FS_AddElement
<1>2. CASE c # ClassOf[j]
  <2>1. Within(Move(f, j, p), P, c) = Within(f, P, c)
    BY <1>2 DEF Within, Move
  <2> QED
    BY <1>2, <2>1
<1> QED
  BY <1>1, <1>2

LEMMA WithinLeft ==
  ASSUME NEW f \in [Job -> Places], NEW j \in Job, NEW p, NEW P, NEW c,
         f[j] \in P, p \notin P
  PROVE  Cardinality(Within(Move(f, j, p), P, c)) =
           IF c = ClassOf[j] THEN Cardinality(Within(f, P, c)) - 1
                             ELSE Cardinality(Within(f, P, c))
<1>1. CASE c = ClassOf[j]
  <2>1. Within(Move(f, j, p), P, c) = Within(f, P, c) \ {j} /\ j \in Within(f, P, c)
    BY <1>1 DEF Within, Move
  <2> QED
    BY <1>1, <2>1, WithinFinite, FS_RemoveElement
<1>2. CASE c # ClassOf[j]
  <2>1. Within(Move(f, j, p), P, c) = Within(f, P, c)
    BY <1>2 DEF Within, Move
  <2> QED
    BY <1>2, <2>1
<1> QED
  BY <1>1, <1>2

Dropping(f, js) == [j \in Job |-> IF j \in js THEN "dropped" ELSE f[j]]

LEMMA WithinDropped ==
  ASSUME NEW f \in [Job -> Places], NEW js \in SUBSET Job, NEW P, NEW c,
         \A j \in js : f[j] \in P, "dropped" \notin P
  PROVE  /\ Cardinality(js \cap Of(c)) \in Nat
         /\ Cardinality(Within(Dropping(f, js), P, c))
              = Cardinality(Within(f, P, c)) - Cardinality(js \cap Of(c))
<1>1. /\ Within(Dropping(f, js), P, c) = Within(f, P, c) \ (js \cap Of(c))
      /\ Within(f, P, c) \cap (js \cap Of(c)) = js \cap Of(c)
  BY DEF Within, Dropping, Of
<1>2. IsFiniteSet(js \cap Of(c))
  BY SchedulerAssumption, FS_Subset DEF Of, SchedulerAssumption
<1>3. Cardinality(js \cap Of(c)) \in Nat
  BY <1>2, FS_CardinalityType
<1>4. IsFiniteSet(Within(f, P, c))
  BY WithinFinite
<1>5. Cardinality(Within(f, P, c) \ (js \cap Of(c)))
        = Cardinality(Within(f, P, c)) - Cardinality(Within(f, P, c) \cap (js \cap Of(c)))
  BY <1>2, <1>4, FS_Difference
<1> QED
  BY <1>1, <1>3, <1>5

LEMMA WithinUntouched ==
  ASSUME NEW f \in [Job -> Places], NEW js \in SUBSET Job, NEW P, NEW c,
         \A j \in js : f[j] \notin P, "dropped" \notin P
  PROVE  Within(Dropping(f, js), P, c) = Within(f, P, c)
BY DEF Within, Dropping

-----------------------------------------------------------------------------
(* The values of the active map. *)

LEMMA BeginType ==
  ASSUME NEW id \in Nat, NEW segment \in Nat, NEW attempt \in Nat
  PROVE  Begin(id, segment, attempt) \in Active
<1>1. <<>> \in Seq(Piece)
  OBVIOUS
<1> QED
  BY <1>1 DEF Begin, Active

LEMMA HearType ==
  ASSUME NEW a \in Active, NEW f \in Frame
  PROVE  Hear(a, f) \in Active /\ Hear(a, f).segment = a.segment /\ Hear(a, f).attempt = a.attempt
<1>1. a.seen + 1 \in Nat
  BY DEF Active
<1>2. (a.loud \/ f.loud) \in BOOLEAN
  OBVIOUS
<1> DEFINE n == a.seen + 1
           l == a.loud \/ f.loud
<1>3. Hear(a, f) = [a EXCEPT !.seen = n, !.loud = l]
  BY DEF Hear
<1>4. n \in Nat /\ l \in BOOLEAN
  BY <1>1, <1>2
<1> HIDE DEF n, l
<1>5. [a EXCEPT !.seen = n, !.loud = l] \in Active
  BY <1>4 DEF Active
<1>6. /\ [a EXCEPT !.seen = n, !.loud = l].segment = a.segment
      /\ [a EXCEPT !.seen = n, !.loud = l].attempt = a.attempt
  BY DEF Active
<1> QED
  BY <1>3, <1>5, <1>6

LEMMA PendType ==
  ASSUME NEW a \in Active, NEW s \in Seq(Piece)
  PROVE  [a EXCEPT !.pending = s] \in Active
BY DEF Active

LEMMA PushType ==
  ASSUME NEW a \in Active
  PROVE  Push(a) \in Seq(Piece)
<1>1. a.pending \in Seq(Piece) /\ a.segment \in Nat /\ a.attempt \in Nat /\ a.seen \in Nat
  BY DEF Active
<1>2. [segment |-> a.segment, attempt |-> a.attempt, frame |-> a.seen] \in Piece
  BY <1>1 DEF Piece
<1> QED
  BY <1>1, <1>2 DEF Push

LEMMA EndType ==
  ASSUME NEW a \in Active
  PROVE  EndOf(a) \in Seq(Piece)
<1>1. a.pending \in Seq(Piece) /\ a.segment \in Nat /\ a.attempt \in Nat /\ a.seen \in Nat
  BY DEF Active
<1>2. [segment |-> a.segment, attempt |-> a.attempt, frame |-> SegmentEnd] \in Piece
  BY <1>1 DEF Piece, SegmentEnd
<1> QED
  BY <1>1, <1>2 DEF EndOf
-----------------------------------------------------------------------------
\* The types of all but the counters, and enough rows in the caches.
Shape ==
    /\ GoodBatch(batch) /\ faults \in 0..MaxFaults
    /\ place \in [Job -> Places]
    /\ gauge \in [Class -> Nat]
    /\ pc \in {"receive", "drain", "live", "background", "step", "frames"}
    /\ reading \in [Job -> Active]
    /\ frames \in [DOMAIN frames -> Frame] /\ DOMAIN frames \subseteq Nat
    /\ out \in [Job -> Seq(Piece)]
    /\ left \in SUBSET Job /\ hurt \in SUBSET Job

\* A slot is counted from its grant to the drop of its Job.
SlotCounts ==
    /\ taken \in [Class -> Nat]
    /\ \A c \in Class : /\ taken[c] = Cardinality(Within(place, HoldingSlot, c))
                        /\ taken[c] <= Slots[c]

\* A reading is counted as queued from submit to its first stream.
QueueCounts ==
    /\ queued \in [Class -> Nat]
    /\ \A c \in Class : queued[c] = Cardinality(Within(place, Waiting, c))

IInv == Shape /\ SlotCounts /\ QueueCounts /\ NothingWaits

-----------------------------------------------------------------------------
(* The slot counters and the queued gauges. *)

LEMMA SlotsKept ==
  ASSUME Shape, SlotCounts, NEW j \in Job, NEW p,
         place' = Move(place, j, p), UNCHANGED taken,
         place[j] \in HoldingSlot <=> p \in HoldingSlot
  PROVE  SlotCounts'
<1>1. place \in [Job -> Places]
  BY DEF Shape
<1>2. ASSUME NEW c
      PROVE  Within(Move(place, j, p), HoldingSlot, c) = Within(place, HoldingSlot, c)
  BY <1>1, WithinKept
<1> QED
  BY <1>2 DEF SlotCounts

LEMMA QueuedKept ==
  ASSUME Shape, QueueCounts, NEW j \in Job, NEW p,
         place' = Move(place, j, p), UNCHANGED queued,
         place[j] \in Waiting <=> p \in Waiting
  PROVE  QueueCounts'
<1>1. place \in [Job -> Places]
  BY DEF Shape
<1>2. ASSUME NEW c
      PROVE  Within(Move(place, j, p), Waiting, c) = Within(place, Waiting, c)
  BY <1>1, WithinKept
<1> QED
  BY <1>2 DEF QueueCounts

LEMMA SlotsDropped ==
  ASSUME Shape, SlotCounts, NEW js \in SUBSET Job, Drop(js),
         \A j \in js : place[j] \in HoldingSlot
  PROVE  SlotCounts'
<1>1. place' = Dropping(place, js) /\ taken' = [c \in Class |-> taken[c] - Cardinality(js \cap Of(c))]
  BY DEF Drop, Release, Dropping
<1>2. place \in [Job -> Places] /\ "dropped" \notin HoldingSlot
  BY DEF Shape, HoldingSlot
<1>3. ASSUME NEW c \in Class
      PROVE  /\ taken[c] - Cardinality(js \cap Of(c)) = Cardinality(Within(place', HoldingSlot, c))
             /\ taken[c] - Cardinality(js \cap Of(c)) <= Slots[c]
             /\ taken[c] - Cardinality(js \cap Of(c)) \in Nat
  <2>1. /\ Cardinality(js \cap Of(c)) \in Nat
        /\ Cardinality(Within(Dropping(place, js), HoldingSlot, c))
             = Cardinality(Within(place, HoldingSlot, c)) - Cardinality(js \cap Of(c))
    BY <1>2, WithinDropped
  <2>2. Cardinality(Within(place', HoldingSlot, c)) \in Nat
    BY WithinFinite
  <2>3. /\ taken[c] \in Nat /\ taken[c] <= Slots[c] /\ Slots[c] \in Nat
        /\ taken[c] = Cardinality(Within(place, HoldingSlot, c))
    BY SchedulerAssumption DEF SlotCounts, SchedulerAssumption
  <2> QED
    BY <1>1, <2>1, <2>2, <2>3
<1> QED
  BY <1>1, <1>3 DEF SlotCounts

LEMMA QueuedDropped ==
  ASSUME Shape, QueueCounts, NEW js \in SUBSET Job, Drop(js), UNCHANGED queued,
         \A j \in js : place[j] \notin Waiting
  PROVE  QueueCounts'
<1>1. place' = Dropping(place, js)
  BY DEF Drop, Dropping
<1>2. place \in [Job -> Places] /\ "dropped" \notin Waiting
  BY DEF Shape, Waiting
<1>3. ASSUME NEW c
      PROVE  Within(Dropping(place, js), Waiting, c) = Within(place, Waiting, c)
  BY <1>2, WithinUntouched
<1> QED
  BY <1>1, <1>3 DEF QueueCounts

\* One reading goes from the deque to where it no longer waits.
LEMMA QueuedLeft ==
  ASSUME Shape, QueueCounts, NEW j \in Job, NEW p,
         place' = Move(place, j, p), place[j] = "queue", p \notin Waiting,
         queued' = [queued EXCEPT ![ClassOf[j]] = @ - 1]
  PROVE  QueueCounts'
<1>1. place \in [Job -> Places] /\ place[j] \in Waiting
  BY DEF Shape, Waiting
<1>2. ASSUME NEW c
      PROVE  Cardinality(Within(Move(place, j, p), Waiting, c)) =
               IF c = ClassOf[j] THEN Cardinality(Within(place, Waiting, c)) - 1
                                 ELSE Cardinality(Within(place, Waiting, c))
  BY <1>1, WithinLeft
<1>3. ASSUME NEW c \in Class
      PROVE  queued'[c] = Cardinality(Within(place', Waiting, c)) /\ queued'[c] \in Nat
  <2>1. Cardinality(Within(place', Waiting, c)) \in Nat
    BY WithinFinite
  <2> QED
    BY <1>2, <2>1 DEF QueueCounts
<1> QED
  BY <1>3 DEF QueueCounts

LEMMA GrantCounts ==
  ASSUME Shape, SlotCounts, QueueCounts, NEW j \in Job, Grant(j)
  PROVE  SlotCounts' /\ QueueCounts'
<1>1. /\ place \in [Job -> Places] /\ place[j] = "new" /\ UNCHANGED queued
      /\ place' = Move(place, j, "granted")
  BY DEF Shape, Grant, Move
<1>2. QueueCounts'
  <2>1. place[j] \in Waiting <=> "granted" \in Waiting
    BY <1>1 DEF Waiting
  <2> QED
    BY <1>1, <2>1, QueuedKept
<1>3. ASSUME NEW c
      PROVE  Cardinality(Within(Move(place, j, "granted"), HoldingSlot, c)) =
               IF c = ClassOf[j] THEN Cardinality(Within(place, HoldingSlot, c)) + 1
                                 ELSE Cardinality(Within(place, HoldingSlot, c))
  <2>1. place[j] \notin HoldingSlot /\ "granted" \in HoldingSlot
    BY <1>1 DEF HoldingSlot
  <2> QED
    BY <1>1, <2>1, WithinEntered
<1>4. ASSUME NEW c \in Class
      PROVE  /\ taken'[c] = Cardinality(Within(place', HoldingSlot, c))
             /\ taken'[c] <= Slots[c] /\ taken'[c] \in Nat
  <2>1. taken[c] \in Nat /\ taken[c] <= Slots[c] /\ Slots[c] \in Nat
    BY SchedulerAssumption DEF SlotCounts, SchedulerAssumption
  <2>2. taken'[c] = IF c = ClassOf[j] THEN taken[c] + 1 ELSE taken[c]
    BY DEF Grant, SlotCounts
  <2>3. c = ClassOf[j] => taken[c] < Slots[c]
    BY DEF Grant
  <2>4. taken[c] = Cardinality(Within(place, HoldingSlot, c))
    BY DEF SlotCounts
  <2> QED
    BY <1>1, <1>3, <2>1, <2>2, <2>3, <2>4
<1>5. taken' = [c \in Class |-> taken'[c]]
  BY DEF Grant, SlotCounts
<1>6. SlotCounts'
  BY <1>4, <1>5 DEF SlotCounts
<1> QED
  BY <1>2, <1>6

LEMMA CountQueuedCounts ==
  ASSUME Shape, SlotCounts, QueueCounts, NEW j \in Job, CountQueued(j)
  PROVE  SlotCounts' /\ QueueCounts'
<1>1. /\ place \in [Job -> Places] /\ place[j] = "granted" /\ UNCHANGED taken
      /\ place' = Move(place, j, "counted")
  BY DEF Shape, CountQueued, Move
<1>2. SlotCounts'
  <2>1. place[j] \in HoldingSlot <=> "counted" \in HoldingSlot
    BY <1>1 DEF HoldingSlot
  <2> QED
    BY <1>1, <2>1, SlotsKept
<1>3. ASSUME NEW c
      PROVE  Cardinality(Within(Move(place, j, "counted"), Waiting, c)) =
               IF c = ClassOf[j] THEN Cardinality(Within(place, Waiting, c)) + 1
                                 ELSE Cardinality(Within(place, Waiting, c))
  <2>1. place[j] \notin Waiting /\ "counted" \in Waiting
    BY <1>1 DEF Waiting
  <2> QED
    BY <1>1, <2>1, WithinEntered
<1>4. ASSUME NEW c \in Class
      PROVE  queued'[c] = Cardinality(Within(place', Waiting, c)) /\ queued'[c] \in Nat
  <2>1. queued[c] \in Nat /\ queued[c] = Cardinality(Within(place, Waiting, c))
    BY DEF QueueCounts
  <2>2. queued'[c] = IF c = ClassOf[j] THEN queued[c] + 1 ELSE queued[c]
    BY DEF CountQueued, QueueCounts
  <2> QED
    BY <1>1, <1>3, <2>1, <2>2
<1>5. queued' = [c \in Class |-> queued'[c]]
  BY DEF CountQueued, QueueCounts
<1>6. QueueCounts'
  BY <1>4, <1>5 DEF QueueCounts
<1> QED
  BY <1>2, <1>6

-----------------------------------------------------------------------------
(* A reading is queued only while its class has a slot for it to start in. *)

LEMMA QueuedCanStart ==
  ASSUME Shape, SlotCounts, NEW j \in At("queue")
  PROVE  Cardinality(ActiveOf(ClassOf[j])) < Slots[ClassOf[j]]
<1> DEFINE c == ClassOf[j]
           on == ActiveOf(c)
           held == Within(place, HoldingSlot, c)
<1>1. j \in Job /\ place[j] = "queue" /\ c \in Class
  BY SchedulerAssumption DEF At, SchedulerAssumption
<1>2. IsFiniteSet(held) /\ Cardinality(held) \in Nat
  BY WithinFinite
<1>3. on \cup {j} \subseteq held /\ j \notin on
  BY <1>1 DEF ActiveOf, At, Of, Within, HoldingSlot
<1>4. IsFiniteSet(on) /\ IsFiniteSet(on \cup {j})
  BY <1>2, <1>3, FS_Subset
<1>5. Cardinality(on \cup {j}) = Cardinality(on) + 1 /\ Cardinality(on) \in Nat
  BY <1>3, <1>4, FS_AddElement, FS_CardinalityType
<1>6. Cardinality(on \cup {j}) <= Cardinality(held)
  BY <1>2, <1>3, FS_Subset
<1>7. Cardinality(held) <= Slots[c] /\ Slots[c] \in Nat
  BY <1>1, SchedulerAssumption DEF SlotCounts, SchedulerAssumption
<1> HIDE DEF c, on, held
<1> QED
  BY <1>2, <1>5, <1>6, <1>7 DEF c, on
-----------------------------------------------------------------------------
(* What the operations shared by several actions keep. *)

\* The part of Shape that a reading's start, restart or end changes.
Running ==
    /\ GoodBatch(batch) /\ faults \in 0..MaxFaults
    /\ place \in [Job -> Places]
    /\ reading \in [Job -> Active]
    /\ hurt \in SUBSET Job

LEMMA DropShape ==
  ASSUME Shape, NEW js \in SUBSET Job, Drop(js)
  PROVE  place' \in [Job -> Places] /\ reading' \in [Job -> Active]
<1>1. place \in [Job -> Places] /\ reading \in [Job -> Active] /\ "dropped" \in Places
  BY DEF Shape, Places
<1>2. NoReading \in Active
  BY BeginType DEF NoReading
<1> QED
  BY <1>1, <1>2 DEF Drop

LEMMA AddStreamShape ==
  ASSUME Shape, NEW b, GoodBatch(b), NEW j \in Job, NEW segment \in Nat, NEW attempt \in Nat,
         AddStream(j, b, segment, attempt)
  PROVE  Running' /\ place' = Move(place, j, "active") /\ taken' = taken
<1>1. place \in [Job -> Places] /\ reading \in [Job -> Active] /\ "active" \in Places
  BY DEF Shape, Places
<1>2. b.next \in Nat
  BY DEF GoodBatch, IsBatch
<1>3. Begin(b.next, segment, attempt) \in Active
  BY <1>2, BeginType
<1>4. place' \in [Job -> Places] /\ reading' \in [Job -> Active]
  BY <1>1, <1>3 DEF AddStream
<1>5. GoodBatch(batch')
  BY AddedGood DEF AddStream
<1>6. faults' \in 0..MaxFaults /\ hurt' \in SUBSET Job
  BY DEF AddStream, Shape
<1> QED
  BY <1>4, <1>5, <1>6 DEF Running, AddStream, Move

LEMMA AddStreamFailsShape ==
  ASSUME Shape, NEW b, GoodBatch(b), NEW j \in Job, AddStreamFails(j, b)
  PROVE  Running' /\ place' = Move(place, j, "dropped") /\ Drop({j})
<1>1. PICK n \in FailingLayers : batch' = PartiallyAdded(b, n)
  BY DEF AddStreamFails
<1>2. n \in Nat /\ faults < MaxFaults
  <2>1. n \in Nat
    BY FailingLayersNat
  <2>2. CanFail("add") \/ CanFail("partial")
    BY <1>1 DEF FailingLayers
  <2> QED
    BY <2>1, <2>2 DEF CanFail
<1>3. GoodBatch(batch')
  BY <1>1, <1>2, PartiallyAddedGood
<1>4. faults' \in 0..MaxFaults /\ hurt' \in SUBSET Job
  BY <1>2, BatchAssumption DEF AddStreamFails, Shape, BatchAssumption
<1>5. Drop({j}) /\ place' \in [Job -> Places] /\ reading' \in [Job -> Active]
  BY DropShape DEF AddStreamFails
<1>6. place' = Move(place, j, "dropped")
  BY <1>5 DEF Drop, Move, Shape
<1> QED
  BY <1>3, <1>4, <1>5, <1>6 DEF Running

LEMMA WithoutStreamGood ==
  ASSUME Shape, NEW id, NEW f
  PROVE  GoodBatch(WithoutStream(id, f))
BY RemovedGood DEF Shape, WithoutStream

\* Handling a frame takes it out of those left.
LEMMA HandleShape ==
  ASSUME Shape, NEW id, Handle(id)
  PROVE  /\ frames' \in [DOMAIN frames' -> Frame] /\ DOMAIN frames' \subseteq Nat
         /\ frames[id] \in Frame
         /\ pc = "frames" /\ UNCHANGED <<pc, gauge, queued, left>>
<1>1. id \in DOMAIN frames /\ frames \in [DOMAIN frames -> Frame] /\ DOMAIN frames \subseteq Nat
  BY DEF Handle, NextFrame, Shape
<1> QED
  BY <1>1 DEF Handle, Restrict, EngineAt

LEMMA ActiveCountType ==
  ASSUME NEW c
  PROVE  Cardinality(ActiveOf(c)) \in Nat
<1>1. IsFiniteSet(ActiveOf(c))
  BY SchedulerAssumption, FS_Subset DEF ActiveOf, At, SchedulerAssumption
<1> QED
  BY <1>1, FS_CardinalityType

LEMMA ShowActiveType ==
  ASSUME ShowActive
  PROVE  gauge' \in [Class -> Nat]
BY ActiveCountType DEF ShowActive
-----------------------------------------------------------------------------
(* Every step keeps the shape of the state. *)

LEMMA HandlerShape ==
  ASSUME Shape, NEW j \in Job, Submit(j) \/ Leave(j) \/ Close(j) \/ Receive(j) \/ Drain(j)
  PROVE  Shape'
<1> USE DEF Shape
<1>1. CASE Grant(j)
  BY <1>1 DEF Grant, Places, engineVars, listenerVars, batchVars
<1>2. CASE Refuse(j)
  BY <1>2 DEF Refuse, Places, engineVars, listenerVars, batchVars
<1>3. CASE CountQueued(j)
  BY <1>3 DEF CountQueued, Places, engineVars, listenerVars, batchVars
<1>4. CASE SendJob(j)
  BY <1>4 DEF SendJob, Places, engineVars, listenerVars, batchVars
<1>5. CASE Leave(j)
  BY <1>5 DEF Leave, handlerVars, engineVars, batchVars
<1>6. CASE Close(j)
  BY <1>6 DEF Close, Places, engineVars, listenerVars, batchVars
<1>7. CASE Receive(j)
  BY <1>7 DEF Receive, Places, listenerVars, batchVars
<1>8. CASE Drain(j)
  BY <1>8 DEF Drain, Places, engineVars, listenerVars, batchVars
<1> QED
  BY <1>1, <1>2, <1>3, <1>4, <1>5, <1>6, <1>7, <1>8 DEF Submit

LEMMA LoopShape ==
  ASSUME Shape,
         ReceiveNothing \/ Drained \/ LiveStarted \/ BackgroundStarted \/ FramesDone
  PROVE  Shape'
<1> USE DEF Shape
<1>1. CASE ReceiveNothing
  BY <1>1 DEF ReceiveNothing, handlerVars, listenerVars, batchVars
<1>2. CASE Drained
  BY <1>2 DEF Drained, handlerVars, listenerVars, batchVars
<1>3. CASE LiveStarted
  BY <1>3 DEF LiveStarted, handlerVars, listenerVars, batchVars
<1>4. CASE BackgroundStarted
  BY <1>4, ShowActiveType DEF BackgroundStarted, handlerVars, listenerVars, batchVars
<1>5. CASE FramesDone
  BY <1>5, ShowActiveType DEF FramesDone, handlerVars, listenerVars, batchVars
<1> QED
  BY <1>1, <1>2, <1>3, <1>4, <1>5

LEMMA StartShape ==
  ASSUME Shape, NEW j \in Job, Start(j)
  PROVE  Shape'
<1>1. GoodBatch(batch) /\ UNCHANGED <<pc, frames, gauge, out, left>>
  BY DEF Shape, Start
<1>2. AddStream(j, batch, 1, 1) \/ AddStreamFails(j, batch)
  BY DEF Start
<1>3. Running'
  BY <1>1, <1>2, AddStreamShape, AddStreamFailsShape
<1> QED
  BY <1>1, <1>3 DEF Shape, Running

LEMMA StepShape ==
  ASSUME Shape, StepBatch \/ StepBatchFails
  PROVE  Shape'
<1>1. CASE StepBatch
  <2>1. PICK eos \in SUBSET Ids(batch), loud \in SUBSET Ids(batch) :
          /\ batch' = Stepped(batch, eos)
          /\ frames' = [id \in Ids(batch) |->
                          [loud |-> id \in loud, done |-> id \in DoneIds(batch, eos)]]
    BY <1>1 DEF StepBatch
  <2>2. GoodBatch(batch) /\ Ids(batch) \subseteq Nat
    BY IdsFinite DEF Shape, GoodBatch
  <2>3. GoodBatch(batch')
    BY <2>1, <2>2, SteppedGood
  <2>4. DOMAIN frames' \subseteq Nat /\ frames' \in [DOMAIN frames' -> Frame]
    BY <2>1, <2>2 DEF Frame
  <2> QED
    BY <1>1, <2>3, <2>4 DEF StepBatch, Shape, handlerVars, listenerVars
<1>2. CASE StepBatchFails
  <2>1. /\ place' \in [Job -> Places] /\ reading' \in [Job -> Active]
        /\ UNCHANGED <<frames, gauge, out, left>> /\ pc' = "receive"
        /\ hurt' \in SUBSET Job
    BY <1>2, DropShape DEF StepBatchFails, At, Shape
  <2>2. GoodBatch(batch') /\ faults' \in 0..MaxFaults
    <3>1. CASE UNCHANGED batchVars
      BY <3>1 DEF batchVars, Shape
    <3>2. CASE /\ CanFail("step")
               /\ \E moved \in SUBSET Ids(batch) :
                    \E eos \in SUBSET moved : batch' = StepFailed(batch, moved, eos)
               /\ faults' = faults + 1
      BY <3>2, StepFailedGood, BatchAssumption DEF Shape, CanFail, BatchAssumption
    <3> QED
      BY <1>2, <3>1, <3>2 DEF StepBatchFails
  <2> QED
    BY <2>1, <2>2 DEF Shape
<1> QED
  BY <1>1, <1>2

LEMMA FrameShape ==
  ASSUME Shape, NEW j \in Job, NEW id, FrameOf(j, id)
  PROVE  Shape'
<1> DEFINE f == frames[id]
           a == Hear(reading[j], f)
<1>1. Handle(id)
  BY DEF FrameOf, BadFrame, ReadAgain, HoldFrame, ListenerLeft, SendFrames, EndSegment
<1>2. /\ frames' \in [DOMAIN frames' -> Frame] /\ DOMAIN frames' \subseteq Nat
      /\ f \in Frame /\ UNCHANGED <<pc, gauge, queued, left>>
  BY <1>1, HandleShape
<1>3. a \in Active /\ a.segment \in Nat /\ a.attempt \in Nat
  <2>1. reading[j] \in Active
    BY DEF Shape
  <2>2. a \in Active
    BY <1>2, <2>1, HearType
  <2> HIDE DEF a
  <2> QED
    BY <2>2 DEF Active
<1>4. Push(a) \in Seq(Piece) /\ EndOf(a) \in Seq(Piece) /\ out[j] \in Seq(Piece) /\ <<>> \in Seq(Piece)
  BY <1>3, PushType, EndType DEF Shape
<1>5. GoodBatch(batch) /\ GoodBatch(WithoutStream(id, f))
  BY WithoutStreamGood DEF Shape
<1>6. 1 \in Nat /\ a.segment + 1 \in Nat /\ a.attempt + 1 \in Nat
  BY <1>3
<1> HIDE DEF a, f
<1>7. Running' /\ out' \in [Job -> Seq(Piece)]
  <2>1. CASE BadFrame(j, id)
    <3>1. place' \in [Job -> Places] /\ reading' \in [Job -> Active]
      BY <2>1, DropShape DEF BadFrame
    <3> QED
      BY <2>1, <3>1, BatchAssumption DEF BadFrame, Running, Shape, CanFail, BatchAssumption
  <2>2. CASE ReadAgain(j, id)
    <3>1. /\ \/ AddStream(j, WithoutStream(id, f), a.segment, a.attempt + 1)
             \/ AddStreamFails(j, WithoutStream(id, f))
          /\ UNCHANGED out
      BY <2>2 DEF ReadAgain, a, f
    <3> QED
      BY <1>3, <1>5, <1>6, <3>1, AddStreamShape, AddStreamFailsShape DEF Shape
  <2>3. CASE HoldFrame(j, id)
    <3>1. /\ reading' = [reading EXCEPT ![j] = [a EXCEPT !.pending = Push(a)]]
          /\ UNCHANGED <<place, taken, out, hurt, batchVars>>
      BY <2>3 DEF HoldFrame, a, f
    <3>2. [a EXCEPT !.pending = Push(a)] \in Active
      BY <1>3, <1>4, PendType
    <3> QED
      BY <3>1, <3>2 DEF Shape, Running, batchVars
  <2>4. CASE ListenerLeft(j, id)
    <3>1. batch' = WithoutStream(id, f) /\ Drop({j}) /\ UNCHANGED <<out, hurt, faults>>
      BY <2>4 DEF ListenerLeft, f
    <3>2. place' \in [Job -> Places] /\ reading' \in [Job -> Active]
      BY <3>1, DropShape
    <3> QED
      BY <1>5, <3>1, <3>2 DEF Shape, Running
  <2>5. CASE SendFrames(j, id)
    <3>1. /\ out' = [out EXCEPT ![j] = @ \o Push(a)]
          /\ reading' = [reading EXCEPT ![j] = [a EXCEPT !.pending = <<>>]]
          /\ UNCHANGED <<place, taken, hurt, batchVars>>
      BY <2>5 DEF SendFrames, a, f
    <3>2. [a EXCEPT !.pending = <<>>] \in Active
      BY <1>3, <1>4, PendType
    <3>3. out[j] \o Push(a) \in Seq(Piece)
      BY <1>4
    <3> QED
      BY <3>1, <3>2, <3>3 DEF Shape, Running, batchVars
  <2>6. CASE EndSegment(j, id)
    <3>1. /\ out' = [out EXCEPT ![j] = @ \o Push(a) \o EndOf(a)]
          /\ \/ AddStream(j, batch, a.segment + 1, 1)
             \/ AddStreamFails(j, batch)
             \/ Drop({j}) /\ UNCHANGED <<hurt, batchVars>>
      BY <2>6 DEF EndSegment, a, f
    <3>2. out[j] \o Push(a) \o EndOf(a) \in Seq(Piece)
      BY <1>4
    <3>3. out' \in [Job -> Seq(Piece)]
      BY <3>1, <3>2 DEF Shape
    <3>4. CASE AddStream(j, batch, a.segment + 1, 1) \/ AddStreamFails(j, batch)
      BY <1>5, <1>6, <3>3, <3>4, AddStreamShape, AddStreamFailsShape
    <3>5. CASE Drop({j}) /\ UNCHANGED <<hurt, batchVars>>
      <4>1. place' \in [Job -> Places] /\ reading' \in [Job -> Active]
        BY <3>5, DropShape
      <4> QED
        BY <3>3, <3>5, <4>1 DEF Shape, Running, batchVars
    <3> QED
      BY <3>1, <3>4, <3>5
  <2> QED
    BY <2>1, <2>2, <2>3, <2>4, <2>5, <2>6 DEF FrameOf
<1> QED
  BY <1>2, <1>7 DEF Shape, Running

LEMMA SkipShape ==
  ASSUME Shape, NEW id, SkipFrame(id)
  PROVE  Shape'
BY HandleShape DEF SkipFrame, Shape, batchVars
-----------------------------------------------------------------------------
(* Every step keeps the counts. *)

\* A reading moves between two places that both hold the slot, or neither,
\* and both count as queued, or neither.
LEMMA MoveCounts ==
  ASSUME Shape, SlotCounts, QueueCounts, NEW j \in Job, NEW p,
         place' = Move(place, j, p), UNCHANGED <<taken, queued>>,
         place[j] \in HoldingSlot <=> p \in HoldingSlot,
         place[j] \in Waiting <=> p \in Waiting
  PROVE  SlotCounts' /\ QueueCounts'
<1>1. UNCHANGED taken /\ UNCHANGED queued
  OBVIOUS
<1>2. SlotCounts'
  BY <1>1, SlotsKept
<1>3. QueueCounts'
  BY <1>1, QueuedKept
<1> QED
  BY <1>2, <1>3

LEMMA StillCounts ==
  ASSUME SlotCounts, QueueCounts, UNCHANGED <<place, taken, queued>>
  PROVE  SlotCounts' /\ QueueCounts'
BY DEF SlotCounts, QueueCounts, Within

LEMMA DropCounts ==
  ASSUME Shape, SlotCounts, QueueCounts, NEW js \in SUBSET Job, Drop(js), UNCHANGED queued,
         \A j \in js : place[j] = "active"
  PROVE  SlotCounts' /\ QueueCounts'
<1>1. \A j \in js : place[j] \in HoldingSlot /\ place[j] \notin Waiting
  BY DEF HoldingSlot, Waiting
<1>2. SlotCounts'
  BY <1>1, SlotsDropped
<1>3. QueueCounts'
  BY <1>1, QueuedDropped
<1> QED
  BY <1>2, <1>3

LEMMA HandlerCounts ==
  ASSUME Shape, SlotCounts, QueueCounts, NEW j \in Job,
         Submit(j) \/ Leave(j) \/ Close(j) \/ Receive(j) \/ Drain(j)
  PROVE  SlotCounts' /\ QueueCounts'
<1>1. CASE Grant(j)
  BY <1>1, GrantCounts
<1>2. CASE CountQueued(j)
  BY <1>2, CountQueuedCounts
<1>3. CASE Refuse(j)
  <2>1. place' = Move(place, j, "refused") /\ UNCHANGED <<taken, queued>> /\ place[j] = "new"
    BY <1>3 DEF Refuse, Move
  <2>2. /\ place[j] \in HoldingSlot <=> "refused" \in HoldingSlot
        /\ place[j] \in Waiting <=> "refused" \in Waiting
    BY <2>1 DEF HoldingSlot, Waiting
  <2> QED
    BY <2>1, <2>2, MoveCounts
<1>4. CASE SendJob(j)
  <2>1. place' = Move(place, j, "channel") /\ UNCHANGED <<taken, queued>> /\ place[j] = "counted"
    BY <1>4 DEF SendJob, Move
  <2>2. /\ place[j] \in HoldingSlot <=> "channel" \in HoldingSlot
        /\ place[j] \in Waiting <=> "channel" \in Waiting
    BY <2>1 DEF HoldingSlot, Waiting
  <2> QED
    BY <2>1, <2>2, MoveCounts
<1>5. CASE Leave(j)
  BY <1>5, StillCounts DEF Leave, handlerVars
<1>6. CASE Close(j)
  <2>1. place' = Move(place, j, "closed") /\ UNCHANGED <<taken, queued>> /\ place[j] = "dropped"
    BY <1>6 DEF Close, Move
  <2>2. /\ place[j] \in HoldingSlot <=> "closed" \in HoldingSlot
        /\ place[j] \in Waiting <=> "closed" \in Waiting
    BY <2>1 DEF HoldingSlot, Waiting
  <2> QED
    BY <2>1, <2>2, MoveCounts
<1>7. CASE Receive(j) \/ Drain(j)
  <2>1. place' = Move(place, j, "queue") /\ UNCHANGED <<taken, queued>> /\ place[j] = "channel"
    BY <1>7 DEF Receive, Drain, Move
  <2>2. /\ place[j] \in HoldingSlot <=> "queue" \in HoldingSlot
        /\ place[j] \in Waiting <=> "queue" \in Waiting
    BY <2>1 DEF HoldingSlot, Waiting
  <2> QED
    BY <2>1, <2>2, MoveCounts
<1> QED
  BY <1>1, <1>2, <1>3, <1>4, <1>5, <1>6, <1>7 DEF Submit

LEMMA StartCounts ==
  ASSUME Shape, SlotCounts, QueueCounts, NEW j \in Job, Start(j)
  PROVE  SlotCounts' /\ QueueCounts'
<1>1. /\ GoodBatch(batch) /\ place[j] = "queue"
      /\ queued' = [queued EXCEPT ![ClassOf[j]] = @ - 1]
  BY DEF Shape, Start
<1>2. CASE AddStream(j, batch, 1, 1)
  <2>1. place' = Move(place, j, "active") /\ UNCHANGED taken
    BY <1>1, <1>2, AddStreamShape
  <2>2. (place[j] \in HoldingSlot <=> "active" \in HoldingSlot) /\ "active" \notin Waiting
    BY <1>1 DEF HoldingSlot, Waiting
  <2>3. SlotCounts'
    BY <2>1, <2>2, SlotsKept
  <2>4. QueueCounts'
    BY <1>1, <2>1, <2>2, QueuedLeft
  <2> QED
    BY <2>3, <2>4
<1>3. CASE AddStreamFails(j, batch)
  <2>1. place' = Move(place, j, "dropped") /\ Drop({j})
    BY <1>1, <1>3, AddStreamFailsShape
  <2>2. place[j] \in HoldingSlot /\ "dropped" \notin Waiting
    BY <1>1 DEF HoldingSlot, Waiting
  <2>3. SlotCounts'
    BY <2>1, <2>2, SlotsDropped
  <2>4. QueueCounts'
    BY <1>1, <2>1, <2>2, QueuedLeft
  <2> QED
    BY <2>3, <2>4
<1> QED
  BY <1>2, <1>3 DEF Start

\* What a frame does to the Job of its reading: nothing, its next stream, or
\* its end.
LEMMA FrameMoves ==
  ASSUME Shape, NEW j \in Job, NEW id, FrameOf(j, id)
  PROVE  /\ place[j] = "active" /\ UNCHANGED queued /\ pc = "frames" /\ UNCHANGED pc
         /\ \/ UNCHANGED place /\ UNCHANGED taken
            \/ place' = Move(place, j, "active") /\ UNCHANGED taken
            \/ Drop({j})
<1>1. Handle(id) /\ Reads(j, id)
  BY DEF FrameOf, BadFrame, ReadAgain, HoldFrame, ListenerLeft, SendFrames, EndSegment
<1>2. place[j] = "active" /\ UNCHANGED queued /\ pc = "frames" /\ UNCHANGED pc
  BY <1>1 DEF Handle, Reads, EngineAt
<1>3. CASE HoldFrame(j, id) \/ SendFrames(j, id)
  BY <1>2, <1>3 DEF HoldFrame, SendFrames
<1>4. CASE BadFrame(j, id) \/ ListenerLeft(j, id)
  BY <1>2, <1>4 DEF BadFrame, ListenerLeft
<1>5. CASE ReadAgain(j, id) \/ EndSegment(j, id)
  <2>1. \/ \E b, segment, attempt : AddStream(j, b, segment, attempt) \/ AddStreamFails(j, b)
        \/ Drop({j})
    BY <1>5 DEF ReadAgain, EndSegment
  <2> QED
    BY <1>2, <2>1 DEF AddStream, AddStreamFails, Move
<1> QED
  BY <1>2, <1>3, <1>4, <1>5 DEF FrameOf

LEMMA FrameCounts ==
  ASSUME Shape, SlotCounts, QueueCounts, NEW j \in Job, NEW id, FrameOf(j, id)
  PROVE  SlotCounts' /\ QueueCounts'
<1>1. /\ place[j] = "active" /\ UNCHANGED queued
      /\ \/ UNCHANGED place /\ UNCHANGED taken
         \/ place' = Move(place, j, "active") /\ UNCHANGED taken
         \/ Drop({j})
  BY FrameMoves
<1>2. CASE UNCHANGED place /\ UNCHANGED taken
  BY <1>1, <1>2, StillCounts
<1>3. CASE place' = Move(place, j, "active") /\ UNCHANGED taken
  BY <1>1, <1>3, MoveCounts
<1>4. CASE Drop({j})
  BY <1>1, <1>4, DropCounts
<1> QED
  BY <1>1, <1>2, <1>3, <1>4

-----------------------------------------------------------------------------
(* Every step keeps the deques empty outside the admission loops. *)

\* The deques do not grow and the engine stays where it is.
LEMMA QueueShrinks ==
  ASSUME NothingWaits, At("queue")' \subseteq At("queue"), UNCHANGED pc
  PROVE  NothingWaits'
BY DEF NothingWaits, Of

LEMMA HandlerWaits ==
  ASSUME Shape, NothingWaits, NEW j \in Job,
         Submit(j) \/ Leave(j) \/ Close(j) \/ Receive(j) \/ Drain(j)
  PROVE  NothingWaits'
<1>1. CASE Receive(j)
  BY <1>1 DEF Receive, NothingWaits
<1>2. CASE Drain(j)
  BY <1>2 DEF Drain, NothingWaits, EngineAt, engineVars
<1>3. CASE Submit(j) \/ Leave(j) \/ Close(j)
  <2>1. At("queue")' \subseteq At("queue") /\ UNCHANGED pc
    BY <1>3 DEF Submit, Grant, Refuse, CountQueued, SendJob, Leave, Close, At, Shape,
                handlerVars, engineVars
  <2> QED
    BY <2>1, QueueShrinks
<1> QED
  BY <1>1, <1>2, <1>3

LEMMA LoopWaits ==
  ASSUME IInv, ReceiveNothing \/ Drained \/ LiveStarted \/ BackgroundStarted \/ FramesDone
  PROVE  NothingWaits'
<1>1. UNCHANGED place /\ At("queue")' = At("queue")
  BY DEF ReceiveNothing, Drained, LiveStarted, BackgroundStarted, FramesDone, handlerVars, At
<1>2. CASE ReceiveNothing \/ Drained
  BY <1>1, <1>2 DEF ReceiveNothing, Drained, NothingWaits
<1>3. CASE LiveStarted
  <2>1. At("queue") \cap Of("live") = {}
    <3>1. ASSUME NEW j \in At("queue") \cap Of("live") PROVE FALSE
      <4>1. Cardinality(ActiveOf("live")) < Slots["live"]
        BY <3>1, QueuedCanStart DEF IInv, Of
      <4> QED
        BY <1>3, <3>1, <4>1 DEF LiveStarted, CanStart
    <3> QED
      BY <3>1
  <2> QED
    BY <1>1, <1>3, <2>1 DEF LiveStarted, NothingWaits, Of
<1>4. CASE BackgroundStarted
  <2>1. pc = "background" /\ At("queue") \cap Of("live") = {}
    BY <1>4 DEF BackgroundStarted, EngineAt, IInv, NothingWaits
  <2>2. At("queue") \cap Of("background") = {}
    <3>1. ASSUME NEW j \in At("queue") \cap Of("background") PROVE FALSE
      <4>1. Cardinality(ActiveOf("background")) < Slots["background"]
        BY <3>1, QueuedCanStart DEF IInv, Of
      <4> QED
        BY <1>4, <2>1, <3>1, <4>1 DEF BackgroundStarted, CanStart
    <3> QED
      BY <3>1
  <2>3. At("queue") = {}
    BY <2>1, <2>2, SchedulerAssumption DEF At, Of, SchedulerAssumption
  <2> QED
    BY <1>1, <2>3 DEF NothingWaits
<1>5. CASE FramesDone
  BY <1>1, <1>5 DEF FramesDone, EngineAt, IInv, NothingWaits
<1> QED
  BY <1>2, <1>3, <1>4, <1>5

LEMMA StepWaits ==
  ASSUME NothingWaits, StepBatch \/ StepBatchFails
  PROVE  NothingWaits'
<1>1. At("queue") = {}
  BY DEF StepBatch, StepBatchFails, EngineAt, NothingWaits
<1>2. At("queue")' = {}
  BY <1>1 DEF StepBatch, StepBatchFails, Drop, At, handlerVars
<1> QED
  BY <1>2 DEF NothingWaits

LEMMA StartWaits ==
  ASSUME Shape, NothingWaits, NEW j \in Job, Start(j)
  PROVE  NothingWaits'
<1>1. UNCHANGED pc /\ At("queue")' \subseteq At("queue")
  BY DEF Start, AddStream, AddStreamFails, Drop, At, Shape
<1> QED
  BY <1>1, QueueShrinks

LEMMA FrameWaits ==
  ASSUME Shape, NothingWaits, NEW j \in Job, NEW id, FrameOf(j, id)
  PROVE  NothingWaits'
<1>1. UNCHANGED pc /\ At("queue")' \subseteq At("queue")
  BY FrameMoves DEF Move, Drop, At, Shape
<1> QED
  BY <1>1, QueueShrinks
-----------------------------------------------------------------------------
LEMMA InvInit == Init => IInv
<1> SUFFICES ASSUME Init PROVE IInv
  OBVIOUS
<1>1. \A j \in Job : place[j] = "new"
  BY DEF Init
<1>2. Shape
  <2>1. NoReading \in Active
    BY BeginType DEF NoReading
  <2>2. GoodBatch(batch) /\ faults \in 0..MaxFaults
    BY EmptyBatchGood, BatchAssumption DEF Init, BatchInit, BatchAssumption
  <2>3. frames \in [DOMAIN frames -> Frame] /\ DOMAIN frames \subseteq Nat
    BY DEF Init
  <2>4. out \in [Job -> Seq(Piece)]
    BY DEF Init
  <2> QED
    BY <2>1, <2>2, <2>3, <2>4 DEF Init, Shape, Places
<1>3. \A c : Within(place, HoldingSlot, c) = {} /\ Within(place, Waiting, c) = {}
  BY <1>1 DEF Within, HoldingSlot, Waiting
<1>4. SlotCounts /\ QueueCounts
  <2>1. Cardinality({}) = 0
    BY FS_EmptySet
  <2>2. \A c \in Class : /\ Cardinality(Within(place, HoldingSlot, c)) = 0
                         /\ Cardinality(Within(place, Waiting, c)) = 0
    BY <1>3, <2>1
  <2>3. \A c \in Class : 0 <= Slots[c]
    BY SchedulerAssumption DEF SchedulerAssumption
  <2>4. /\ taken = [c \in Class |-> 0]
        /\ queued = [c \in Class |-> 0]
    BY DEF Init
  <2> QED
    BY <2>2, <2>3, <2>4 DEF SlotCounts, QueueCounts
<1>5. NothingWaits
  BY <1>1 DEF NothingWaits, At
<1> QED
  BY <1>2, <1>4, <1>5 DEF IInv

LEMMA InvStep == IInv /\ [Next]_vars => IInv'
<1> SUFFICES ASSUME IInv, [Next]_vars PROVE IInv'
  OBVIOUS
<1>0. Shape /\ SlotCounts /\ QueueCounts /\ NothingWaits
  BY DEF IInv
<1>1. CASE \E j \in Job : Submit(j) \/ Leave(j) \/ Close(j) \/ Receive(j) \/ Drain(j)
  BY <1>0, <1>1, HandlerShape, HandlerCounts, HandlerWaits DEF IInv
<1>2. CASE \E j \in Job : Start(j)
  BY <1>0, <1>2, StartShape, StartCounts, StartWaits DEF IInv
<1>3. CASE ReceiveNothing \/ Drained \/ LiveStarted \/ BackgroundStarted \/ FramesDone
  <2>1. UNCHANGED <<place, taken, queued>>
    BY <1>3 DEF ReceiveNothing, Drained, LiveStarted, BackgroundStarted, FramesDone, handlerVars
  <2>2. Shape'
    BY <1>0, <1>3, LoopShape
  <2>3. SlotCounts' /\ QueueCounts'
    BY <1>0, <2>1, StillCounts
  <2>4. NothingWaits'
    BY <1>3, LoopWaits
  <2> QED
    BY <2>2, <2>3, <2>4 DEF IInv
<1>4. CASE StepBatch
  <2>1. UNCHANGED <<place, taken, queued>>
    BY <1>4 DEF StepBatch, handlerVars
  <2> QED
    BY <1>0, <1>4, <2>1, StepShape, StillCounts, StepWaits DEF IInv
<1>5. CASE StepBatchFails
  <2>1. Drop(At("active")) /\ UNCHANGED queued /\ At("active") \in SUBSET Job
        /\ \A j \in At("active") : place[j] = "active"
    BY <1>5 DEF StepBatchFails, At
  <2>2. SlotCounts' /\ QueueCounts'
    BY <1>0, <2>1, DropCounts
  <2> QED
    BY <1>0, <1>5, <2>2, StepShape, StepWaits DEF IInv
<1>6. CASE \E id \in DOMAIN frames : SkipFrame(id)
  <2>1. PICK id \in DOMAIN frames : SkipFrame(id)
    BY <1>6
  <2>2. UNCHANGED <<place, taken, queued, pc>>
    BY <2>1 DEF SkipFrame, Handle
  <2>3. Shape'
    BY <1>0, <2>1, SkipShape
  <2>4. SlotCounts' /\ QueueCounts'
    BY <1>0, <2>2, StillCounts
  <2>5. NothingWaits'
    BY <1>0, <2>2 DEF NothingWaits, At
  <2> QED
    BY <2>3, <2>4, <2>5 DEF IInv
<1>7. CASE \E id \in DOMAIN frames : \E j \in Job : FrameOf(j, id)
  BY <1>0, <1>7, FrameShape, FrameCounts, FrameWaits DEF IInv
<1>8. CASE UNCHANGED vars
  BY <1>8 DEF vars, handlerVars, engineVars, listenerVars, batchVars, IInv, Shape, SlotCounts,
              QueueCounts, NothingWaits, At, Of, Within
<1> QED
  BY <1>1, <1>2, <1>3, <1>4, <1>5, <1>6, <1>7, <1>8 DEF Next, Engine

LEMMA InvAlways == Spec => []IInv
BY InvInit, InvStep, PTL DEF Spec

-----------------------------------------------------------------------------
\* Every variable keeps its type, the unsigned counters included: the gauges
\* and the slot counters of engine.rs never go below zero.
THEOREM TypeCorrect == Spec => []TypeOK
<1>1. IInv => TypeOK
  BY DEF IInv, Shape, SlotCounts, QueueCounts, TypeOK, GoodBatch
<1> QED
  BY <1>1, InvAlways, PTL

\* Slots are conserved however many readings, slots, sentences and failures
\* there are: each is held by one reading, and comes back when that one ends
\* or fails (Slot and its Drop in engine.rs).  The queued gauges are exact,
\* whatever the interleaving of submit with the engine thread (submit and the
\* admission loops of run in engine.rs).
THEOREM CountersAreExact == Spec => []CountersExact
<1>1. IInv => CountersExact
  <2>1. \A c : Within(place, HoldingSlot, c) = Holders(c)
    BY DEF Within, Holders, Of
  <2>2. \A c : Within(place, Waiting, c)
                 = {j \in Of(c) : place[j] \in {"counted", "channel", "queue"}}
    BY DEF Within, Waiting, Of
  <2> QED
    BY <2>1, <2>2 DEF IInv, SlotCounts, QueueCounts, CountersExact
<1> QED
  BY <1>1, InvAlways, PTL

\* No reading admitted is left waiting for another one's frames, and no live
\* one for a background one: the slots of submit bound what the admission
\* loops of run can meet.
THEOREM NoReadingWaits == Spec => []NothingWaits
<1>1. IInv => NothingWaits
  BY DEF IInv
<1> QED
  BY <1>1, InvAlways, PTL
-----------------------------------------------------------------------------
(* The streams of the readings and those of the batch. *)

LastFrames == {id \in DOMAIN frames : frames[id].done}

\* StreamsMatchReadings, and what makes it inductive: a done frame is of a
\* stream that has left the batch, an id is never used again, and no frame is
\* left over when the engine goes round.
StreamsHeld ==
    /\ \A i, j \in At("active") : reading[i].stream = reading[j].stream => i = j
    /\ \A j \in At("active") : reading[j].stream \in Ids(batch) \cup LastFrames
    /\ faults = 0 => Ids(batch) \subseteq Streams /\ Aligned(batch)
    /\ LastFrames \cap Ids(batch) = {}
    /\ \A id \in DOMAIN frames : id < batch.next
    /\ pc # "frames" => DOMAIN frames = {}

\* The readings other than j have their streams in b, or a last frame in
\* fs; as long as nothing failed, b has no stream but theirs.
OthersIn(j, b, fs) ==
    /\ GoodBatch(b) /\ b.next = batch.next /\ Ids(b) \subseteq Ids(batch)
    /\ \A i \in At("active") \ {j} :
         reading[i].stream \in Ids(b) \cup {id \in DOMAIN fs : fs[id].done}

OnlyOthersIn(j, b) ==
    /\ \A id \in Ids(b) : \E i \in At("active") \ {j} : reading[i].stream = id
    /\ Aligned(b)

\* No frame comes in.
FramesLeft ==
    /\ UNCHANGED pc
    /\ \A id \in DOMAIN frames' : id \in DOMAIN frames /\ frames'[id] = frames[id]

LEMMA StreamBelowNext ==
  ASSUME Shape, StreamsHeld
  PROVE  /\ \A id \in Ids(batch) : id < batch.next
         /\ \A j \in At("active") : reading[j].stream # batch.next
         /\ batch.next \in Nat
<1>1. batch.next \in Nat /\ Ids(batch) \subseteq 0..(batch.next - 1)
  BY DEF Shape, GoodBatch, IsBatch
<1>2. \A id \in Ids(batch) : id < batch.next
  BY <1>1
<1>3. \A id \in LastFrames : id < batch.next /\ id \in Nat
  BY DEF StreamsHeld, LastFrames, Shape
<1>4. \A j \in At("active") : reading[j].stream # batch.next
  BY <1>1, <1>2, <1>3 DEF StreamsHeld
<1> QED
  BY <1>1, <1>2, <1>4

LEMMA AddStreamStreams ==
  ASSUME Shape, StreamsHeld, NEW j \in Job, NEW b, NEW segment, NEW attempt,
         AddStream(j, b, segment, attempt), FramesLeft,
         OthersIn(j, b, frames'), faults = 0 => OnlyOthersIn(j, b)
  PROVE  StreamsHeld'
<1>1. /\ place' = [place EXCEPT ![j] = "active"] /\ UNCHANGED faults
      /\ reading' = [reading EXCEPT ![j] = Begin(b.next, segment, attempt)]
      /\ batch' = Added(b)
  BY DEF AddStream
<1>2. /\ At("active")' = At("active") \cup {j}
      /\ reading'[j].stream = batch.next
      /\ \A i \in Job \ {j} : reading'[i] = reading[i]
  BY <1>1 DEF At, Shape, Begin, OthersIn
<1>3. /\ Ids(batch') = Ids(b) \cup {batch.next} /\ batch'.next = batch.next + 1
      /\ Aligned(b) => Aligned(batch')
  BY <1>1, AddedGood DEF OthersIn, Added
<1>4. /\ \A id \in Ids(batch) : id < batch.next
      /\ \A i \in At("active") : reading[i].stream # batch.next
      /\ batch.next \in Nat
  BY StreamBelowNext
<1>5. At("active") \subseteq Job
  BY DEF At
<1>6. LastFrames' \subseteq LastFrames /\ LastFrames' = {id \in DOMAIN frames' : frames'[id].done}
  BY DEF LastFrames, FramesLeft
<1>7. \A i, k \in At("active")' : reading'[i].stream = reading'[k].stream => i = k
  BY <1>2, <1>4, <1>5 DEF StreamsHeld
<1>8. \A i \in At("active")' : reading'[i].stream \in Ids(batch') \cup LastFrames'
  BY <1>2, <1>3, <1>5, <1>6 DEF OthersIn
<1>9. faults' = 0 => Ids(batch') \subseteq Streams' /\ Aligned(batch')
  <2> SUFFICES ASSUME faults' = 0 PROVE Ids(batch') \subseteq Streams' /\ Aligned(batch')
    OBVIOUS
  <2>1. OnlyOthersIn(j, b)
    BY <1>1
  <2>2. ASSUME NEW id \in Ids(b) PROVE \E i \in At("active")' : reading'[i].stream = id
    BY <1>2, <1>5, <2>1 DEF OnlyOthersIn
  <2>3. j \in At("active")' /\ reading'[j].stream = batch.next
    BY <1>2
  <2> QED
    BY <1>3, <2>1, <2>2, <2>3 DEF OnlyOthersIn, Streams
<1>10. LastFrames' \cap Ids(batch') = {}
  BY <1>3, <1>4, <1>6 DEF OthersIn, StreamsHeld, LastFrames
<1>11. \A id \in DOMAIN frames' : id < batch'.next
  BY <1>3, <1>4 DEF FramesLeft, StreamsHeld, Shape
<1>12. pc' # "frames" => DOMAIN frames' = {}
  BY DEF FramesLeft, StreamsHeld
<1> QED
  BY <1>7, <1>8, <1>9, <1>10, <1>11, <1>12 DEF StreamsHeld

\* The batch may keep a stream nobody reads only after a failure.
LEMMA DropStreams ==
  ASSUME Shape, StreamsHeld, NEW j \in Job, Drop({j}), FramesLeft,
         OthersIn(j, batch', frames'), faults' = 0 => OnlyOthersIn(j, batch')
  PROVE  StreamsHeld'
<1>1. /\ At("active")' = At("active") \ {j}
      /\ \A i \in Job \ {j} : reading'[i] = reading[i]
      /\ At("active") \subseteq Job
  BY DEF Drop, At
<1>2. LastFrames' \subseteq LastFrames /\ LastFrames' = {id \in DOMAIN frames' : frames'[id].done}
  BY DEF LastFrames, FramesLeft
<1>3. \A i, k \in At("active")' : reading'[i].stream = reading'[k].stream => i = k
  BY <1>1 DEF StreamsHeld
<1>4. \A i \in At("active")' : reading'[i].stream \in Ids(batch') \cup LastFrames'
  BY <1>1, <1>2 DEF OthersIn
<1>5. faults' = 0 => Ids(batch') \subseteq Streams' /\ Aligned(batch')
  <2> SUFFICES ASSUME faults' = 0 PROVE Ids(batch') \subseteq Streams' /\ Aligned(batch')
    OBVIOUS
  <2>1. OnlyOthersIn(j, batch')
    OBVIOUS
  <2>2. ASSUME NEW id \in Ids(batch') PROVE \E i \in At("active")' : reading'[i].stream = id
    BY <1>1, <2>1 DEF OnlyOthersIn
  <2> QED
    BY <2>1, <2>2 DEF OnlyOthersIn, Streams
<1>6. LastFrames' \cap Ids(batch') = {}
  BY <1>2 DEF OthersIn, StreamsHeld
<1>7. \A id \in DOMAIN frames' : id < batch'.next
  BY DEF FramesLeft, StreamsHeld, OthersIn
<1>8. pc' # "frames" => DOMAIN frames' = {}
  BY DEF FramesLeft, StreamsHeld
<1> QED
  BY <1>3, <1>4, <1>5, <1>6, <1>7, <1>8 DEF StreamsHeld

LEMMA AddStreamFailsStreams ==
  ASSUME Shape, StreamsHeld, NEW j \in Job, NEW b, AddStreamFails(j, b), FramesLeft,
         OthersIn(j, b, frames')
  PROVE  StreamsHeld'
<1>1. PICK n \in FailingLayers : batch' = PartiallyAdded(b, n)
  BY DEF AddStreamFails
<1>2. n \in Nat
  BY FailingLayersNat
<1>3. GoodBatch(batch') /\ Ids(batch') = Ids(b) /\ batch'.next = b.next
  BY <1>1, <1>2, PartiallyAddedGood DEF OthersIn
<1>4. OthersIn(j, batch', frames')
  BY <1>3 DEF OthersIn
<1>5. faults' # 0
  BY BatchAssumption DEF AddStreamFails, Shape, BatchAssumption
<1>6. Drop({j})
  BY DEF AddStreamFails
<1> QED
  BY <1>4, <1>5, <1>6, DropStreams

\* What is left when the frame of reading j's stream is handled and the
\* stream taken out of the batch.
LEMMA HandleStreams ==
  ASSUME Shape, StreamsHeld, NEW j \in Job, NEW id, Handle(id), Reads(j, id)
  PROVE  /\ FramesLeft /\ DOMAIN frames' = DOMAIN frames \ {id}
         /\ frames[id].done => WithoutStream(id, frames[id]) = batch
         /\ OthersIn(j, WithoutStream(id, frames[id]), frames')
         /\ OthersIn(j, batch, frames')
         /\ faults = 0 => OnlyOthersIn(j, WithoutStream(id, frames[id]))
         /\ frames[id].done \/ id \in Ids(batch)
<1> DEFINE f == frames[id]
           b == WithoutStream(id, f)
<1>1. id \in DOMAIN frames /\ DOMAIN frames' = DOMAIN frames \ {id} /\ FramesLeft
  BY DEF Handle, NextFrame, Restrict, FramesLeft
<1>2. f.done => b = batch /\ id \notin Ids(batch)
  BY <1>1 DEF WithoutStream, StreamsHeld, LastFrames
<1>3. /\ Ids(b) = Ids(batch) \ {id} /\ GoodBatch(b) /\ b.next = batch.next
      /\ Aligned(batch) => Aligned(b)
  <2>1. GoodBatch(batch)
    BY DEF Shape
  <2>2. CASE f.done
    BY <1>2, <2>1, <2>2
  <2>3. CASE ~f.done
    BY <2>1, <2>3, RemovedGood DEF WithoutStream
  <2> QED
    BY <2>2, <2>3
<1>4. j \in At("active") /\ reading[j].stream = id
  BY DEF Reads, At
<1>5. ASSUME NEW i \in At("active") \ {j}
      PROVE  reading[i].stream \in Ids(b) \cup {k \in DOMAIN frames' : frames'[k].done}
  <2>1. reading[i].stream # id /\ reading[i].stream \in Ids(batch) \cup LastFrames
    BY <1>4 DEF StreamsHeld
  <2> HIDE DEF b
  <2> QED
    BY <1>1, <1>3, <2>1 DEF LastFrames, FramesLeft
<1>6. f.done \/ id \in Ids(batch)
  BY <1>4 DEF StreamsHeld, LastFrames
<1>7. ASSUME faults = 0 PROVE OnlyOthersIn(j, b)
  <2>1. Aligned(batch) /\ Ids(batch) \subseteq Streams
    BY <1>7 DEF StreamsHeld
  <2>2. ASSUME NEW k \in Ids(b) PROVE \E i \in At("active") \ {j} : reading[i].stream = k
    <3>1. k # id /\ k \in Streams
      BY <1>3, <2>1
    <3> QED
      BY <1>4, <3>1 DEF Streams
  <2> QED
    BY <1>3, <2>1, <2>2 DEF OnlyOthersIn
<1>8. OthersIn(j, b, frames')
  BY <1>3, <1>5 DEF OthersIn
<1>9. OthersIn(j, batch, frames')
  BY <1>3, <1>5 DEF OthersIn, Shape
<1> QED
  BY <1>1, <1>2, <1>6, <1>7, <1>8, <1>9

LEMMA StartStreams ==
  ASSUME Shape, StreamsHeld, NEW j \in Job, Start(j)
  PROVE  StreamsHeld'
<1>1. place[j] = "queue" /\ UNCHANGED <<pc, frames>>
  BY DEF Start
<1>2. FramesLeft /\ j \notin At("active")
  BY <1>1 DEF FramesLeft, At
<1>3. OthersIn(j, batch, frames')
  BY <1>1 DEF OthersIn, StreamsHeld, LastFrames, Shape
<1>4. faults = 0 => OnlyOthersIn(j, batch)
  BY <1>2 DEF OnlyOthersIn, StreamsHeld, Streams
<1>5. AddStream(j, batch, 1, 1) \/ AddStreamFails(j, batch)
  BY DEF Start
<1> QED
  BY <1>2, <1>3, <1>4, <1>5, AddStreamStreams, AddStreamFailsStreams

LEMMA FrameStreams ==
  ASSUME Shape, StreamsHeld, NEW j \in Job, NEW id, FrameOf(j, id)
  PROVE  StreamsHeld'
<1> DEFINE f == frames[id]
           a == Hear(reading[j], f)
<1>1. Handle(id) /\ Reads(j, id)
  BY DEF FrameOf, BadFrame, ReadAgain, HoldFrame, ListenerLeft, SendFrames, EndSegment
<1>2. /\ FramesLeft /\ DOMAIN frames' = DOMAIN frames \ {id}
      /\ f.done => WithoutStream(id, f) = batch
      /\ OthersIn(j, WithoutStream(id, f), frames')
      /\ OthersIn(j, batch, frames')
      /\ faults = 0 => OnlyOthersIn(j, WithoutStream(id, f))
      /\ f.done \/ id \in Ids(batch)
  BY <1>1, HandleStreams
<1>3. faults \in Nat
  BY BatchAssumption DEF Shape, BatchAssumption
<1>4. CASE BadFrame(j, id)
  <2>1. Drop({j}) /\ UNCHANGED batch /\ faults' # 0
    BY <1>3, <1>4 DEF BadFrame
  <2> QED
    BY <1>2, <2>1, DropStreams
<1>5. CASE ReadAgain(j, id)
  <2>1. \/ AddStream(j, WithoutStream(id, f), a.segment, a.attempt + 1)
        \/ AddStreamFails(j, WithoutStream(id, f))
    BY <1>5 DEF ReadAgain
  <2> HIDE DEF f, a
  <2> QED
    BY <1>2, <2>1, AddStreamStreams, AddStreamFailsStreams
<1>6. CASE ListenerLeft(j, id)
  <2>1. Drop({j}) /\ batch' = WithoutStream(id, f) /\ UNCHANGED faults
    BY <1>6 DEF ListenerLeft
  <2> QED
    BY <1>2, <2>1, DropStreams
<1>7. CASE EndSegment(j, id)
  <2>1. f.done /\ WithoutStream(id, f) = batch
    BY <1>2, <1>7 DEF EndSegment
  <2>2. \/ AddStream(j, batch, a.segment + 1, 1)
        \/ AddStreamFails(j, batch)
        \/ Drop({j}) /\ UNCHANGED batchVars
    BY <1>7 DEF EndSegment
  <2> HIDE DEF f, a
  <2>3. CASE AddStream(j, batch, a.segment + 1, 1) \/ AddStreamFails(j, batch)
    BY <1>2, <2>1, <2>3, AddStreamStreams, AddStreamFailsStreams
  <2>4. CASE Drop({j}) /\ UNCHANGED batchVars
    <3>1. UNCHANGED batch /\ UNCHANGED faults
      BY <2>4 DEF batchVars
    <3> QED
      BY <1>2, <2>1, <2>4, <3>1, DropStreams
  <2> QED
    BY <2>2, <2>3, <2>4
<1>8. CASE HoldFrame(j, id) \/ SendFrames(j, id)
  <2>1. /\ ~f.done /\ UNCHANGED <<place, batchVars>>
        /\ \E s : reading' = [reading EXCEPT ![j] = [a EXCEPT !.pending = s]]
    BY <1>8 DEF HoldFrame, SendFrames, Speaks
  <2>2. /\ a.stream = reading[j].stream
        /\ \A s : [a EXCEPT !.pending = s].stream = a.stream
    BY DEF Shape, Active, Hear
  <2>3. \A i \in Job : reading'[i].stream = reading[i].stream
    <3> HIDE DEF a
    <3> QED
      BY <2>1, <2>2 DEF Shape
  <2>4. UNCHANGED <<batch, faults>> /\ At("active")' = At("active") /\ Streams' = Streams
    BY <2>1, <2>3 DEF batchVars, At, Streams
  <2>5. LastFrames' = LastFrames
    BY <1>2, <2>1 DEF LastFrames, FramesLeft
  <2>6. \A k \in DOMAIN frames' : k < batch'.next
    BY <1>2, <2>4 DEF FramesLeft, StreamsHeld
  <2>7. At("active") \subseteq Job
    BY DEF At
  <2>8. UNCHANGED pc
    BY <1>2 DEF FramesLeft
  <2> QED
    BY <1>2, <2>3, <2>4, <2>5, <2>6, <2>7, <2>8 DEF StreamsHeld
<1> QED
  BY <1>4, <1>5, <1>6, <1>7, <1>8 DEF FrameOf

LEMMA SkipStreams ==
  ASSUME Shape, StreamsHeld, NEW id, SkipFrame(id)
  PROVE  StreamsHeld'
<1>1. /\ id \in DOMAIN frames /\ FramesLeft /\ DOMAIN frames' = DOMAIN frames \ {id}
      /\ UNCHANGED <<place, reading, batch, faults, pc>>
  BY DEF SkipFrame, Handle, NextFrame, Restrict, FramesLeft, batchVars
<1>2. \A j \in At("active") : reading[j].stream # id
  BY DEF SkipFrame, Reads, At
<1>3. UNCHANGED At("active") /\ UNCHANGED Streams
  BY <1>1 DEF At, Streams
<1>4. LastFrames' = LastFrames \ {id}
  BY <1>1 DEF LastFrames, FramesLeft
<1> QED
  BY <1>1, <1>2, <1>3, <1>4 DEF StreamsHeld

LEMMA StepStreams ==
  ASSUME Shape, StreamsHeld, StepBatch \/ StepBatchFails
  PROVE  StreamsHeld'
<1>1. pc = "step" /\ DOMAIN frames = {} /\ LastFrames = {}
  BY DEF StepBatch, StepBatchFails, EngineAt, StreamsHeld, LastFrames
<1>2. GoodBatch(batch) /\ \A id \in Ids(batch) : id < batch.next
  BY StreamBelowNext DEF Shape
<1>3. CASE StepBatch
  <2>1. PICK eos \in SUBSET Ids(batch), loud \in SUBSET Ids(batch) :
          /\ batch' = Stepped(batch, eos)
          /\ frames' = [id \in Ids(batch) |->
                          [loud |-> id \in loud, done |-> id \in DoneIds(batch, eos)]]
    BY <1>3 DEF StepBatch
  <2>2. UNCHANGED <<place, reading, faults>> /\ pc' = "frames"
    BY <1>3 DEF StepBatch, handlerVars
  <2>3. /\ Ids(batch') = Ids(batch) \ DoneIds(batch, eos) /\ batch'.next = batch.next
        /\ DoneIds(batch, eos) \subseteq Ids(batch)
        /\ Aligned(batch')
    BY <1>2, <1>3, <2>1, SteppedGood DEF StepBatch
  <2>4. DOMAIN frames' = Ids(batch) /\ LastFrames' = DoneIds(batch, eos)
    BY <2>1, <2>3 DEF LastFrames
  <2>5. UNCHANGED At("active") /\ UNCHANGED Streams
    BY <2>2 DEF At, Streams
  <2> QED
    BY <1>1, <1>2, <2>2, <2>3, <2>4, <2>5 DEF StreamsHeld
<1>4. CASE StepBatchFails
  <2>1. Drop(At("active")) /\ UNCHANGED frames /\ pc' = "receive"
    BY <1>4 DEF StepBatchFails
  <2>2. At("active")' = {}
    BY <2>1 DEF Drop, At
  <2>3. faults' # 0
    <3>1. faults \in Nat
      BY BatchAssumption DEF Shape, BatchAssumption
    <3>2. CASE faults' = faults + 1
      BY <3>1, <3>2
    <3>3. CASE ~Aligned(batch) /\ UNCHANGED batchVars
      BY <3>3 DEF StreamsHeld, batchVars
    <3> QED
      BY <1>4, <3>2, <3>3 DEF StepBatchFails
  <2> QED
    BY <1>1, <2>1, <2>2, <2>3 DEF StreamsHeld, LastFrames
<1> QED
  BY <1>3, <1>4

LEMMA StillStreams ==
  ASSUME StreamsHeld, UNCHANGED <<reading, frames, batch, faults>>, UNCHANGED At("active"),
         pc' # "frames" => pc # "frames" \/ DOMAIN frames = {}
  PROVE  StreamsHeld'
<1>1. UNCHANGED Streams /\ UNCHANGED LastFrames
  BY DEF Streams, LastFrames
<1> QED
  BY <1>1 DEF StreamsHeld

LEMMA StreamsStep ==
  ASSUME Shape, StreamsHeld, [Next]_vars
  PROVE  StreamsHeld'
<1>1. ASSUME NEW j \in Job, Submit(j) \/ Leave(j) \/ Close(j) \/ Receive(j) \/ Drain(j)
      PROVE  StreamsHeld'
  <2>1. CASE Receive(j)
    <3>1. UNCHANGED <<reading, frames, batch, faults>> /\ UNCHANGED At("active") /\ pc # "frames"
      BY <2>1 DEF Receive, EngineAt, At, Shape, batchVars
    <3> QED
      BY <3>1, StillStreams
  <2>2. CASE Submit(j) \/ Leave(j) \/ Close(j) \/ Drain(j)
    <3>1. UNCHANGED <<reading, frames, batch, faults>> /\ UNCHANGED At("active") /\ UNCHANGED pc
      BY <2>2 DEF Submit, Grant, Refuse, CountQueued, SendJob, Leave, Close, Drain, EngineAt,
                  At, Shape, batchVars, engineVars, handlerVars
    <3> QED
      BY <3>1, StillStreams
  <2> QED
    BY <1>1, <2>1, <2>2
<1>2. CASE \E j \in Job : Start(j)
  BY <1>2, StartStreams
<1>3. CASE ReceiveNothing \/ Drained \/ LiveStarted \/ BackgroundStarted \/ FramesDone
  <2>1. /\ UNCHANGED <<reading, frames, batch, faults>> /\ UNCHANGED At("active")
        /\ pc # "frames" \/ DOMAIN frames = {}
    BY <1>3 DEF ReceiveNothing, Drained, LiveStarted, BackgroundStarted, FramesDone, EngineAt,
                At, handlerVars, batchVars
  <2> QED
    BY <2>1, StillStreams
<1>4. CASE StepBatch \/ StepBatchFails
  BY <1>4, StepStreams
<1>5. CASE \E id \in DOMAIN frames : SkipFrame(id)
  BY <1>5, SkipStreams
<1>6. CASE \E id \in DOMAIN frames : \E j \in Job : FrameOf(j, id)
  BY <1>6, FrameStreams
<1>7. CASE UNCHANGED vars
  <2>1. UNCHANGED <<reading, frames, batch, faults, pc>> /\ UNCHANGED At("active")
    BY <1>7 DEF vars, engineVars, handlerVars, batchVars, At
  <2> QED
    BY <2>1, StillStreams
<1> QED
  BY <1>1, <1>2, <1>3, <1>4, <1>5, <1>6, <1>7 DEF Next, Engine

LEMMA StreamsInit == Init => StreamsHeld
<1> SUFFICES ASSUME Init PROVE StreamsHeld
  OBVIOUS
<1>1. At("active") = {} /\ DOMAIN frames = {} /\ LastFrames = {}
  BY DEF Init, At, LastFrames
<1>2. Ids(batch) = {} /\ Aligned(batch)
  BY EmptyBatchGood DEF Init, BatchInit
<1> QED
  BY <1>1, <1>2 DEF StreamsHeld

LEMMA StreamsAlways == Spec => []StreamsHeld
<1>1. StreamsHeld /\ IInv /\ [Next]_vars => StreamsHeld'
  BY StreamsStep DEF IInv
<1> QED
  BY <1>1, StreamsInit, InvAlways, PTL DEF Spec

\* Whatever fails and whoever leaves, no two readings of the active map share a
\* stream and none waits for frames that cannot come; and until something
\* fails the batch advances no stream that is nobody's (start and the
\* frame loop of run in engine.rs).
THEOREM StreamsAreTheReadings == Spec => []StreamsMatchReadings
<1>1. StreamsHeld => StreamsMatchReadings
  BY DEF StreamsHeld, StreamsMatchReadings, Streams, LastFrames
<1> QED
  BY <1>1, StreamsAlways, PTL
-----------------------------------------------------------------------------
(* What is sent to a listener. *)

End(s) == s[Len(s)]

\* ReadInOrder of one frame channel.
InOrder(s) ==
    /\ s # <<>> => s[1].segment = 1 /\ s[1].frame = 1
    /\ \A i \in 2..Len(s) : Follows(s[i - 1], s[i])

\* The frames of a's attempt after the first `from' of them.
FramesAfter(a, from) ==
    [i \in 1..(a.seen - from) |->
       [segment |-> a.segment, attempt |-> a.attempt, frame |-> from + i]]

\* The segment is to begin: nothing of it was sent.
Between(s, segment) ==
    IF s = <<>> THEN segment = 1
    ELSE End(s).frame = SegmentEnd /\ End(s).segment = segment - 1

\* The attempt has been sent as far as it was heard, and there can be no
\* other attempt.
Midway(s, a) ==
    /\ s # <<>> /\ a.seen > 0
    /\ End(s) = [segment |-> a.segment, attempt |-> a.attempt, frame |-> a.seen]
    /\ a.loud \/ (a.seen >= FalseStartFrames /\ a.attempt >= MaxAttempts)

\* A reading has sent all the frames of its attempt or holds all of them.
Told(s, a) ==
    \/ Between(s, a.segment) /\ a.pending = FramesAfter(a, 0)
    \/ Midway(s, a) /\ a.pending = <<>>

Whole(s, n) == s # <<>> /\ End(s).segment = n /\ End(s).frame = SegmentEnd

NotStarted == {"new", "granted", "counted", "channel", "queue", "refused"}

DeliveredTo(j) ==
    /\ InOrder(out[j])
    /\ place[j] \in NotStarted => out[j] = <<>>
    /\ place[j] = "active" =>
         Told(out[j], reading[j]) /\ reading[j].segment \in 1..Segments[j]
    /\ place[j] \in {"dropped", "closed"} /\ j \notin left /\ j \notin hurt =>
         Whole(out[j], Segments[j])

Delivered == \A j \in Job : DeliveredTo(j)

-----------------------------------------------------------------------------
LEMMA InOrderConcat ==
  ASSUME NEW s \in Seq(Piece), NEW t \in Seq(Piece), InOrder(s), t # <<>>,
         IF s = <<>> THEN t[1].segment = 1 /\ t[1].frame = 1 ELSE Follows(End(s), t[1]),
         \A i \in 2..Len(t) : Follows(t[i - 1], t[i])
  PROVE  InOrder(s \o t) /\ s \o t \in Seq(Piece) /\ s \o t # <<>> /\ End(s \o t) = End(t)
<1> DEFINE u == s \o t
<1> DEFINE n == Len(s)
           m == Len(t)
<1>1. /\ u \in Seq(Piece) /\ Len(u) = n + m
      /\ \A i \in 1..(n + m) : u[i] = IF i <= n THEN s[i] ELSE t[i - n]
  BY ConcatProperties
<1>2. n \in Nat /\ m \in Nat /\ m > 0 /\ (s = <<>> \/ n > 0)
  BY EmptySeq, LenProperties
<1>3. s = <<>> => n = 0
  BY EmptySeq
<1>4. /\ InOrder(s) => \A i \in 2..n : Follows(s[i - 1], s[i])
      /\ InOrder(s) /\ s # <<>> => s[1].segment = 1 /\ s[1].frame = 1
      /\ End(s) = s[n] /\ End(t) = t[m] /\ End(u) = u[Len(u)]
  BY DEF InOrder, End
<1>5. u # <<>>
  BY <1>1, <1>2, EmptySeq
<1> HIDE DEF u, n, m
<1>6. End(u) = End(t)
  <2>1. n + m \in 1..(n + m) /\ ~(n + m <= n) /\ (n + m) - n = m
    BY <1>2
  <2> QED
    BY <1>1, <1>4, <2>1
<1>7. u[1].segment = 1 /\ u[1].frame = 1
  <2>0. 1 \in 1..(n + m)
    BY <1>2
  <2>1. CASE s = <<>>
    <3>1. ~(1 <= n) /\ 1 - n = 1
      BY <1>3, <2>1
    <3> QED
      BY <1>1, <2>0, <2>1, <3>1
  <2>2. CASE s # <<>>
    <3>1. 1 <= n
      BY <1>2, <2>2
    <3> QED
      BY <1>1, <1>4, <2>0, <2>2, <3>1
  <2> QED
    BY <2>1, <2>2
<1>8. ASSUME NEW i \in 2..(n + m) PROVE Follows(u[i - 1], u[i])
  <2>0. i \in 1..(n + m) /\ i - 1 \in 1..(n + m)
    BY <1>2
  <2>1. CASE i <= n
    <3>1. i \in 2..n /\ i - 1 <= n
      BY <1>2, <2>1
    <3>2. u[i] = s[i] /\ u[i - 1] = s[i - 1]
      BY <1>1, <2>0, <2>1, <3>1
    <3> QED
      BY <1>4, <3>1, <3>2
  <2>2. CASE i = n + 1
    <3>1. ~(i <= n) /\ i - n = 1 /\ i - 1 = n /\ n # 0
      BY <1>2, <2>2
    <3>2. u[i] = t[1] /\ u[i - 1] = End(s)
      BY <1>1, <1>4, <2>0, <3>1
    <3> QED
      BY <1>3, <3>1, <3>2
  <2>3. CASE i > n + 1
    <3>1. ~(i <= n) /\ ~(i - 1 <= n) /\ i - n \in 2..m /\ (i - 1) - n = (i - n) - 1
      BY <1>2, <2>3
    <3>2. u[i] = t[i - n] /\ u[i - 1] = t[(i - n) - 1]
      BY <1>1, <2>0, <3>1
    <3> QED
      BY <3>1, <3>2 DEF m
  <2>4. i <= n \/ i = n + 1 \/ i > n + 1
    BY <1>2
  <2> QED
    BY <2>1, <2>2, <2>3, <2>4
<1>9. InOrder(u)
  BY <1>1, <1>7, <1>8 DEF InOrder
<1> QED
  BY <1>1, <1>5, <1>6, <1>9 DEF u

\* The frames of an attempt that go out together follow each other.
LEMMA FramesAfterFollow ==
  ASSUME NEW a \in Active, NEW from \in Nat, from < a.seen
  PROVE  LET t == FramesAfter(a, from) IN
           /\ t \in Seq(Piece) /\ t # <<>> /\ Len(t) = a.seen - from
           /\ t[1] = [segment |-> a.segment, attempt |-> a.attempt, frame |-> from + 1]
           /\ End(t) = [segment |-> a.segment, attempt |-> a.attempt, frame |-> a.seen]
           /\ \A i \in 2..Len(t) : Follows(t[i - 1], t[i])
<1> DEFINE n == a.seen - from
           t == FramesAfter(a, from)
<1>1. a.seen \in Nat /\ a.segment \in Nat /\ a.attempt \in Nat /\ n \in Nat /\ n > 0
  BY DEF Active
<1>2. t = [i \in 1..n |-> [segment |-> a.segment, attempt |-> a.attempt, frame |-> from + i]]
  BY DEF FramesAfter
<1>3. \A i \in 1..n : from + i \in Nat
  BY <1>1
<1>4. \A i \in 1..n : t[i] = [segment |-> a.segment, attempt |-> a.attempt, frame |-> from + i]
  BY <1>2
<1>5. \A i \in 1..n : t[i] \in Piece
  <2> HIDE DEF t, n
  <2>1. ASSUME NEW i \in 1..n PROVE t[i] \in Piece
    <3>1. from + i \in Nat
      BY <1>3
    <3>2. [segment |-> a.segment, attempt |-> a.attempt, frame |-> from + i] \in Piece
      BY <1>1, <3>1 DEF Piece
    <3> QED
      BY <1>4, <3>2
  <2> QED
    BY <2>1
<1>6. t \in Seq(Piece) /\ Len(t) = n
  <2>1. t \in [1..n -> Piece]
    BY <1>2, <1>5
  <2> HIDE DEF t, n
  <2>2. t \in Seq(Piece)
    BY <1>1, <2>1, SeqDef
  <2>3. DOMAIN t = 1..n /\ DOMAIN t = 1..Len(t) /\ Len(t) \in Nat
    BY <2>1, <2>2, LenProperties
  <2> QED
    BY <1>1, <2>2, <2>3
<1>7. t # <<>> /\ t[1] = [segment |-> a.segment, attempt |-> a.attempt, frame |-> from + 1]
  BY <1>1, <1>4, <1>6
<1>8. End(t) = [segment |-> a.segment, attempt |-> a.attempt, frame |-> a.seen]
  <2>1. n \in 1..n /\ from + n = a.seen
    BY <1>1
  <2> QED
    BY <1>4, <1>6, <2>1 DEF End
<1>9. ASSUME NEW i \in 2..n PROVE Follows(t[i - 1], t[i])
  <2>1. /\ t[i - 1] = [segment |-> a.segment, attempt |-> a.attempt, frame |-> from + (i - 1)]
        /\ t[i] = [segment |-> a.segment, attempt |-> a.attempt, frame |-> from + i]
    <3>1. i \in 1..n /\ i - 1 \in 1..n
      BY <1>1
    <3> HIDE DEF t
    <3> QED
      BY <1>4, <3>1
  <2> HIDE DEF t
  <2> QED
    BY <1>1, <2>1 DEF Follows, SegmentEnd
<1> QED
  BY <1>6, <1>7, <1>8, <1>9

\* Pushing the frame just heard.
LEMMA PushFrames ==
  ASSUME NEW a \in Active, NEW from \in Nat, from <= a.seen, NEW c \in Active,
         a.pending = FramesAfter(a, from),
         c.segment = a.segment, c.attempt = a.attempt, c.seen = a.seen + 1, c.pending = a.pending
  PROVE  Push(c) = FramesAfter(c, from)
<1> DEFINE n == a.seen - from
           piece(i) == [segment |-> a.segment, attempt |-> a.attempt, frame |-> from + i]
<1>1. a.seen \in Nat /\ n \in Nat /\ c.seen - from = n + 1 /\ c.seen = from + (n + 1)
  BY DEF Active
<1>2. c.pending = [i \in 1..n |-> piece(i)] /\ c.pending \in Seq(Piece)
  BY DEF FramesAfter, Active
<1>3. FramesAfter(c, from) = [i \in 1..(n + 1) |-> piece(i)]
  BY <1>1 DEF FramesAfter
<1>4. Push(c) = Append(c.pending, piece(n + 1))
  BY <1>1 DEF Push
<1> HIDE DEF n, piece
<1>5. Len(c.pending) = n
  <2>1. DOMAIN c.pending = 1..n /\ DOMAIN c.pending = 1..Len(c.pending) /\ Len(c.pending) \in Nat
    BY <1>2, LenProperties
  <2> QED
    BY <1>1, <2>1
<1>6. piece(n + 1) \in Piece
  BY <1>1 DEF piece, n, Active, Piece
<1> DEFINE q == Append(c.pending, piece(n + 1))
<1>7. /\ q \in Seq(Piece) /\ Len(q) = n + 1
      /\ \A i \in 1..n : q[i] = c.pending[i]
      /\ q[n + 1] = piece(n + 1)
  <2> HIDE DEF q
  <2>1. /\ q \in Seq(Piece) /\ Len(q) = Len(c.pending) + 1
        /\ \A i \in 1..Len(c.pending) : q[i] = c.pending[i]
        /\ q[Len(c.pending) + 1] = piece(n + 1)
    <3>1. ASSUME NEW e \in Piece
          PROVE  /\ Append(c.pending, e) \in Seq(Piece)
                 /\ Len(Append(c.pending, e)) = Len(c.pending) + 1
                 /\ \A i \in 1..Len(c.pending) : Append(c.pending, e)[i] = c.pending[i]
                 /\ Append(c.pending, e)[Len(c.pending) + 1] = e
      <4>1. c.pending \in Seq(Piece)
        BY <1>2
      <4> QED
        BY <4>1, AppendProperties
    <3> QED
      BY <1>6, <3>1 DEF q
  <2> QED
    BY <1>5, <2>1
<1>8. q = [i \in 1..(n + 1) |-> q[i]]
  <2> HIDE DEF q
  <2>1. q \in [1..Len(q) -> Piece]
    BY <1>7, LenProperties
  <2> QED
    BY <1>7, <2>1
<1> HIDE DEF q
<1>9. \A i \in 1..(n + 1) : q[i] = piece(i)
  <2>1. \A i \in 1..n : q[i] = piece(i)
    BY <1>2, <1>7
  <2>2. \A i \in 1..(n + 1) : i \in 1..n \/ i = n + 1
    BY <1>1
  <2> QED
    BY <1>7, <2>1, <2>2
<1>10. q = FramesAfter(c, from)
  BY <1>3, <1>8, <1>9
<1> QED
  BY <1>4, <1>10 DEF q

LEMMA HearFields ==
  ASSUME NEW a \in Active, NEW f \in Frame
  PROVE  LET c == Hear(a, f) IN
           /\ c \in Active /\ c.seen = a.seen + 1 /\ (c.loud <=> a.loud \/ f.loud)
           /\ c.segment = a.segment /\ c.attempt = a.attempt /\ c.pending = a.pending
           /\ c.stream = a.stream
<1> DEFINE l == a.loud \/ f.loud
           c == [a EXCEPT !.seen = a.seen + 1, !.loud = l]
<1>1. Hear(a, f) = c
  BY DEF Hear
<1>2. l \in BOOLEAN /\ (l <=> a.loud \/ f.loud)
  OBVIOUS
<1> HIDE DEF l
<1>3. /\ c.seen = a.seen + 1 /\ c.loud = l
      /\ c.segment = a.segment /\ c.attempt = a.attempt /\ c.pending = a.pending
      /\ c.stream = a.stream
  BY DEF Active
<1> QED
  BY <1>1, <1>2, <1>3, HearType
-----------------------------------------------------------------------------
\* What a reading pushes follows what its listener was sent.
LEMMA PushTold ==
  ASSUME NEW s \in Seq(Piece), InOrder(s), NEW a \in Active, Told(s, a),
         NEW f \in Frame, NEW c, c = Hear(a, f)
  PROVE  /\ s \o Push(c) \in Seq(Piece) /\ s \o Push(c) # <<>> /\ InOrder(s \o Push(c))
         /\ End(s \o Push(c)) = [segment |-> c.segment, attempt |-> c.attempt, frame |-> c.seen]
         /\ c.seen > 0
<1>1. /\ c \in Active /\ c.seen = a.seen + 1
      /\ c.segment = a.segment /\ c.attempt = a.attempt /\ c.pending = a.pending
  BY HearFields
<1>2. a.seen \in Nat /\ c.seen \in Nat /\ c.seen > 0 /\ a.segment \in Nat
  BY <1>1 DEF Active
<1>3. CASE Between(s, a.segment) /\ a.pending = FramesAfter(a, 0)
  <2>1. Push(c) = FramesAfter(c, 0)
    BY <1>1, <1>2, <1>3, PushFrames
  <2> DEFINE t == FramesAfter(c, 0)
  <2>2. /\ t \in Seq(Piece) /\ t # <<>>
        /\ t[1] = [segment |-> c.segment, attempt |-> c.attempt, frame |-> 0 + 1]
        /\ End(t) = [segment |-> c.segment, attempt |-> c.attempt, frame |-> c.seen]
        /\ \A i \in 2..Len(t) : Follows(t[i - 1], t[i])
    BY <1>1, <1>2, FramesAfterFollow
  <2> HIDE DEF t
  <2>3. IF s = <<>> THEN t[1].segment = 1 /\ t[1].frame = 1 ELSE Follows(End(s), t[1])
    BY <1>1, <1>2, <1>3, <2>2 DEF Between, Follows, SegmentEnd
  <2> QED
    BY <1>2, <2>1, <2>2, <2>3, InOrderConcat DEF t
<1>4. CASE Midway(s, a) /\ a.pending = <<>>
  <2>1. a.pending = FramesAfter(a, a.seen)
    BY <1>2, <1>4 DEF FramesAfter
  <2>2. Push(c) = FramesAfter(c, a.seen)
    BY <1>1, <1>2, <2>1, PushFrames
  <2> DEFINE t == FramesAfter(c, a.seen)
  <2>3. /\ t \in Seq(Piece) /\ t # <<>>
        /\ t[1] = [segment |-> c.segment, attempt |-> c.attempt, frame |-> a.seen + 1]
        /\ End(t) = [segment |-> c.segment, attempt |-> c.attempt, frame |-> c.seen]
        /\ \A i \in 2..Len(t) : Follows(t[i - 1], t[i])
    BY <1>1, <1>2, FramesAfterFollow
  <2> HIDE DEF t
  <2>4. s # <<>> /\ Follows(End(s), t[1])
    BY <1>1, <1>2, <1>4, <2>3 DEF Midway, Follows, SegmentEnd
  <2> QED
    BY <1>2, <2>2, <2>3, <2>4, InOrderConcat DEF t
<1> QED
  BY <1>3, <1>4 DEF Told

\* The end mark follows the last frame of its segment.
LEMMA EndTold ==
  ASSUME NEW s \in Seq(Piece), InOrder(s), s # <<>>, NEW c \in Active, c.seen > 0,
         End(s) = [segment |-> c.segment, attempt |-> c.attempt, frame |-> c.seen]
  PROVE  InOrder(s \o EndOf(c)) /\ Whole(s \o EndOf(c), c.segment)
<1> DEFINE t == EndOf(c)
           p == [segment |-> c.segment, attempt |-> c.attempt, frame |-> SegmentEnd]
<1>1. c.segment \in Nat /\ c.attempt \in Nat /\ c.seen \in Nat
  BY DEF Active
<1>2. t \in Seq(Piece) /\ t # <<>> /\ Len(t) = 1 /\ t[1] = p /\ End(t) = p
  BY EndType DEF EndOf, End
<1>3. Follows(End(s), p)
  BY <1>1 DEF Follows, SegmentEnd
<1>4. \A i \in 2..Len(t) : Follows(t[i - 1], t[i])
  BY <1>2
<1> HIDE DEF t
<1>5. InOrder(s \o t) /\ s \o t # <<>> /\ End(s \o t) = End(t)
  BY <1>2, <1>3, <1>4, InOrderConcat
<1> QED
  BY <1>2, <1>5 DEF Whole, t

\* A segment that begins is between two.
LEMMA BeginTold ==
  ASSUME NEW s, NEW id, NEW segment, NEW attempt, Between(s, segment)
  PROVE  Told(s, Begin(id, segment, attempt))
<1>1. FramesAfter(Begin(id, segment, attempt), 0) = <<>>
  BY DEF FramesAfter, Begin
<1> QED
  BY <1>1 DEF Told, Begin

\* A frame that does not send, or starts again, comes before anything of its
\* segment was sent.
LEMMA QuietBetween ==
  ASSUME NEW s, NEW a \in Active, Told(s, a), NEW f \in Frame,
         FalseStart(Hear(a, f), f) \/ ~Speaks(Hear(a, f), f)
  PROVE  Between(s, a.segment) /\ a.pending = FramesAfter(a, 0)
<1>1. ~Midway(s, a)
  <2>1. /\ Hear(a, f).seen = a.seen + 1 /\ (Hear(a, f).loud <=> a.loud \/ f.loud)
        /\ Hear(a, f).attempt = a.attempt
    BY HearFields
  <2>2. a.seen \in Nat /\ a.attempt \in Nat /\ FalseStartFrames \in Nat /\ MaxAttempts \in Nat
    BY SchedulerAssumption DEF Active, SchedulerAssumption
  <2> QED
    BY <2>1, <2>2 DEF Midway, FalseStart, Speaks
<1> QED
  BY <1>1 DEF Told

\* Frames that go out, the segment having more to come: nothing is held back,
\* and the attempt is the last one.
LEMMA SentMidway ==
  ASSUME NEW s, NEW c \in Active, NEW f \in Frame, s # <<>>, c.seen > 0,
         End(s) = [segment |-> c.segment, attempt |-> c.attempt, frame |-> c.seen],
         ~FalseStart(c, f), Speaks(c, f), ~f.done
  PROVE  Told(s, [c EXCEPT !.pending = <<>>])
<1> DEFINE d == [c EXCEPT !.pending = <<>>]
<1>1. /\ d.segment = c.segment /\ d.attempt = c.attempt /\ d.seen = c.seen
      /\ d.loud = c.loud /\ d.pending = <<>>
  BY DEF Active
<1>2. c.loud \/ (c.seen >= FalseStartFrames /\ c.attempt >= MaxAttempts)
  <2>1. c.attempt \in Nat /\ MaxAttempts \in Nat
    BY SchedulerAssumption DEF Active, SchedulerAssumption
  <2> QED
    BY <2>1 DEF FalseStart, Speaks
<1> HIDE DEF d
<1>3. Midway(s, d)
  BY <1>1, <1>2 DEF Midway
<1> QED
  BY <1>1, <1>3 DEF Told, d

LEMMA HeldBetween ==
  ASSUME NEW s, NEW a \in Active, NEW f \in Frame, NEW c, c = Hear(a, f),
         Between(s, a.segment), a.pending = FramesAfter(a, 0)
  PROVE  Told(s, [c EXCEPT !.pending = Push(c)])
<1>1. /\ c \in Active /\ c.seen = a.seen + 1
      /\ c.segment = a.segment /\ c.attempt = a.attempt /\ c.pending = a.pending
  BY HearFields
<1>2. Push(c) = FramesAfter(c, 0)
  <2>1. a.seen \in Nat
    BY DEF Active
  <2> QED
    BY <1>1, <2>1, PushFrames
<1> DEFINE d == [c EXCEPT !.pending = Push(c)]
<1>3. /\ d.segment = c.segment /\ d.attempt = c.attempt /\ d.seen = c.seen /\ d.pending = Push(c)
  BY <1>1 DEF Active
<1> HIDE DEF d
<1>4. FramesAfter(d, 0) = FramesAfter(c, 0)
  BY <1>3 DEF FramesAfter
<1> QED
  BY <1>1, <1>2, <1>3, <1>4 DEF Told, d

-----------------------------------------------------------------------------
\* A reading that a step does not concern.
LEMMA StillDelivered ==
  ASSUME NEW i \in Job, DeliveredTo(i), out'[i] = out[i], reading'[i] = reading[i],
         place'[i] = place[i], left \subseteq left', hurt \subseteq hurt'
  PROVE  DeliveredTo(i)'
BY DEF DeliveredTo

\* A reading that moves on towards the batch, or is closed.
LEMMA MovedDelivered ==
  ASSUME NEW i \in Job, DeliveredTo(i), out'[i] = out[i], UNCHANGED <<hurt, left>>,
         \/ place[i] \in NotStarted /\ place'[i] \in NotStarted
         \/ place[i] = "dropped" /\ place'[i] = "closed"
  PROVE  DeliveredTo(i)'
<1>1. "active" \notin NotStarted /\ "dropped" \notin NotStarted /\ "closed" \notin NotStarted
  BY DEF NotStarted
<1> QED
  BY <1>1 DEF DeliveredTo

\* A reading dropped because a failure reached it, or its listener had left.
LEMMA CutDelivered ==
  ASSUME NEW i \in Job, InOrder(out'[i]), place'[i] = "dropped",
         i \in hurt' \/ i \in left'
  PROVE  DeliveredTo(i)'
BY DEF DeliveredTo, NotStarted

\* A reading that begins a segment.
LEMMA BegunDelivered ==
  ASSUME NEW j \in Job, NEW id, NEW segment \in 1..Segments[j], NEW attempt,
         InOrder(out'[j]), Between(out'[j], segment),
         place'[j] = "active", reading'[j] = Begin(id, segment, attempt)
  PROVE  DeliveredTo(j)'
<1>1. Told(out'[j], reading'[j])
  BY BeginTold
<1>2. reading'[j].segment = segment
  BY DEF Begin
<1> QED
  BY <1>1, <1>2 DEF DeliveredTo, NotStarted

LEMMA AddStreamDelivered ==
  ASSUME Shape, NEW j \in Job, NEW b, NEW segment \in 1..Segments[j], NEW attempt,
         AddStream(j, b, segment, attempt) \/ AddStreamFails(j, b),
         InOrder(out'[j]), Between(out'[j], segment)
  PROVE  DeliveredTo(j)'
<1>1. CASE AddStream(j, b, segment, attempt)
  <2>1. place'[j] = "active" /\ reading'[j] = Begin(b.next, segment, attempt)
    BY <1>1 DEF AddStream, Shape
  <2> QED
    BY <2>1, BegunDelivered
<1>2. CASE AddStreamFails(j, b)
  <2>1. place'[j] = "dropped" /\ j \in hurt'
    BY <1>2 DEF AddStreamFails, Drop
  <2> QED
    BY <2>1, CutDelivered
<1> QED
  BY <1>1, <1>2

\* What a start, or a frame, leaves alone.
OthersAlone(j) ==
    /\ \A i \in Job \ {j} :
         place'[i] = place[i] /\ reading'[i] = reading[i] /\ out'[i] = out[i]
    /\ hurt \subseteq hurt'
    /\ UNCHANGED left

LEMMA OthersDelivered ==
  ASSUME Delivered, NEW j \in Job, OthersAlone(j), DeliveredTo(j)'
  PROVE  Delivered'
<1>1. ASSUME NEW i \in Job \ {j} PROVE DeliveredTo(i)'
  BY <1>1, StillDelivered DEF Delivered, OthersAlone
<1> QED
  BY <1>1 DEF Delivered

LEMMA AddStreamAlone ==
  ASSUME Shape, NEW j \in Job, NEW b, NEW segment, NEW attempt,
         AddStream(j, b, segment, attempt) \/ AddStreamFails(j, b)
  PROVE  /\ \A i \in Job \ {j} : place'[i] = place[i] /\ reading'[i] = reading[i]
         /\ hurt \subseteq hurt'
<1>1. CASE AddStream(j, b, segment, attempt)
  BY <1>1 DEF AddStream, Shape
<1>2. CASE AddStreamFails(j, b)
  BY <1>2 DEF AddStreamFails, Drop, Shape
<1> QED
  BY <1>1, <1>2

LEMMA StartDelivered ==
  ASSUME Shape, Delivered, NEW j \in Job, Start(j)
  PROVE  Delivered'
<1>1. /\ place[j] = "queue" /\ UNCHANGED <<out, left>>
      /\ AddStream(j, batch, 1, 1) \/ AddStreamFails(j, batch)
  BY DEF Start
<1>2. OthersAlone(j)
  BY <1>1, AddStreamAlone DEF OthersAlone
<1>3. InOrder(out'[j]) /\ Between(out'[j], 1)
  BY <1>1 DEF Delivered, DeliveredTo, NotStarted, Between
<1>4. 1 \in 1..Segments[j]
  BY SchedulerAssumption DEF SchedulerAssumption
<1>5. DeliveredTo(j)'
  BY <1>1, <1>3, <1>4, AddStreamDelivered
<1> QED
  BY <1>2, <1>5, OthersDelivered

\* What the handling of a frame finds.
LEMMA FrameFinds ==
  ASSUME Shape, Delivered, NEW j \in Job, NEW id, Handle(id), Reads(j, id)
  PROVE  /\ frames[id] \in Frame /\ reading[j] \in Active /\ out[j] \in Seq(Piece)
         /\ InOrder(out[j]) /\ Told(out[j], reading[j])
         /\ reading[j].segment \in 1..Segments[j] /\ Segments[j] \in Nat
         /\ UNCHANGED left
<1>1. frames[id] \in Frame /\ UNCHANGED left
  BY HandleShape
<1>2. DeliveredTo(j) /\ place[j] = "active"
  BY DEF Delivered, Reads
<1> QED
  BY <1>1, <1>2, SchedulerAssumption DEF DeliveredTo, Shape, SchedulerAssumption

LEMMA FrameDelivered ==
  ASSUME Shape, Delivered, NEW j \in Job, NEW id, FrameOf(j, id)
  PROVE  Delivered'
<1> DEFINE f == frames[id]
           a == reading[j]
           c == Hear(reading[j], f)
<1>1. Handle(id) /\ Reads(j, id)
  BY DEF FrameOf, BadFrame, ReadAgain, HoldFrame, ListenerLeft, SendFrames, EndSegment
<1>2. /\ f \in Frame /\ a \in Active /\ out[j] \in Seq(Piece)
      /\ InOrder(out[j]) /\ Told(out[j], a) /\ a.segment \in 1..Segments[j]
      /\ Segments[j] \in Nat /\ UNCHANGED left
  BY <1>1, FrameFinds
<1>3. c \in Active /\ c.segment = a.segment /\ c.attempt = a.attempt
  BY <1>2, HearFields
<1>4. /\ out[j] \o Push(c) \in Seq(Piece) /\ out[j] \o Push(c) # <<>> /\ InOrder(out[j] \o Push(c))
      /\ End(out[j] \o Push(c)) = [segment |-> c.segment, attempt |-> c.attempt, frame |-> c.seen]
      /\ c.seen > 0
  BY <1>2, PushTold
<1>5. OthersAlone(j) /\ DeliveredTo(j)'
  <2>1. CASE BadFrame(j, id) \/ ListenerLeft(j, id)
    <3>1. /\ Drop({j}) /\ UNCHANGED out
          /\ hurt' = hurt \cup {j} \/ (UNCHANGED hurt /\ j \in left)
      BY <2>1 DEF BadFrame, ListenerLeft
    <3>2. OthersAlone(j) /\ place'[j] = "dropped"
      BY <1>2, <3>1 DEF OthersAlone, Drop
    <3>3. j \in hurt' \/ j \in left'
      BY <1>2, <3>1
    <3> QED
      BY <1>2, <3>1, <3>2, <3>3, CutDelivered
  <2>2. CASE ReadAgain(j, id)
    <3>1. /\ \/ AddStream(j, WithoutStream(id, f), c.segment, c.attempt + 1)
             \/ AddStreamFails(j, WithoutStream(id, f))
          /\ UNCHANGED out /\ FalseStart(c, f)
      BY <2>2 DEF ReadAgain
    <3> HIDE DEF f, c
    <3>2. OthersAlone(j)
      BY <1>2, <3>1, AddStreamAlone DEF OthersAlone
    <3>3. Between(out[j], a.segment)
      BY <1>2, <3>1, QuietBetween DEF c
    <3> QED
      BY <1>2, <1>3, <3>1, <3>2, <3>3, AddStreamDelivered
  <2>3. CASE HoldFrame(j, id)
    <3>1. /\ reading' = [reading EXCEPT ![j] = [c EXCEPT !.pending = Push(c)]]
          /\ UNCHANGED <<place, out, hurt>> /\ ~Speaks(c, f)
      BY <2>3 DEF HoldFrame
    <3> HIDE DEF f, c
    <3>2. OthersAlone(j)
      BY <1>2, <3>1 DEF OthersAlone, Shape
    <3>3. Between(out[j], a.segment) /\ a.pending = FramesAfter(a, 0)
      BY <1>2, <3>1, QuietBetween DEF c
    <3>4. Told(out[j], [c EXCEPT !.pending = Push(c)])
      BY <1>2, <3>3, HeldBetween DEF c
    <3>5. reading'[j] = [c EXCEPT !.pending = Push(c)] /\ reading'[j].segment = a.segment
      BY <1>3, <3>1 DEF Shape, Active
    <3>6. place'[j] = "active" /\ out'[j] = out[j]
      BY <1>1, <3>1 DEF Reads
    <3>7. DeliveredTo(j)'
      BY <1>2, <3>4, <3>5, <3>6 DEF DeliveredTo, NotStarted
    <3> QED
      BY <3>2, <3>7
  <2>4. CASE SendFrames(j, id)
    <3>1. /\ reading' = [reading EXCEPT ![j] = [c EXCEPT !.pending = <<>>]]
          /\ out' = [out EXCEPT ![j] = out[j] \o Push(c)]
          /\ UNCHANGED <<place, hurt>> /\ Speaks(c, f) /\ ~FalseStart(c, f) /\ ~f.done
      BY <2>4 DEF SendFrames
    <3> HIDE DEF f, c
    <3>2. OthersAlone(j) /\ out'[j] = out[j] \o Push(c)
      BY <1>2, <3>1 DEF OthersAlone, Shape
    <3>3. Told(out[j] \o Push(c), [c EXCEPT !.pending = <<>>])
      BY <1>2, <1>3, <1>4, <3>1, SentMidway
    <3>4. reading'[j] = [c EXCEPT !.pending = <<>>] /\ reading'[j].segment = a.segment
      BY <1>3, <3>1 DEF Shape, Active
    <3>5. place'[j] = "active"
      BY <1>1, <3>1 DEF Reads
    <3>6. DeliveredTo(j)'
      BY <1>2, <1>4, <3>2, <3>3, <3>4, <3>5 DEF DeliveredTo, NotStarted
    <3> QED
      BY <3>2, <3>6
  <2>5. CASE EndSegment(j, id)
    <3>1. /\ out' = [out EXCEPT ![j] = out[j] \o Push(c) \o EndOf(c)]
          /\ IF More(j, c)
             THEN \/ AddStream(j, batch, c.segment + 1, 1)
                  \/ AddStreamFails(j, batch)
             ELSE Drop({j}) /\ UNCHANGED hurt
      BY <2>5 DEF EndSegment
    <3> HIDE DEF f, c
    <3>2. /\ out'[j] = out[j] \o Push(c) \o EndOf(c)
          /\ \A i \in Job \ {j} : out'[i] = out[i]
      BY <3>1 DEF Shape
    <3>3. InOrder(out'[j]) /\ Whole(out'[j], c.segment)
      BY <1>3, <1>4, <3>2, EndTold
    <3>4. CASE More(j, c)
      <4>1. c.segment + 1 \in 1..Segments[j]
        BY <1>2, <1>3, <3>4 DEF More
      <4>2. Between(out'[j], c.segment + 1)
        BY <1>2, <1>3, <3>3 DEF Between, Whole
      <4>3. AddStream(j, batch, c.segment + 1, 1) \/ AddStreamFails(j, batch)
        BY <3>1, <3>4
      <4>4. OthersAlone(j)
        BY <1>2, <3>2, <4>3, AddStreamAlone DEF OthersAlone
      <4>5. DeliveredTo(j)'
        BY <3>3, <4>1, <4>2, <4>3, AddStreamDelivered
      <4> QED
        BY <4>4, <4>5
    <3>5. CASE ~More(j, c)
      <4>1. Drop({j}) /\ UNCHANGED hurt
        BY <3>1, <3>5
      <4>2. OthersAlone(j) /\ place'[j] = "dropped"
        BY <1>2, <3>2, <4>1 DEF OthersAlone, Drop
      <4>3. c.segment = Segments[j]
        BY <1>2, <1>3, <3>5 DEF More
      <4>4. DeliveredTo(j)'
        BY <3>3, <4>2, <4>3 DEF DeliveredTo, NotStarted
      <4> QED
        BY <4>2, <4>4
    <3> QED
      BY <3>4, <3>5
  <2> QED
    BY <2>1, <2>2, <2>3, <2>4, <2>5 DEF FrameOf
<1> QED
  BY <1>5, OthersDelivered

LEMMA DeliveredStep ==
  ASSUME Shape, Delivered, [Next]_vars
  PROVE  Delivered'
<1>1. ASSUME NEW j \in Job, Submit(j) \/ Leave(j) \/ Close(j) \/ Receive(j) \/ Drain(j)
      PROVE  Delivered'
  <2>1. UNCHANGED <<out, reading, hurt>>
    BY <1>1 DEF Submit, Grant, Refuse, CountQueued, SendJob, Leave, Close, Receive, Drain,
                batchVars, engineVars, listenerVars
  <2>2. CASE Leave(j)
    <3>1. ASSUME NEW i \in Job PROVE DeliveredTo(i)'
      BY <2>1, <2>2, StillDelivered DEF Leave, Delivered, handlerVars
    <3> QED
      BY <3>1 DEF Delivered
  <2>3. CASE Submit(j) \/ Close(j) \/ Receive(j) \/ Drain(j)
    <3>1. /\ \A i \in Job \ {j} : place'[i] = place[i]
          /\ \/ place[j] \in NotStarted /\ place'[j] \in NotStarted
             \/ place[j] = "dropped" /\ place'[j] = "closed"
          /\ UNCHANGED left
      BY <2>3 DEF Submit, Grant, Refuse, CountQueued, SendJob, Close, Receive, Drain, Shape,
                  NotStarted, listenerVars
    <3>2. DeliveredTo(j)'
      BY <2>1, <3>1, MovedDelivered DEF Delivered
    <3>3. OthersAlone(j)
      BY <2>1, <3>1 DEF OthersAlone
    <3> QED
      BY <3>2, <3>3, OthersDelivered
  <2> QED
    BY <1>1, <2>2, <2>3
<1>2. CASE \E j \in Job : Start(j)
  BY <1>2, StartDelivered
<1>3. CASE \/ ReceiveNothing \/ Drained \/ LiveStarted \/ BackgroundStarted \/ FramesDone
           \/ StepBatch \/ (\E id \in DOMAIN frames : SkipFrame(id)) \/ UNCHANGED vars
  <2>1. UNCHANGED <<place, reading, out, left, hurt>>
    BY <1>3 DEF ReceiveNothing, Drained, LiveStarted, BackgroundStarted, FramesDone, StepBatch,
                SkipFrame, Handle, vars, handlerVars, engineVars, listenerVars, batchVars
  <2>2. ASSUME NEW i \in Job PROVE DeliveredTo(i)'
    BY <2>1, StillDelivered DEF Delivered
  <2> QED
    BY <2>2 DEF Delivered
<1>4. CASE StepBatchFails
  <2>1. Drop(At("active")) /\ UNCHANGED <<out, left>> /\ hurt' = hurt \cup At("active")
    BY <1>4 DEF StepBatchFails
  <2>2. ASSUME NEW i \in Job PROVE DeliveredTo(i)'
    <3>1. CASE i \in At("active")
      <4>1. place'[i] = "dropped" /\ InOrder(out'[i])
        BY <2>1, <3>1 DEF Drop, Delivered, DeliveredTo
      <4> QED
        BY <2>1, <3>1, <4>1, CutDelivered
    <3>2. CASE i \notin At("active")
      <4>1. place'[i] = place[i] /\ reading'[i] = reading[i] /\ out'[i] = out[i]
        BY <2>1, <3>2 DEF Drop
      <4> QED
        BY <2>1, <4>1, StillDelivered DEF Delivered
    <3> QED
      BY <3>1, <3>2
  <2> QED
    BY <2>2 DEF Delivered
<1>5. CASE \E id \in DOMAIN frames : \E j \in Job : FrameOf(j, id)
  BY <1>5, FrameDelivered
<1> QED
  BY <1>1, <1>2, <1>3, <1>4, <1>5 DEF Next, Engine

LEMMA DeliveredInit == Init => Delivered
<1> SUFFICES ASSUME Init, NEW j \in Job PROVE DeliveredTo(j)
  BY DEF Delivered
<1>1. place[j] = "new" /\ out[j] = <<>>
  BY DEF Init
<1>2. InOrder(<<>>)
  BY DEF InOrder
<1> QED
  BY <1>1, <1>2 DEF DeliveredTo, NotStarted

LEMMA DeliveredAlways == Spec => []Delivered
<1>1. Delivered /\ IInv /\ [Next]_vars => Delivered'
  BY DeliveredStep DEF IInv
<1> QED
  BY <1>1, DeliveredInit, InvAlways, PTL DEF Spec

\* However the sentences are split into frames, whichever of them start
\* falsely and are read again, and whoever leaves when, a frame channel carries
\* the sentences of its reading in order, each as the frames of one attempt
\* without a gap and its end mark (run in engine.rs: pending, false starts and
\* end_of_segment).
THEOREM ReadingsAreInOrder == Spec => []ReadInOrder
<1>1. Delivered => ReadInOrder
  BY DEF Delivered, DeliveredTo, InOrder, ReadInOrder
<1> QED
  BY <1>1, DeliveredAlways, PTL

\* A listener who stayed and sees the frame channel closed was sent every
\* sentence to its end (Job in engine.rs: the channel is dropped when the reading
\* is complete), unless a failure reached that very reading: what fails in others,
\* and the streams and rows it leaves in the batch, cut nothing short.
THEOREM ClosedChannelsAreComplete == Spec => []ClosedIsComplete
<1>1. Delivered => ClosedIsComplete
  BY DEF Delivered, DeliveredTo, Whole, End, ClosedIsComplete, LastPiece, At
<1> QED
  BY <1>1, DeliveredAlways, PTL

-----------------------------------------------------------------------------
(* The scheduler implements Admission. *)

\* The status a place stands for.
StatusOf(p) == CASE p \in HoldingSlot -> "held"
                 [] p = "dropped" -> "released"
                 [] p = "closed" -> "ended"
                 [] OTHER -> p

LEMMA StatusOfIs ==
  ASSUME NEW p \in Places
  PROVE  /\ p \in HoldingSlot <=> StatusOf(p) = "held"
         /\ p = "dropped" <=> StatusOf(p) = "released"
         /\ p = "closed" <=> StatusOf(p) = "ended"
         /\ p = "new" <=> StatusOf(p) = "new"
         /\ p = "refused" <=> StatusOf(p) = "refused"
<1>1. CASE p \in HoldingSlot
  BY <1>1 DEF HoldingSlot, StatusOf
<1>2. CASE p \notin HoldingSlot
  <2>1. p \in {"new", "dropped", "closed", "refused"}
    BY <1>2 DEF HoldingSlot, Places
  <2> QED
    BY <1>2, <2>1 DEF StatusOf, HoldingSlot
<1> QED
  BY <1>1, <1>2

LEMMA StatusIs ==
  ASSUME Shape, NEW j \in Job
  PROVE  /\ Status[j] = StatusOf(place[j])
         /\ place[j] \in HoldingSlot <=> Status[j] = "held"
         /\ place[j] = "dropped" <=> Status[j] = "released"
         /\ place[j] = "closed" <=> Status[j] = "ended"
         /\ place[j] = "new" <=> Status[j] = "new"
         /\ place[j] = "refused" <=> Status[j] = "refused"
<1>1. Status[j] = StatusOf(place[j])
  BY DEF Status, StatusOf
<1>2. place[j] \in Places
  BY DEF Shape
<1> QED
  BY <1>1, <1>2, StatusOfIs

LEMMA HeldIs ==
  ASSUME Shape, NEW c
  PROVE  A!Held(c) = Within(place, HoldingSlot, c)
BY StatusIs DEF A!Held, Within

LEMMA StatusMoves ==
  ASSUME Shape, NEW j \in Job, NEW p, place' = Move(place, j, p)
  PROVE  Status' = [Status EXCEPT ![j] = StatusOf(p)]
<1>1. \A i \in Job : place'[i] = IF i = j THEN p ELSE place[i]
  BY DEF Shape, Move
<1>2. Status = [i \in Job |-> StatusOf(place[i])]
  BY DEF Status, StatusOf
<1>3. Status' = [i \in Job |-> StatusOf(place'[i])]
  BY DEF Status, StatusOf
<1> QED
  BY <1>1, <1>2, <1>3

LEMMA StatusStays ==
  ASSUME Shape, NEW j \in Job, NEW p, place' = Move(place, j, p),
         place[j] \in HoldingSlot, p \in HoldingSlot
  PROVE  Status' = Status
<1>1. Status' = [Status EXCEPT ![j] = StatusOf(p)]
  BY StatusMoves
<1>2. StatusOf(p) = "held" /\ Status[j] = "held"
  BY StatusIs DEF StatusOf, HoldingSlot
<1>3. Status = [i \in Job |-> Status[i]]
  BY DEF Status
<1> QED
  BY <1>1, <1>2, <1>3

LEMMA DropGivesBack ==
  ASSUME Shape, NEW js \in SUBSET Job, Drop(js), \A j \in js : place[j] \in HoldingSlot
  PROVE  A!GiveBack(js)
<1>1. \A j \in js : Status[j] = "held"
  BY StatusIs
<1>2. \A j \in Job : place'[j] = IF j \in js THEN "dropped" ELSE place[j]
  BY DEF Drop
<1>3. Status' = [j \in Job |-> IF j \in js THEN "released" ELSE Status[j]]
  BY <1>2 DEF Status, HoldingSlot
<1> QED
  BY <1>1, <1>3 DEF A!GiveBack

LEMMA AdmissionStep ==
  ASSUME IInv, [Next]_vars
  PROVE  [A!Next]_Status
<1>0. Shape /\ SlotCounts
  BY DEF IInv
<1>1. ASSUME NEW j \in Job, Grant(j) PROVE A!Admit(j)
  <2>1. Status[j] = "new"
    BY <1>0, <1>1, StatusIs DEF Grant
  <2>2. Status' = [Status EXCEPT ![j] = "held"]
    <3>1. place' = Move(place, j, "granted")
      BY <1>1 DEF Grant, Move
    <3>2. StatusOf("granted") = "held"
      BY DEF StatusOf, HoldingSlot
    <3> QED
      BY <1>0, <3>1, <3>2, StatusMoves
  <2>3. Cardinality(A!Held(ClassOf[j])) < Slots[ClassOf[j]]
    BY <1>0, <1>1, HeldIs, SchedulerAssumption DEF Grant, SlotCounts, SchedulerAssumption
  <2> QED
    BY <2>1, <2>2, <2>3 DEF A!Admit, A!Cardinality, Cardinality
<1>2. ASSUME NEW j \in Job, Refuse(j) PROVE A!Refuse(j)
  <2>1. Status[j] = "new"
    BY <1>0, <1>2, StatusIs DEF Refuse
  <2>2. Status' = [Status EXCEPT ![j] = "refused"]
    <3>1. place' = Move(place, j, "refused")
      BY <1>2 DEF Refuse, Move
    <3>2. StatusOf("refused") = "refused"
      BY DEF StatusOf, HoldingSlot
    <3> QED
      BY <1>0, <3>1, <3>2, StatusMoves
  <2>3. Cardinality(A!Held(ClassOf[j])) >= Slots[ClassOf[j]]
    BY <1>0, <1>2, HeldIs, SchedulerAssumption DEF Refuse, SlotCounts, SchedulerAssumption
  <2> QED
    BY <2>1, <2>2, <2>3 DEF A!Refuse, A!Cardinality, Cardinality
<1>3. ASSUME NEW j \in Job, Close(j) PROVE A!End(j)
  <2>1. Status[j] = "released"
    BY <1>0, <1>3, StatusIs DEF Close
  <2>2. Status' = [Status EXCEPT ![j] = "ended"]
    <3>1. place' = Move(place, j, "closed")
      BY <1>3 DEF Close, Move
    <3>2. StatusOf("closed") = "ended"
      BY DEF StatusOf, HoldingSlot
    <3> QED
      BY <1>0, <3>1, <3>2, StatusMoves
  <2> QED
    BY <2>1, <2>2 DEF A!End
<1>4. ASSUME NEW j \in Job, CountQueued(j) \/ SendJob(j) \/ Receive(j) \/ Drain(j)
      PROVE  Status' = Status
  <2>1. CASE CountQueued(j)
    <3>1. place' = Move(place, j, "counted") /\ place[j] \in HoldingSlot /\ "counted" \in HoldingSlot
      BY <2>1 DEF CountQueued, Move, HoldingSlot
    <3> QED
      BY <1>0, <3>1, StatusStays
  <2>2. CASE SendJob(j)
    <3>1. place' = Move(place, j, "channel") /\ place[j] \in HoldingSlot /\ "channel" \in HoldingSlot
      BY <2>2 DEF SendJob, Move, HoldingSlot
    <3> QED
      BY <1>0, <3>1, StatusStays
  <2>3. CASE Receive(j) \/ Drain(j)
    <3>1. place' = Move(place, j, "queue") /\ place[j] \in HoldingSlot /\ "queue" \in HoldingSlot
      BY <2>3 DEF Receive, Drain, Move, HoldingSlot
    <3> QED
      BY <1>0, <3>1, StatusStays
  <2> QED
    BY <1>4, <2>1, <2>2, <2>3
<1>5. ASSUME NEW j \in Job, Start(j) PROVE A!GiveBack({j}) \/ Status' = Status
  <2>1. place[j] = "queue" /\ place[j] \in HoldingSlot /\ "active" \in HoldingSlot
    BY <1>5 DEF Start, HoldingSlot
  <2>2. CASE AddStream(j, batch, 1, 1)
    <3>1. place' = Move(place, j, "active")
      BY <2>2 DEF AddStream, Move
    <3> QED
      BY <1>0, <2>1, <3>1, StatusStays
  <2>3. CASE AddStreamFails(j, batch)
    BY <1>0, <2>1, <2>3, DropGivesBack DEF AddStreamFails
  <2> QED
    BY <1>5, <2>2, <2>3 DEF Start
<1>6. ASSUME StepBatchFails PROVE A!GiveBack(At("active"))
  <2>1. /\ At("active") \in SUBSET Job
        /\ \A j \in At("active") : place[j] \in HoldingSlot
        /\ Drop(At("active"))
    BY <1>6 DEF StepBatchFails, At, HoldingSlot
  <2> QED
    BY <1>0, <2>1, DropGivesBack
<1>7. ASSUME NEW j \in Job, NEW id, FrameOf(j, id) PROVE A!GiveBack({j}) \/ Status' = Status
  <2>1. /\ place[j] = "active" /\ place[j] \in HoldingSlot /\ "active" \in HoldingSlot
        /\ UNCHANGED place \/ place' = Move(place, j, "active") \/ Drop({j})
    <3>1. place[j] = "active" /\ (UNCHANGED place \/ place' = Move(place, j, "active") \/ Drop({j}))
      BY <1>0, <1>7, FrameMoves
    <3> QED
      BY <3>1 DEF HoldingSlot
  <2>2. CASE UNCHANGED place
    BY <2>2 DEF Status
  <2>3. CASE place' = Move(place, j, "active")
    BY <1>0, <2>1, <2>3, StatusStays
  <2>4. CASE Drop({j})
    BY <1>0, <2>1, <2>4, DropGivesBack
  <2> QED
    BY <2>1, <2>2, <2>3, <2>4
<1>8. ASSUME \/ \E j \in Job : Leave(j)
             \/ ReceiveNothing \/ Drained \/ LiveStarted \/ BackgroundStarted
             \/ StepBatch \/ FramesDone
             \/ \E id \in DOMAIN frames : SkipFrame(id)
             \/ UNCHANGED vars
      PROVE  Status' = Status
  <2>1. UNCHANGED place
    BY <1>8 DEF Leave, ReceiveNothing, Drained, LiveStarted, BackgroundStarted, StepBatch,
                FramesDone, SkipFrame, vars, handlerVars
  <2> QED
    BY <2>1 DEF Status
<1>9. At("active") \in SUBSET Job
  BY DEF At
<1> QED
  BY <1>1, <1>2, <1>3, <1>4, <1>5, <1>6, <1>7, <1>8, <1>9 DEF A!Next, Next, Engine, Submit

\* The scheduler keeps what Admission promises, whatever it does inside: a
\* slot or a refusal at once, a refusal only when every slot of the class is
\* held, and a slot back before the end of its reading can be seen.
THEOREM AdmissionKept == Spec => KeepsAdmission
<1>1. Init => A!Init
  BY DEF Init, A!Init, Status, HoldingSlot
<1>2. IInv /\ [Next]_vars => [A!Next]_Status
  BY AdmissionStep
<1> QED
  BY <1>1, <1>2, InvAlways, PTL DEF Spec, KeepsAdmission, A!Spec
=============================================================================
