---------------------------- MODULE BatcherProofs ----------------------------
(***************************************************************************)
(* What the operations of the batcher return: every one gives back a batch *)
(* whose caches hold at least a row per stream, and exactly one only when  *)
(* they held exactly one.  Then the theorems about the batcher under any   *)
(* caller.  SchedulerProofs and RenderingProofs use the lemmas for the     *)
(* callers there are.                                                      *)
(***************************************************************************)
EXTENDS BatcherSpec, FiniteSetTheorems, TLAPS

\* Enough rows for every operation to be able to remove the row of a stream.
RowsSuffice(b) == \A l \in 1..Layers : b.rows[l] >= Cardinality(Ids(b))

GoodBatch(b) == IsBatch(b) /\ RowsSuffice(b)

-----------------------------------------------------------------------------
LEMMA IdsFinite ==
  ASSUME NEW b, IsBatch(b)
  PROVE  /\ IsFiniteSet(Ids(b))
         /\ Cardinality(Ids(b)) \in Nat
         /\ b.next \notin Ids(b)
         /\ Ids(b) \subseteq Nat
<1>0. b.next \in Nat /\ Ids(b) \subseteq 0..(b.next - 1)
  BY DEF IsBatch
<1>1. IsFiniteSet(0..(b.next - 1))
  <2>1. b.next - 1 \in Int
    BY <1>0
  <2> QED
    BY <2>1, FS_Interval
<1>2. IsFiniteSet(Ids(b))
  BY <1>1, <1>0, FS_Subset
<1>3. Cardinality(Ids(b)) \in Nat
  BY <1>2, FS_CardinalityType
<1>4. b.next \notin Ids(b) /\ Ids(b) \subseteq Nat
  BY <1>0
<1> QED
  BY <1>2, <1>3, <1>4

LEMMA EmptyBatchGood == GoodBatch(EmptyBatch) /\ Aligned(EmptyBatch) /\ Ids(EmptyBatch) = {}
<1>1. Ids(EmptyBatch) = {}
  BY DEF Ids, EmptyBatch
<1>2. IsBatch(EmptyBatch)
  BY <1>1 DEF IsBatch, EmptyBatch, Ids, Stream
<1>3. Cardinality({}) = 0
  BY FS_EmptySet
<1>4. \A l \in 1..Layers : EmptyBatch.rows[l] = 0
  BY DEF EmptyBatch
<1> QED
  BY <1>1, <1>2, <1>3, <1>4 DEF GoodBatch, RowsSuffice, Aligned

-----------------------------------------------------------------------------
LEMMA AddedGood ==
  ASSUME NEW b, GoodBatch(b)
  PROVE  /\ GoodBatch(Added(b))
         /\ Ids(Added(b)) = Ids(b) \cup {b.next}
         /\ Aligned(b) => Aligned(Added(b))
<1>1. IsBatch(b) /\ b.next \in Nat /\ b.rows \in [1..Layers -> Nat]
  BY DEF GoodBatch, IsBatch
<1>2. Ids(Added(b)) = Ids(b) \cup {b.next}
  BY DEF Added, Ids
<1>3. IsBatch(Added(b))
  <2>1. Added(b).streams \in [Ids(Added(b)) -> Stream]
    BY <1>1, <1>2 DEF Added, IsBatch, Stream, NoEos, Ids
  <2>2. Added(b).rows \in [1..Layers -> Nat]
    <3>1. Added(b).rows = [l \in 1..Layers |-> b.rows[l] + 1]
      BY DEF Added
    <3>2. \A l \in 1..Layers : b.rows[l] \in Nat
      BY <1>1
    <3>3. \A l \in 1..Layers : b.rows[l] + 1 \in Nat
      BY <3>2
    <3> QED
      BY <3>1, <3>3
  <2>3. Ids(Added(b)) \subseteq 0..(Added(b).next - 1) /\ Added(b).next \in Nat
    <3>1. Added(b).next = b.next + 1
      BY DEF Added
    <3>2. Ids(b) \subseteq 0..(b.next - 1)
      BY <1>1 DEF IsBatch
    <3> QED
      BY <1>1, <1>2, <3>1, <3>2
  <2> QED
    BY <2>1, <2>2, <2>3 DEF IsBatch, Added
<1>4. Cardinality(Ids(Added(b))) = Cardinality(Ids(b)) + 1
  BY <1>1, <1>2, IdsFinite, FS_AddElement
<1>5. \A l \in 1..Layers : Added(b).rows[l] = b.rows[l] + 1
  BY DEF Added
<1>6. Cardinality(Ids(b)) \in Nat
  BY <1>1, IdsFinite
<1>7. \A l \in 1..Layers : b.rows[l] \in Nat /\ b.rows[l] >= Cardinality(Ids(b))
  BY <1>1 DEF GoodBatch, RowsSuffice
<1>8. RowsSuffice(Added(b))
  BY <1>4, <1>5, <1>6, <1>7 DEF RowsSuffice
<1>9. Aligned(b) => Aligned(Added(b))
  BY <1>4, <1>5 DEF Aligned
<1> QED
  BY <1>2, <1>3, <1>8, <1>9 DEF GoodBatch

LEMMA PartiallyAddedGood ==
  ASSUME NEW b, GoodBatch(b), NEW n \in Nat
  PROVE  /\ GoodBatch(PartiallyAdded(b, n))
         /\ Ids(PartiallyAdded(b, n)) = Ids(b)
         /\ PartiallyAdded(b, n).next = b.next
         /\ Aligned(b) /\ n = 0 => Aligned(PartiallyAdded(b, n))
<1> DEFINE c == PartiallyAdded(b, n)
<1>1. IsBatch(b) /\ b.rows \in [1..Layers -> Nat] /\ Cardinality(Ids(b)) \in Nat
  BY IdsFinite DEF GoodBatch, IsBatch
<1>2. /\ c.streams = b.streams
      /\ c.next = b.next
      /\ c.rows = [l \in 1..Layers |-> b.rows[l] + (IF l <= n THEN 1 ELSE 0)]
      /\ c = [streams |-> c.streams, rows |-> c.rows, next |-> c.next]
  BY <1>1 DEF PartiallyAdded, IsBatch
<1>3. Ids(c) = Ids(b)
  BY <1>2 DEF Ids
<1> HIDE DEF c
<1>4. /\ c.rows \in [1..Layers -> Nat]
      /\ \A l \in 1..Layers :
           b.rows[l] \in Nat /\ c.rows[l] \in Nat /\ c.rows[l] >= b.rows[l]
  <2> DEFINE more(l) == b.rows[l] + (IF l <= n THEN 1 ELSE 0)
  <2>0. \A l \in 1..Layers : b.rows[l] \in Nat
    BY <1>1
  <2>1. \A l \in 1..Layers : b.rows[l] \in Nat /\ more(l) \in Nat /\ more(l) >= b.rows[l]
    BY <2>0
  <2>2. c.rows = [l \in 1..Layers |-> more(l)]
    BY <1>2
  <2> HIDE DEF more
  <2> QED
    BY <2>1, <2>2
<1>5. IsBatch(c)
  BY <1>1, <1>2, <1>3, <1>4 DEF IsBatch
<1>6. n = 0 => \A l \in 1..Layers : c.rows[l] = b.rows[l]
  BY <1>1, <1>2, BatchAssumption DEF BatchAssumption
<1>7. RowsSuffice(c)
  <2>1. \A l \in 1..Layers : b.rows[l] >= Cardinality(Ids(b))
    BY DEF GoodBatch, RowsSuffice
  <2> QED
    BY <1>1, <1>3, <1>4, <2>1 DEF RowsSuffice
<1> QED
  BY <1>2, <1>3, <1>5, <1>6, <1>7 DEF GoodBatch, Aligned, c

LEMMA RemovedGood ==
  ASSUME NEW b, GoodBatch(b), NEW id
  PROVE  /\ GoodBatch(Removed(b, id))
         /\ Ids(Removed(b, id)) = Ids(b) \ {id}
         /\ Removed(b, id).next = b.next
         /\ Aligned(b) => Aligned(Removed(b, id))
<1>1. CASE id \notin Ids(b)
  BY <1>1 DEF Removed
<1>2. CASE id \in Ids(b)
  <2> DEFINE c == Removed(b, id)
  <2>1. IsBatch(b) /\ b.rows \in [1..Layers -> Nat] /\ Cardinality(Ids(b)) \in Nat
    BY IdsFinite DEF GoodBatch, IsBatch
  <2>2. /\ c.streams = [i \in Ids(b) \ {id} |-> b.streams[i]]
        /\ c.next = b.next
        /\ c.rows = [l \in 1..Layers |-> b.rows[l] - 1]
        /\ c = [streams |-> c.streams, rows |-> c.rows, next |-> c.next]
    BY <1>2, <2>1 DEF Removed, IsBatch, Restrict
  <2>3. Ids(c) = Ids(b) \ {id}
    BY <2>2 DEF Ids
  <2>4. Cardinality(Ids(c)) = Cardinality(Ids(b)) - 1
    BY <1>2, <2>1, <2>3, IdsFinite, FS_RemoveElement
  <2>5. Cardinality(Ids(c)) \in Nat
    <3>1. IsFiniteSet(Ids(b) \ {id})
      BY <2>1, IdsFinite, FS_RemoveElement
    <3> QED
      BY <2>3, <3>1, FS_CardinalityType
  <2> HIDE DEF c
  <2>6. \A l \in 1..Layers :
          /\ b.rows[l] \in Nat /\ b.rows[l] >= Cardinality(Ids(b))
          /\ b.rows[l] - 1 \in Nat
    <3>1. \A l \in 1..Layers : b.rows[l] \in Nat /\ b.rows[l] >= Cardinality(Ids(b))
      BY <2>1 DEF GoodBatch, RowsSuffice
    <3> QED
      BY <2>1, <2>4, <2>5, <3>1
  <2>7. c.rows \in [1..Layers -> Nat]
    BY <2>2, <2>6
  <2>8. c.streams \in [Ids(c) -> Stream]
    BY <2>1, <2>2, <2>3 DEF IsBatch
  <2>9. IsBatch(c)
    BY <2>1, <2>2, <2>3, <2>7, <2>8 DEF IsBatch
  <2>10. \A l \in 1..Layers : c.rows[l] = b.rows[l] - 1
    BY <2>2
  <2>11. RowsSuffice(c)
    BY <2>1, <2>4, <2>5, <2>6, <2>10 DEF RowsSuffice
  <2>12. Aligned(b) => Aligned(c)
    BY <2>4, <2>10 DEF Aligned
  <2> QED
    BY <2>2, <2>3, <2>9, <2>11, <2>12 DEF GoodBatch, c
<1> QED
  BY <1>1, <1>2

LEMMA AdvancedIsStream ==
  ASSUME NEW s \in Stream, NEW e
  PROVE  Advanced(s, e) \in Stream
BY DEF Advanced, Stream, NoEos

LEMMA SteppedGood ==
  ASSUME NEW b, GoodBatch(b), NEW eos
  PROVE  /\ GoodBatch(Stepped(b, eos))
         /\ Ids(Stepped(b, eos)) = Ids(b) \ DoneIds(b, eos)
         /\ Stepped(b, eos).next = b.next
         /\ DoneIds(b, eos) \subseteq Ids(b)
         /\ Aligned(b) => Aligned(Stepped(b, eos))
<1> DEFINE c == Stepped(b, eos)
           gone == DoneIds(b, eos)
<1>1. IsBatch(b) /\ b.rows \in [1..Layers -> Nat] /\ IsFiniteSet(Ids(b))
  BY IdsFinite DEF GoodBatch, IsBatch
<1>2. gone \subseteq Ids(b)
  BY DEF DoneIds
<1>3. /\ c.streams = [i \in Ids(b) \ gone |-> Advanced(b.streams[i], i \in eos)]
      /\ c.next = b.next
      /\ c.rows = [l \in 1..Layers |-> b.rows[l] - Cardinality(gone)]
      /\ c = [streams |-> c.streams, rows |-> c.rows, next |-> c.next]
  BY <1>1 DEF Stepped, IsBatch
<1>4. Ids(c) = Ids(b) \ gone
  BY <1>3 DEF Ids
<1>5. IsFiniteSet(gone) /\ Ids(b) \cap gone = gone
  BY <1>1, <1>2, FS_Subset
<1>6. Cardinality(Ids(c)) = Cardinality(Ids(b)) - Cardinality(gone)
  BY <1>1, <1>4, <1>5, FS_Difference
<1>7. Cardinality(Ids(b)) \in Nat /\ Cardinality(gone) \in Nat /\ Cardinality(Ids(c)) \in Nat
  <2>1. IsFiniteSet(Ids(c))
    BY <1>1, <1>4, FS_Subset
  <2> QED
    BY <1>1, <1>5, <2>1, FS_CardinalityType
<1>8. c.rows \in [1..Layers -> Nat]
  <2>1. \A l \in 1..Layers : b.rows[l] >= Cardinality(Ids(b)) /\ b.rows[l] \in Nat
    BY <1>1 DEF GoodBatch, RowsSuffice
  <2> HIDE DEF gone, c
  <2> QED
    BY <1>3, <1>6, <1>7, <2>1
<1>9. c.streams \in [Ids(c) -> Stream]
  <2>1. \A i \in Ids(b) : b.streams[i] \in Stream
    BY <1>1 DEF IsBatch
  <2>2. \A i \in Ids(b) : Advanced(b.streams[i], i \in eos) \in Stream
    BY <2>1, AdvancedIsStream
  <2> QED
    BY <1>3, <1>4, <2>2
<1>10. IsBatch(c)
  <2>1. Ids(c) \subseteq 0..(c.next - 1) /\ c.next \in Nat
    BY <1>1, <1>3, <1>4 DEF IsBatch
  <2> HIDE DEF c
  <2> QED
    BY <1>3, <1>8, <1>9, <2>1 DEF IsBatch
<1>11. \A l \in 1..Layers : c.rows[l] = b.rows[l] - Cardinality(gone) /\ b.rows[l] \in Nat
  BY <1>1, <1>3
<1> HIDE DEF c, gone
<1>12. RowsSuffice(c)
  BY <1>6, <1>7, <1>11 DEF GoodBatch, RowsSuffice
<1>13. Aligned(b) => Aligned(c)
  BY <1>6, <1>7, <1>11 DEF Aligned
<1> QED
  BY <1>2, <1>3, <1>4, <1>10, <1>12, <1>13 DEF GoodBatch, c, gone

LEMMA StepFailedGood ==
  ASSUME NEW b, GoodBatch(b), NEW moved, NEW eos
  PROVE  /\ GoodBatch(StepFailed(b, moved, eos))
         /\ Ids(StepFailed(b, moved, eos)) = Ids(b)
         /\ StepFailed(b, moved, eos).next = b.next
         /\ Aligned(b) => Aligned(StepFailed(b, moved, eos))
<1> DEFINE c == StepFailed(b, moved, eos)
<1>1. IsBatch(b)
  BY DEF GoodBatch
<1>2. /\ c.streams = [i \in Ids(b) |-> IF i \in moved THEN Advanced(b.streams[i], i \in eos)
                                                      ELSE b.streams[i]]
      /\ c.next = b.next
      /\ c.rows = b.rows
      /\ c = [streams |-> c.streams, rows |-> c.rows, next |-> c.next]
  BY <1>1 DEF StepFailed, IsBatch
<1>3. Ids(c) = Ids(b)
  BY <1>2 DEF Ids
<1>4. c.streams \in [Ids(c) -> Stream]
  <2>1. \A i \in Ids(b) : b.streams[i] \in Stream
    BY <1>1 DEF IsBatch
  <2>2. \A i \in Ids(b) : Advanced(b.streams[i], i \in eos) \in Stream
    BY <2>1, AdvancedIsStream
  <2> QED
    BY <1>2, <1>3, <2>1, <2>2
<1> HIDE DEF c
<1>5. IsBatch(c)
  BY <1>1, <1>2, <1>3, <1>4 DEF IsBatch
<1> QED
  BY <1>2, <1>3, <1>5 DEF GoodBatch, RowsSuffice, Aligned, c

-----------------------------------------------------------------------------
LEMMA FailingLayersNat == FailingLayers \subseteq Nat
BY BatchAssumption DEF FailingLayers, BatchAssumption

\* A failed addition after which the counts agree left no row behind.
LEMMA NoneLeftBehind ==
  ASSUME NEW b, GoodBatch(b), NEW n \in Nat, Aligned(PartiallyAdded(b, n))
  PROVE  n = 0 /\ Aligned(b)
<1> DEFINE N == Cardinality(Ids(b))
<1>1. 1 \in 1..Layers /\ N \in Nat
  BY IdsFinite, BatchAssumption DEF BatchAssumption, GoodBatch
<1>2. \A l \in 1..Layers : b.rows[l] \in Nat /\ b.rows[l] >= N
  BY DEF GoodBatch, IsBatch, RowsSuffice
<1>3. \A l \in 1..Layers : b.rows[l] + (IF l <= n THEN 1 ELSE 0) = N
  BY PartiallyAddedGood DEF Aligned, PartiallyAdded
<1> HIDE DEF N
<1>4. n = 0
  BY <1>1, <1>2, <1>3
<1>5. \A l \in 1..Layers : b.rows[l] = N
  BY <1>2, <1>3, <1>4
<1> QED
  BY <1>4, <1>5 DEF Aligned, N

-----------------------------------------------------------------------------
(* The batcher under any caller. *)

\* What every step of the batcher keeps.
BatchInv == GoodBatch(batch) /\ faults \in 0..MaxFaults

LEMMA BatchInvInductive == BatchInv /\ [BatchNext]_batchVars => BatchInv'
<1> SUFFICES ASSUME BatchInv, [BatchNext]_batchVars PROVE BatchInv'
  OBVIOUS
<1> USE BatchAssumption DEF BatchInv
<1>1. CASE Add
  BY <1>1, AddedGood DEF Add
<1>2. CASE AddFails
  <2>1. faults' \in 0..MaxFaults
    BY <1>2 DEF AddFails, FailingLayers, CanFail, BatchAssumption
  <2> QED
    BY <1>2, <2>1, PartiallyAddedGood, FailingLayersNat DEF AddFails
<1>3. CASE Remove
  BY <1>3, RemovedGood DEF Remove
<1>4. CASE Step
  BY <1>4, SteppedGood DEF Step
<1>5. CASE StepFails
  <2>1. faults' \in 0..MaxFaults
    BY <1>5 DEF StepFails, CanFail, BatchAssumption
  <2> QED
    BY <1>5, <2>1, StepFailedGood DEF StepFails
<1>6. CASE UNCHANGED batchVars
  BY <1>6 DEF batchVars
<1> QED
  BY <1>1, <1>2, <1>3, <1>4, <1>5, <1>6 DEF BatchNext

\* The batcher keeps its types: no cache runs out of rows to remove, and no
\* stream has an id above the next one (batch.rs, Batcher).
THEOREM BatchTypeCorrect == BatchSpec => []BatchTypeOK
<1>1. BatchInit => BatchInv
  BY EmptyBatchGood, BatchAssumption DEF BatchInit, BatchInv, BatchAssumption
<1>2. BatchInv => BatchTypeOK
  BY DEF BatchInv, BatchTypeOK, GoodBatch
<1> QED
  BY <1>1, <1>2, BatchInvInductive, PTL DEF BatchSpec

\* A step that leaves the rows and the streams as many had found them so: an
\* addition that fails once a first layer took its row leaves more, and nothing
\* ever brings the counts together again (batch.rs, add).
LEMMA NeverRealigned ==
  ASSUME GoodBatch(batch), [BatchNext]_batchVars, Aligned(batch')
  PROVE  Aligned(batch)
<1>1. /\ IsBatch(batch) /\ batch.next \in Nat /\ IsFiniteSet(Ids(batch))
      /\ Cardinality(Ids(batch)) \in Nat /\ batch.next \notin Ids(batch)
      /\ \A l \in 1..Layers : batch.rows[l] \in Nat
  BY IdsFinite DEF GoodBatch, IsBatch
<1>2. CASE Add
  <2>1. Ids(batch') = Ids(batch) \cup {batch.next}
    BY <1>2, AddedGood DEF Add
  <2>2. Cardinality(Ids(batch')) = Cardinality(Ids(batch)) + 1
    BY <1>1, <2>1, FS_AddElement
  <2>3. \A l \in 1..Layers : batch'.rows[l] = batch.rows[l] + 1
    BY <1>2 DEF Add, Added
  <2> QED
    BY <1>1, <2>2, <2>3 DEF Aligned
<1>3. CASE AddFails
  <2>1. PICK n \in FailingLayers : batch' = PartiallyAdded(batch, n)
    BY <1>3 DEF AddFails
  <2>2. n \in Nat
    BY FailingLayersNat
  <2> QED
    BY <2>1, <2>2, NoneLeftBehind
<1>4. CASE Remove
  <2>1. PICK id : batch' = Removed(batch, id)
    BY <1>4 DEF Remove
  <2>2. CASE id \notin Ids(batch)
    BY <2>1, <2>2 DEF Removed
  <2>3. CASE id \in Ids(batch)
    <3>1. Ids(batch') = Ids(batch) \ {id}
      BY <2>1, RemovedGood
    <3>2. Cardinality(Ids(batch')) = Cardinality(Ids(batch)) - 1
      BY <1>1, <2>3, <3>1, FS_RemoveElement
    <3>3. \A l \in 1..Layers : batch'.rows[l] = batch.rows[l] - 1
      BY <2>1, <2>3 DEF Removed
    <3> QED
      BY <1>1, <3>2, <3>3 DEF Aligned
  <2> QED
    BY <2>2, <2>3
<1>5. CASE Step
  BY <1>5 DEF Step
<1>6. CASE StepFails
  <2>1. batch'.rows = batch.rows /\ Ids(batch') = Ids(batch)
    BY <1>6, StepFailedGood DEF StepFails, StepFailed
  <2> QED
    BY <2>1 DEF Aligned
<1>7. CASE UNCHANGED batchVars
  BY <1>7 DEF batchVars
<1> QED
  BY <1>2, <1>3, <1>4, <1>5, <1>6, <1>7 DEF BatchNext

-----------------------------------------------------------------------------
InTime(s) ==
    /\ s.step < MaxGenLen
    /\ s.eosStep # NoEos => s.step <= s.eosStep + FramesAfterEos

LEMMA NotDoneInTime ==
  ASSUME NEW s \in Stream, NEW e, ~Done(s, e)
  PROVE  InTime(Advanced(s, e))
<1> USE BatchAssumption DEF BatchAssumption, Stream, NoEos
<1>1. /\ s.step \in Nat /\ s.eosStep \in Nat \cup {-1}
      /\ Advanced(s, e).step = s.step + 1
      /\ Advanced(s, e).eosStep \in Nat \cup {-1}
  BY DEF Advanced
<1>2. s.step + 1 < MaxGenLen
  BY <1>1 DEF Done
<1>3. Advanced(s, e).eosStep # -1 => s.step < Advanced(s, e).eosStep + FramesAfterEos
  BY <1>1 DEF Done
<1> QED
  BY <1>1, <1>2, <1>3 DEF InTime

\* A stream that stays in the batch still has a frame to make, as long as
\* nothing failed: the step that makes its last frame drops it (batch.rs, step).
THEOREM StreamsInTime == BatchSpec => []NoneOverdue
<1> DEFINE Timely(b) == \A id \in Ids(b) : InTime(b.streams[id])
           Inv == BatchInv /\ (faults = 0 => Timely(batch))
<1>1. BatchInit => Inv
  BY EmptyBatchGood, BatchAssumption DEF BatchInit, BatchInv, BatchAssumption
<1>2. Inv /\ [BatchNext]_batchVars => Inv'
  <2> SUFFICES ASSUME Inv, [BatchNext]_batchVars, faults' = 0 PROVE Timely(batch)'
    BY BatchInvInductive
  <2>0. GoodBatch(batch) /\ IsBatch(batch) /\ batch.streams \in [Ids(batch) -> Stream]
    BY DEF BatchInv, GoodBatch, IsBatch
  <2>7. faults \in Nat
    BY BatchAssumption DEF BatchInv, BatchAssumption
  <2>1. CASE Add
    <3>1. Ids(batch)' = Ids(batch) \cup {batch.next} /\ batch.next \notin Ids(batch)
      BY <2>0, <2>1, AddedGood, IdsFinite DEF Add
    <3>2. \A id \in Ids(batch) : batch'.streams[id] = batch.streams[id]
      BY <2>1, <3>1 DEF Add, Added
    <3>3. batch'.streams[batch.next] = [step |-> 0, eosStep |-> NoEos]
      BY <2>1 DEF Add, Added
    <3>4. InTime([step |-> 0, eosStep |-> NoEos])
      BY BatchAssumption DEF InTime, BatchAssumption
    <3> QED
      BY <2>1, <3>1, <3>2, <3>3, <3>4 DEF Add
  <2>2. CASE AddFails
    BY <2>2, <2>7 DEF AddFails
  <2>3. CASE Remove
    <3>1. PICK id : batch' = Removed(batch, id)
      BY <2>3 DEF Remove
    <3>2. Ids(batch)' = Ids(batch) \ {id}
      BY <2>0, <3>1, RemovedGood
    <3>3. \A i \in Ids(batch) \ {id} : batch'.streams[i] = batch.streams[i]
      BY <3>1 DEF Removed, Restrict
    <3> QED
      BY <2>3, <3>2, <3>3 DEF Remove
  <2>4. CASE Step
    <3>1. PICK eos \in SUBSET Ids(batch) : batch' = Stepped(batch, eos)
      BY <2>4 DEF Step
    <3>2. Ids(batch)' = Ids(batch) \ DoneIds(batch, eos)
      BY <2>0, <3>1, SteppedGood
    <3>3. ASSUME NEW id \in Ids(batch)'
          PROVE  InTime(batch'.streams[id])
      <4>1. id \in Ids(batch) /\ ~Done(batch.streams[id], id \in eos)
        BY <3>2 DEF DoneIds
      <4>2. batch'.streams[id] = Advanced(batch.streams[id], id \in eos)
        BY <3>1, <3>2 DEF Stepped
      <4>3. batch.streams[id] \in Stream
        BY <2>0, <4>1
      <4> QED
        BY <2>4, <4>1, <4>2, <4>3, NotDoneInTime DEF Step
    <3> QED
      BY <3>3
  <2>5. CASE StepFails
    BY <2>5, <2>7 DEF StepFails
  <2>6. CASE UNCHANGED batchVars
    BY <2>6 DEF batchVars
  <2> QED
    BY <2>1, <2>2, <2>3, <2>4, <2>5, <2>6 DEF BatchNext
<1>3. Inv => NoneOverdue
  BY DEF NoneOverdue, InTime
<1> QED
  BY <1>1, <1>2, <1>3, PTL DEF BatchSpec
=============================================================================
