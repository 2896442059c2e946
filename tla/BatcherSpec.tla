----------------------------- MODULE BatcherSpec -----------------------------
(***************************************************************************)
(* The batcher of engine/src/batch.rs under any caller: one action per     *)
(* public method and, for each that returns a Result, one for its failure. *)
(***************************************************************************)
EXTENDS Batcher

CONSTANT MaxStreams  \* bound: streams added in one behaviour

ASSUME MaxStreamsAssumption == MaxStreams \in Nat

Add ==
    /\ batch.next < MaxStreams
    /\ batch' = Added(batch)
    /\ UNCHANGED faults

AddFails ==
    /\ \E n \in FailingLayers : batch' = PartiallyAdded(batch, n)
    /\ faults' = faults + 1

Remove ==
    /\ \E id \in 0..(batch.next - 1) : batch' = Removed(batch, id)
    /\ UNCHANGED faults

Step ==
    /\ Ids(batch) # {}
    /\ Aligned(batch)
    /\ \E eos \in SUBSET Ids(batch) : batch' = Stepped(batch, eos)
    /\ UNCHANGED faults

StepFails ==
    /\ Ids(batch) # {}
    /\ CanFail("step")
    /\ \E moved \in SUBSET Ids(batch) :
         \E eos \in SUBSET moved : batch' = StepFailed(batch, moved, eos)
    /\ faults' = faults + 1

BatchNext == Add \/ AddFails \/ Remove \/ Step \/ StepFails

BatchSpec == BatchInit /\ [][BatchNext]_batchVars

-----------------------------------------------------------------------------
\* Types, and the counters' domains, of the batcher and of its caller's faults.
BatchTypeOK == IsBatch(batch) /\ faults \in 0..MaxFaults

\* A stream that stays in the batch still has a frame to make: a done one was
\* dropped by the very step that made its last frame (batch.rs, step).  A step
\* that failed drops none: its streams end in the next one.
NoneOverdue ==
    faults = 0 => \A id \in Ids(batch) :
      LET s == batch.streams[id] IN
        /\ s.step < MaxGenLen
        /\ s.eosStep # NoEos => s.step <= s.eosStep + FramesAfterEos
=============================================================================
