------------------------------- MODULE Batcher -------------------------------
(***************************************************************************)
(* The frame batcher (engine/src/batch.rs): the streams being generated,   *)
(* each advanced by one frame per step, and the stacked caches, one row    *)
(* per stream in every layer of the flow LM.  Tensors are abstracted away: *)
(* a stream is the counters that decide when it ends, a cache is how many  *)
(* rows it holds.  The operators take and return a batch: BatcherSpec lets  *)
(* any caller drive them, Scheduler composes them with the engine thread.  *)
(***************************************************************************)
EXTENDS Integers, FiniteSets, Functions

CONSTANTS
    Layers,          \* layers of the flow LM, each with a stacked cache
    MaxGenLen,       \* frames after which a stream is cut (max_gen_len)
    FramesAfterEos,  \* frames kept after the end-of-speech (frames_after_eos)
    Faults,          \* which operations may fail: a subset of FaultKinds
    MaxFaults        \* bound: failures injected in one behaviour

FaultKinds == {"add", "partial", "step", "frame"}

ASSUME BatchAssumption ==
    /\ Layers \in Nat \ {0}
    /\ MaxGenLen \in Nat \ {0}
    /\ FramesAfterEos \in Nat \ {0}
    /\ Faults \subseteq FaultKinds
    /\ MaxFaults \in Nat

VARIABLES
    batch,   \* the Batcher
    faults   \* failures injected so far

batchVars == <<batch, faults>>

-----------------------------------------------------------------------------
NoEos == -1

Stream == [step : Nat, eosStep : Nat \cup {NoEos}]

\* Streams are pushed in the order of their ids and keep that order when one
\* is removed, so a function from ids to streams stands for the vector.
EmptyBatch == [streams |-> [id \in {} |-> [step |-> 0, eosStep |-> NoEos]],
               rows    |-> [l \in 1..Layers |-> 0],
               next    |-> 0]

Ids(b) == DOMAIN b.streams

IsBatch(b) ==
    /\ b = [streams |-> b.streams, rows |-> b.rows, next |-> b.next]
    /\ b.next \in Nat
    /\ Ids(b) \subseteq 0..(b.next - 1)
    /\ b.streams \in [Ids(b) -> Stream]
    /\ b.rows \in [1..Layers -> Nat]

\* forward_stacked refuses a cache whose rows are not those of the query.
Aligned(b) == \A l \in 1..Layers : b.rows[l] = Cardinality(Ids(b))

CanFail(kind) == kind \in Faults /\ faults < MaxFaults

\* How many layers may have taken their row when Batcher::add fails.
FailingLayers == (IF CanFail("add") THEN {0} ELSE {})
                   \cup (IF CanFail("partial") THEN 1..(Layers - 1) ELSE {})

-----------------------------------------------------------------------------
\* Batcher::add: a row in every layer, then the stream.
Added(b) ==
    [streams |-> [id \in Ids(b) \cup {b.next} |->
                    IF id = b.next THEN [step |-> 0, eosStep |-> NoEos]
                                   ELSE b.streams[id]],
     rows    |-> [l \in 1..Layers |-> b.rows[l] + 1],
     next    |-> b.next + 1]

\* Batcher::add failing while it moves the prompt into the caches, after n
\* layers took their row: those rows stay.  Failing at the prompt is n = 0.
PartiallyAdded(b, n) ==
    [streams |-> b.streams,
     rows    |-> [l \in 1..Layers |-> b.rows[l] + (IF l <= n THEN 1 ELSE 0)],
     next    |-> b.next]

\* Batcher::remove: nothing when the id is not in the batch.
Removed(b, id) ==
    IF id \in Ids(b)
    THEN [streams |-> Restrict(b.streams, Ids(b) \ {id}),
          rows    |-> [l \in 1..Layers |-> b.rows[l] - 1],
          next    |-> b.next]
    ELSE b

-----------------------------------------------------------------------------
\* One frame of stream s; eos is what the flow LM said of that frame.
Advanced(s, eos) ==
    [step    |-> s.step + 1,
     eosStep |-> IF eos /\ s.eosStep = NoEos THEN s.step ELSE s.eosStep]

\* Mutant: one frame too many before the cut.
DoneLate(s, eos) ==
    LET e == Advanced(s, eos).eosStep IN
      \/ e # NoEos /\ s.step >= e + FramesAfterEos
      \/ s.step >= MaxGenLen

Done(s, eos) ==
    LET e == Advanced(s, eos).eosStep IN
      \/ e # NoEos /\ s.step >= e + FramesAfterEos
      \/ s.step + 1 >= MaxGenLen

\* Batcher::step when it succeeds: eos is the set of streams the flow LM says
\* have spoken their text.  The streams that are done leave the batch.
DoneIds(b, eos) == {id \in Ids(b) : Done(b.streams[id], id \in eos)}

Stepped(b, eos) ==
    LET stay == Ids(b) \ DoneIds(b, eos) IN
      [streams |-> [id \in stay |-> Advanced(b.streams[id], id \in eos)],
       rows    |-> [l \in 1..Layers |-> b.rows[l] - Cardinality(DoneIds(b, eos))],
       next    |-> b.next]

\* Batcher::step failing: in the flow LM (moved is empty) or while decoding
\* the frames in parallel, when some streams have already moved on.  No
\* stream is removed, not even one that was done.
StepFailed(b, moved, eos) ==
    [streams |-> [id \in Ids(b) |->
                    IF id \in moved THEN Advanced(b.streams[id], id \in eos)
                                    ELSE b.streams[id]],
     rows    |-> b.rows,
     next    |-> b.next]

-----------------------------------------------------------------------------
BatchInit == batch = EmptyBatch /\ faults = 0
=============================================================================
