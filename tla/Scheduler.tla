------------------------------ MODULE Scheduler ------------------------------
(***************************************************************************)
(* The scheduler of the TTS server (server/src/engine.rs): HTTP handlers   *)
(* submit readings against a pool of slots per class, one engine thread    *)
(* admits them into the batch and hands out the frames of every step, and  *)
(* listeners may leave at any time.  A handler's submission is split where *)
(* other threads can run in between; the engine thread's loop is split at  *)
(* every access to what it shares (the job channel, the slot counters, the *)
(* gauges, the frame channels).                                            *)
(***************************************************************************)
EXTENDS Batcher, Sequences

CONSTANTS
    Job,               \* the readings asked for, each by a request of its own
    Class,             \* {"live", "background"}
    ClassOf,           \* the class of each reading
    Segments,          \* how many sentences each reading has
    Slots,             \* live_slots and background_slots
    FalseStartFrames,  \* FALSE_START_FRAMES
    MaxAttempts        \* MAX_ATTEMPTS

ASSUME SchedulerAssumption ==
    /\ IsFiniteSet(Job)
    /\ Class = {"live", "background"}
    /\ ClassOf \in [Job -> Class]
    /\ Segments \in [Job -> Nat \ {0}]
    /\ Slots \in [Class -> Nat]
    /\ FalseStartFrames \in Nat \ {0}
    /\ MaxAttempts \in Nat \ {0}

VARIABLES
    place,    \* who owns each Job: see Places
    taken,    \* live_taken and background_taken, the admission counters
    queued,   \* the live_queued and background_queued gauges
    gauge,    \* the live_active and background_active gauges
    pc,       \* where the engine thread is in its loop
    reading,  \* the Active record of each reading that is active
    frames,   \* what is left to handle of the last step's frames
    out,      \* what was sent down each reading's frame channel
    left,     \* readings whose listener dropped the receiver
    hurt      \* history: the readings a failure reached

handlerVars == <<place, taken, queued>>
engineVars == <<pc, reading, frames, gauge>>
listenerVars == <<out, left, hurt>>
vars == <<handlerVars, engineVars, listenerVars, batchVars>>

\* Slot and channel of a reading follow its Job:
\*   "new"      not submitted          "granted" slot taken, in submit
\*   "counted"  and its gauge bumped   "channel" sent to the engine
\*   "queue"    in one of the deques   "active"  in the active map
\*   "dropped"  slot given back, its frame channel still open
\*   "closed"   frame channel closed   "refused" answered 503
Places == {"new", "granted", "counted", "channel", "queue", "active",
           "dropped", "closed", "refused"}

\* Frame n of an attempt at a segment, or the mark after the last of them.
SegmentEnd == 0
Piece == [segment : Nat, attempt : Nat, frame : Nat]

Active == [stream : Nat, segment : Nat, attempt : Nat, seen : Nat,
           loud : BOOLEAN, pending : Seq(Piece)]

Frame == [loud : BOOLEAN, done : BOOLEAN]

At(p) == {j \in Job : place[j] = p}
Of(c) == {j \in Job : ClassOf[j] = c}
ActiveOf(c) == At("active") \cap Of(c)

\* Active::new, and what reset_segment clears before another stream is added.
Begin(id, segment, attempt) ==
    [stream |-> id, segment |-> segment, attempt |-> attempt,
     seen |-> 0, loud |-> FALSE, pending |-> <<>>]

NoReading == Begin(0, 1, 1)

-----------------------------------------------------------------------------
Init ==
    /\ BatchInit
    /\ place = [j \in Job |-> "new"]
    /\ taken = [c \in Class |-> 0]
    /\ queued = [c \in Class |-> 0]
    /\ gauge = [c \in Class |-> 0]
    /\ pc = "receive"
    /\ reading = [j \in Job |-> NoReading]
    /\ frames = [id \in {} |-> [loud |-> FALSE, done |-> FALSE]]
    /\ out = [j \in Job |-> <<>>]
    /\ left = {}
    /\ hurt = {}

-----------------------------------------------------------------------------
(* EngineHandle::submit, run by the request's handler. *)

\* Mutant: the counter is read, then bumped, without checking again.
GrantUnchecked(j) ==
    /\ place[j] = "new"
    /\ taken' = [taken EXCEPT ![ClassOf[j]] = @ + 1]
    /\ place' = [place EXCEPT ![j] = "granted"]
    /\ UNCHANGED <<queued, engineVars, listenerVars, batchVars>>

Grant(j) ==
    /\ place[j] = "new"
    /\ taken[ClassOf[j]] < Slots[ClassOf[j]]
    /\ taken' = [taken EXCEPT ![ClassOf[j]] = @ + 1]
    /\ place' = [place EXCEPT ![j] = "granted"]
    /\ UNCHANGED <<queued, engineVars, listenerVars, batchVars>>

\* Mutant: the last slot is never given.
RefuseLastSlot(j) ==
    /\ place[j] = "new"
    /\ taken[ClassOf[j]] + 1 >= Slots[ClassOf[j]]
    /\ place' = [place EXCEPT ![j] = "refused"]
    /\ UNCHANGED <<taken, queued, engineVars, listenerVars, batchVars>>

Refuse(j) ==
    /\ place[j] = "new"
    /\ taken[ClassOf[j]] >= Slots[ClassOf[j]]
    /\ place' = [place EXCEPT ![j] = "refused"]
    /\ UNCHANGED <<taken, queued, engineVars, listenerVars, batchVars>>

CountQueued(j) ==
    /\ place[j] = "granted"
    /\ queued' = [queued EXCEPT ![ClassOf[j]] = @ + 1]
    /\ place' = [place EXCEPT ![j] = "counted"]
    /\ UNCHANGED <<taken, engineVars, listenerVars, batchVars>>

\* The engine thread holds the receiver for as long as a handle exists, so
\* the send cannot fail.
SendJob(j) ==
    /\ place[j] = "counted"
    /\ place' = [place EXCEPT ![j] = "channel"]
    /\ UNCHANGED <<taken, queued, engineVars, listenerVars, batchVars>>

\* The client goes away: the handler, or the body it returned, is dropped and
\* the receiver with it.  submit has no await, so not before it returned.
Leave(j) ==
    /\ place[j] \in {"channel", "queue", "active", "dropped"}
    /\ j \notin left
    /\ left' = left \cup {j}
    /\ UNCHANGED <<out, hurt, handlerVars, engineVars, batchVars>>

-----------------------------------------------------------------------------
(* The engine thread.  Dropping a Job gives its slot back first and closes *)
(* its frame channel last, fields being dropped in order; the thread goes  *)
(* on only when both are done.                                             *)

\* Mutant: the slot is given back by hand as well as by its Drop.
ReleaseTwice(js) ==
    taken' = [c \in Class |-> taken[c] - 2 * Cardinality(js \cap Of(c))]

\* Mutant: one slot of the class is given back, however many readings end.
ReleaseOne(js) ==
    taken' = [c \in Class |-> taken[c] - (IF js \cap Of(c) = {} THEN 0 ELSE 1)]

Release(js) ==
    taken' = [c \in Class |-> taken[c] - Cardinality(js \cap Of(c))]

Drop(js) ==
    /\ Release(js)
    /\ place' = [j \in Job |-> IF j \in js THEN "dropped" ELSE place[j]]
    /\ reading' = [j \in Job |-> IF j \in js THEN NoReading ELSE reading[j]]

Close(j) ==
    /\ place[j] = "dropped"
    /\ place' = [place EXCEPT ![j] = "closed"]
    /\ UNCHANGED <<taken, queued, engineVars, listenerVars, batchVars>>

EngineAt(label) == pc = label /\ At("dropped") = {}

\* recv when idle (it blocks while the channel is empty), recv_timeout(0)
\* when some reading is active; then the queues are filled from try_recv.
Receive(j) ==
    /\ EngineAt("receive")
    /\ place[j] = "channel"
    /\ place' = [place EXCEPT ![j] = "queue"]
    /\ pc' = "drain"
    /\ UNCHANGED <<taken, queued, reading, frames, gauge, listenerVars, batchVars>>

\* Mutant: the engine blocks on the channel whether or not it has readings.
ReceiveBlocking ==
    /\ EngineAt("receive")
    /\ At("channel") = {}
    /\ At("active") = {}
    /\ pc' = "receive"
    /\ UNCHANGED <<handlerVars, reading, frames, gauge, listenerVars, batchVars>>

ReceiveNothing ==
    /\ EngineAt("receive")
    /\ At("channel") = {}
    /\ At("active") # {}
    /\ pc' = "live"
    /\ UNCHANGED <<handlerVars, reading, frames, gauge, listenerVars, batchVars>>

Drain(j) ==
    /\ EngineAt("drain")
    /\ place[j] = "channel"
    /\ place' = [place EXCEPT ![j] = "queue"]
    /\ UNCHANGED <<taken, queued, engineVars, listenerVars, batchVars>>

Drained ==
    /\ EngineAt("drain")
    /\ At("channel") = {}
    /\ pc' = "live"
    /\ UNCHANGED <<handlerVars, reading, frames, gauge, listenerVars, batchVars>>

\* Mutant: off by one, the last slot is never used.
CanStartBelow(c) ==
    /\ Cardinality(ActiveOf(c)) + 1 < Slots[c]
    /\ At("queue") \cap Of(c) # {}
    /\ c = "background" => At("queue") \cap Of("live") = {}

\* The two admission loops: while the class has a slot free and a reading
\* queued, and for background ones only once no live one is queued.
CanStart(c) ==
    /\ Cardinality(ActiveOf(c)) < Slots[c]
    /\ At("queue") \cap Of(c) # {}
    /\ c = "background" => At("queue") \cap Of("live") = {}

\* Mutant: pending is not cleared.
AddStreamUncleared(j, b, segment, attempt) ==
    /\ batch' = Added(b)
    /\ reading' = [reading EXCEPT ![j] =
                     [Begin(b.next, segment, attempt) EXCEPT !.pending = reading[j].pending]]
    /\ place' = [place EXCEPT ![j] = "active"]
    /\ UNCHANGED <<taken, hurt, faults>>

\* Batcher::add for reading j's segment, on batch b; a failure drops j.
AddStream(j, b, segment, attempt) ==
    /\ batch' = Added(b)
    /\ reading' = [reading EXCEPT ![j] = Begin(b.next, segment, attempt)]
    /\ place' = [place EXCEPT ![j] = "active"]
    /\ UNCHANGED <<taken, hurt, faults>>

AddStreamFails(j, b) ==
    /\ \E n \in FailingLayers : batch' = PartiallyAdded(b, n)
    /\ faults' = faults + 1
    /\ hurt' = hurt \cup {j}
    /\ Drop({j})

Start(j) ==
    LET c == ClassOf[j] IN
      /\ EngineAt(c)
      /\ place[j] = "queue"
      /\ CanStart(c)
      /\ queued' = [queued EXCEPT ![c] = @ - 1]
      /\ AddStream(j, batch, 1, 1) \/ AddStreamFails(j, batch)
      /\ UNCHANGED <<pc, frames, gauge, out, left>>

LiveStarted ==
    /\ EngineAt("live")
    /\ ~CanStart("live")
    /\ pc' = "background"
    /\ UNCHANGED <<handlerVars, reading, frames, gauge, listenerVars, batchVars>>

ShowActive == gauge' = [c \in Class |-> Cardinality(ActiveOf(c))]

BackgroundStarted ==
    /\ EngineAt("background")
    /\ ~CanStart("background")
    /\ ShowActive
    /\ pc' = IF At("active") = {} THEN "receive" ELSE "step"
    /\ UNCHANGED <<handlerVars, reading, frames, listenerVars, batchVars>>

-----------------------------------------------------------------------------
StepBatch ==
    /\ EngineAt("step")
    /\ Aligned(batch)
    /\ \E eos \in SUBSET Ids(batch), loud \in SUBSET Ids(batch) :
         /\ batch' = Stepped(batch, eos)
         /\ frames' = [id \in Ids(batch) |->
                         [loud |-> id \in loud, done |-> id \in DoneIds(batch, eos)]]
    /\ pc' = "frames"
    /\ UNCHANGED <<handlerVars, reading, gauge, listenerVars, faults>>

\* active.clear(), then back to the top without touching the gauges.
StepBatchFails ==
    /\ EngineAt("step")
    /\ \/ /\ CanFail("step")
          /\ \E moved \in SUBSET Ids(batch) :
               \E eos \in SUBSET moved : batch' = StepFailed(batch, moved, eos)
          /\ faults' = faults + 1
       \/ ~Aligned(batch) /\ UNCHANGED batchVars
    /\ hurt' = hurt \cup At("active")
    /\ Drop(At("active"))
    /\ pc' = "receive"
    /\ UNCHANGED <<queued, frames, gauge, out, left>>

-----------------------------------------------------------------------------
(* The frames of a step, handled in the order of their streams. *)

NextFrame(id) == id \in DOMAIN frames /\ \A k \in DOMAIN frames : id <= k

\* The reading that the frame of stream id belongs to; none when the stream
\* was left in the batch by a reading that is gone.
Reads(j, id) == place[j] = "active" /\ reading[j].stream = id

Hear(a, f) == [a EXCEPT !.seen = @ + 1, !.loud = @ \/ f.loud]

\* silent_start or silent_end, with an attempt left.
FalseStart(a, f) ==
    /\ a.seen >= FalseStartFrames \/ f.done
    /\ ~a.loud
    /\ a.attempt < MaxAttempts

\* Whether what is pending goes out with this frame.
Speaks(a, f) == a.loud \/ a.seen >= FalseStartFrames \/ f.done

Push(a) ==
    Append(a.pending,
           [segment |-> a.segment, attempt |-> a.attempt, frame |-> a.seen])

EndOf(a) ==
    <<[segment |-> a.segment, attempt |-> a.attempt, frame |-> SegmentEnd]>>

\* Mutant: the segment before the last ends the reading.
MoreButLast(j, a) == a.segment + 1 < Segments[j]

More(j, a) == a.segment < Segments[j]

\* Mutant: the stream is left in the batch.
WithStream(id, f) == batch

\* The batch once the stream of the frame is out of it: Batcher::step has
\* dropped it already when the frame says done.
WithoutStream(id, f) == IF f.done THEN batch ELSE Removed(batch, id)

\* Takes the frame out of those left to handle.
Handle(id) ==
    /\ EngineAt("frames")
    /\ NextFrame(id)
    /\ frames' = Restrict(frames, DOMAIN frames \ {id})
    /\ UNCHANGED <<pc, gauge, queued, left>>

SkipFrame(id) ==
    /\ Handle(id)
    /\ \A j \in Job : ~Reads(j, id)
    /\ UNCHANGED <<place, taken, reading, out, hurt, batchVars>>

\* A frame whose samples cannot be read drops the reading, not its stream.
BadFrame(j, id) ==
    /\ Handle(id)
    /\ Reads(j, id)
    /\ CanFail("frame")
    /\ faults' = faults + 1
    /\ hurt' = hurt \cup {j}
    /\ Drop({j})
    /\ UNCHANGED <<out, batch>>

ReadAgain(j, id) ==
    LET f == frames[id]
        a == Hear(reading[j], f) IN
      /\ Handle(id)
      /\ Reads(j, id)
      /\ FalseStart(a, f)
      /\ \/ AddStream(j, WithoutStream(id, f), a.segment, a.attempt + 1)
         \/ AddStreamFails(j, WithoutStream(id, f))
      /\ UNCHANGED out

\* Quiet so far: the frame waits with the others of its attempt.
HoldFrame(j, id) ==
    LET f == frames[id]
        a == Hear(reading[j], f) IN
      /\ Handle(id)
      /\ Reads(j, id)
      /\ ~FalseStart(a, f) /\ ~Speaks(a, f)
      /\ reading' = [reading EXCEPT ![j] = [a EXCEPT !.pending = Push(a)]]
      /\ UNCHANGED <<place, taken, out, hurt, batchVars>>

\* Sending to a listener who left fails: the stream is taken out of the
\* batch and the reading dropped.
ListenerLeft(j, id) ==
    LET f == frames[id]
        a == Hear(reading[j], f) IN
      /\ Handle(id)
      /\ Reads(j, id)
      /\ ~FalseStart(a, f) /\ Speaks(a, f)
      /\ j \in left
      /\ batch' = WithoutStream(id, f)
      /\ Drop({j})
      /\ UNCHANGED <<out, hurt, faults>>

SendFrames(j, id) ==
    LET f == frames[id]
        a == Hear(reading[j], f) IN
      /\ Handle(id)
      /\ Reads(j, id)
      /\ ~FalseStart(a, f) /\ Speaks(a, f)
      /\ j \notin left
      /\ ~f.done
      /\ out' = [out EXCEPT ![j] = @ \o Push(a)]
      /\ reading' = [reading EXCEPT ![j] = [a EXCEPT !.pending = <<>>]]
      /\ UNCHANGED <<place, taken, hurt, batchVars>>

\* The last frame of a segment, its end mark, then the next segment or, the
\* reading being done, its Job dropped.  A listener who leaves between the
\* two sends ends the reading as ListenerLeft does, the stream being gone.
EndSegment(j, id) ==
    LET f == frames[id]
        a == Hear(reading[j], f) IN
      /\ Handle(id)
      /\ Reads(j, id)
      /\ ~FalseStart(a, f)
      /\ j \notin left
      /\ f.done
      /\ out' = [out EXCEPT ![j] = @ \o Push(a) \o EndOf(a)]
      /\ IF More(j, a)
         THEN \/ AddStream(j, batch, a.segment + 1, 1)
              \/ AddStreamFails(j, batch)
         ELSE Drop({j}) /\ UNCHANGED <<hurt, batchVars>>

FramesDone ==
    /\ EngineAt("frames")
    /\ DOMAIN frames = {}
    /\ ShowActive
    /\ pc' = "receive"
    /\ UNCHANGED <<handlerVars, reading, frames, listenerVars, batchVars>>

-----------------------------------------------------------------------------
Submit(j) == Grant(j) \/ Refuse(j) \/ CountQueued(j) \/ SendJob(j)

FrameOf(j, id) ==
    \/ BadFrame(j, id) \/ ReadAgain(j, id) \/ HoldFrame(j, id)
    \/ ListenerLeft(j, id) \/ SendFrames(j, id) \/ EndSegment(j, id)

Engine ==
    \/ \E j \in Job : Close(j) \/ Receive(j) \/ Drain(j) \/ Start(j)
    \/ ReceiveNothing \/ Drained \/ LiveStarted \/ BackgroundStarted
    \/ StepBatch \/ StepBatchFails \/ FramesDone
    \/ \E id \in DOMAIN frames :
         SkipFrame(id) \/ \E j \in Job : FrameOf(j, id)

Next == Engine \/ \E j \in Job : Submit(j) \/ Leave(j)

\* The engine thread runs while it has something to do, and a handler that
\* took a slot runs submit to its end: it does not wait for anything.  No
\* request need be made, no listener need leave.
Fairness ==
    /\ WF_vars(Engine)
    /\ \A j \in Job : WF_vars(CountQueued(j) \/ SendJob(j))

Spec == Init /\ [][Next]_vars

FairSpec == Spec /\ Fairness

-----------------------------------------------------------------------------
(* Properties *)

\* The shape of every variable, and the counters' domains: no gauge or slot
\* counter (all unsigned in the code) ever wraps below zero.
TypeOK ==
    /\ IsBatch(batch) /\ faults \in 0..MaxFaults
    /\ place \in [Job -> Places]
    /\ taken \in [Class -> Nat]
    /\ queued \in [Class -> Nat]
    /\ gauge \in [Class -> Nat]
    /\ pc \in {"receive", "drain", "live", "background", "step", "frames"}
    /\ reading \in [Job -> Active]
    /\ frames \in [DOMAIN frames -> Frame] /\ DOMAIN frames \subseteq Nat
    /\ out \in [Job -> Seq(Piece)]
    /\ left \in SUBSET Job /\ hurt \in SUBSET Job

HoldingSlot == {"granted", "counted", "channel", "queue", "active"}
Holders(c) == {j \in Of(c) : place[j] \in HoldingSlot}

\* A slot is held from admission to the end of the reading whatever ends it
\* (engine.rs, Slot): the counter is the number of readings between the two,
\* and never above the class's slots.  The queued gauges count the readings on
\* their way to the batch.
CountersExact ==
    \A c \in Class :
      /\ taken[c] = Cardinality(Holders(c)) /\ taken[c] <= Slots[c]
      /\ queued[c] = Cardinality({j \in Of(c) : place[j] \in {"counted", "channel", "queue"}})

\* An admitted reading is never left in a deque: the engine has started every
\* one it received before it steps the batch or blocks on the channel, so no
\* reading waits for another one's frames ("refused at once rather than
\* queued"), and no live one for a background one.
NothingWaits ==
    /\ At("queue") # {} => pc \in {"drain", "live", "background"}
    /\ At("queue") \cap Of("live") # {} => pc # "background"

Streams == {reading[j].stream : j \in At("active")}

\* Two active readings never share a stream, and an active reading has its
\* stream in the batch, or the last frame of it still to be handled: none
\* waits for frames that will not come.  As long as nothing fails the batch
\* holds no other stream: whoever leaves or starts again takes its own out.
StreamsMatchReadings ==
    /\ \A i, j \in At("active") : reading[i].stream = reading[j].stream => i = j
    /\ Streams \subseteq Ids(batch) \cup {id \in DOMAIN frames : frames[id].done}
    /\ faults = 0 => Ids(batch) \subseteq Streams

Follows(p, q) ==
    IF p.frame = SegmentEnd
    THEN q.segment = p.segment + 1 /\ q.frame = 1
    ELSE /\ q.segment = p.segment
         /\ q.attempt = p.attempt
         /\ q.frame \in {p.frame + 1, SegmentEnd}

\* A listener is sent the segments in order, each as the frames of a single
\* attempt without a gap and then its end mark: nothing of a false start, no
\* frame twice, none of another segment (the pending frames of run).
ReadInOrder ==
    \A j \in Job :
      /\ out[j] # <<>> => out[j][1].segment = 1 /\ out[j][1].frame = 1
      /\ \A i \in 2..Len(out[j]) : Follows(out[j][i - 1], out[j][i])

LastPiece(j) == out[j][Len(out[j])]

\* The frame channel is "dropped when it is complete" (engine.rs, Job): a
\* listener who stayed and sees it closed was sent every segment to its end,
\* unless a failure reached this very reading.  One that ended others, or left
\* their streams in the batch, cuts nothing short.
ClosedIsComplete ==
    \A j \in At("closed") \ (left \cup hurt) :
      /\ out[j] # <<>>
      /\ LastPiece(j).segment = Segments[j]
      /\ LastPiece(j).frame = SegmentEnd

Status == [j \in Job |->
             CASE place[j] \in HoldingSlot -> "held"
               [] place[j] = "dropped" -> "released"
               [] place[j] = "closed" -> "ended"
               [] OTHER -> place[j]]

A == INSTANCE Admission WITH status <- Status

\* The scheduler keeps admission's promise.
KeepsAdmission == A!Spec

\* Every reading admitted is over at last, its slot given back and its frame
\* channel closed, whatever the model says or fails at and whoever leaves.
EveryReadingEnds ==
    \A j \in Job : place[j] = "granted" ~> place[j] = "closed"
=============================================================================
