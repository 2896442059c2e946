------------------------------ MODULE CrawlJobs ------------------------------
(***************************************************************************)
(* Crawl jobs (core/internal/crawl/job.go) over the store and the work     *)
(* queue the replicas share (nats.go), and a caller who pages through what *)
(* a job has produced (core/internal/httpapi/crawl.go).  A runner stops    *)
(* wherever it calls the store or the queue: each call may fail, with its  *)
(* effect or without, and a replica may die between two of them.  The walk *)
(* itself is module Walk's: it emits every page of its site once.          *)
(***************************************************************************)
EXTENDS Naturals, FiniteSets

CONSTANTS
    Job, Replica,
    Site,        \* the pages a walk of the job's site reads, MaxPages at most
    MaxDeliver,  \* MaxDeliver of the consumer
    PageLimit,   \* the pages of one status answer
    MaxFaults    \* bound: the failures of a behaviour

ASSUME CrawlAssumption ==
    /\ IsFiniteSet(Job) /\ IsFiniteSet(Replica)
    /\ DOMAIN Site = Job /\ \A j \in Job : IsFiniteSet(Site[j])
    /\ MaxDeliver \in Nat \ {0} /\ PageLimit \in Nat \ {0}
    /\ MaxFaults \in Nat

VARIABLES
    record,   \* the job records of the store: status, Pages + Failed
    stored,   \* the pages of each job by their number
    message,  \* what the queue holds of each job, and how often it delivered it
    runner,   \* what each replica is doing
    view,     \* what a caller knows of each job
    faults,   \* bound: the failures so far
    missed    \* whether the queue has missed a live runner's InProgress

store == <<record, stored>>
vars == <<store, message, runner, view, faults, missed>>

Page == UNION {Site[j] : j \in Job}

Statuses == {"none", "queued", "running", "done"}
Record == [status : Statuses, count : Nat]

\* "none" not queued, "failed" refused by the queue, "ready" to be delivered,
\* "out" delivered and not answered yet, "acked" and forgotten.
Message == [state : {"none", "failed", "ready", "out", "acked"}, tries : Nat]

\* Where execute is: before its Get, its first touch, a page of the walk, the
\* touch after the page, finish, or answering the queue.  job, count and seq
\* are its local variables, walked the pages its walk has emitted.
Labels == {"get", "start", "walk", "touch", "finish", "ack", "nak"}

Idle == [pc |-> "idle"]
Running == [pc : Labels, job : Job, count : Nat, seq : Nat, walked : SUBSET Page]

\* A caller follows next from offset 0 until an answer has none.
View == [pc : {"record", "pages", "ended"}, status : Statuses, count : Nat, offset : Nat]

Busy(r) == runner[r] # Idle
Runners(j) == {r \in Replica : Busy(r) /\ runner[r].job = j}
At(r, label) == Busy(r) /\ runner[r].pc = label

Init ==
    /\ record = [j \in Job |-> [status |-> "none", count |-> 0]]
    /\ stored = [j \in Job |-> [n \in {} |-> n]]
    /\ message = [j \in Job |-> [state |-> "none", tries |-> 0]]
    /\ runner = [r \in Replica |-> Idle]
    /\ view = [j \in Job |-> [pc |-> "record", status |-> "none", count |-> 0, offset |-> 0]]
    /\ faults = 0
    /\ missed = FALSE

CanFail == faults < MaxFaults

-----------------------------------------------------------------------------
(* Submit, in the replica that was asked. *)

SubmitPut(j) ==
    /\ record[j].status = "none"
    /\ record' = [record EXCEPT ![j].status = "queued"]
    /\ UNCHANGED <<stored, message, runner, view, faults, missed>>

SubmitEnqueue(j) ==
    /\ record[j].status = "queued"
    /\ message[j].state = "none"
    /\ \/ message' = [message EXCEPT ![j].state = "ready"] /\ UNCHANGED faults
       \/ /\ CanFail
          /\ message' = [message EXCEPT ![j].state = "failed"]
          /\ faults' = faults + 1
    /\ UNCHANGED <<store, runner, view, missed>>

-----------------------------------------------------------------------------
(* The queue. *)

\* Mutant: off by one.
DeliverableBelow(j) == message[j].state = "ready" /\ message[j].tries + 1 < MaxDeliver

Deliverable(j) == message[j].state = "ready" /\ message[j].tries < MaxDeliver

Deliver(r, j) ==
    /\ ~Busy(r)
    /\ Deliverable(j)
    /\ message' = [message EXCEPT ![j].state = "out", ![j].tries = @ + 1]
    /\ runner' = [runner EXCEPT ![r] =
                    [pc |-> "get", job |-> j, count |-> 0, seq |-> 0, walked |-> {}]]
    /\ UNCHANGED <<store, view, faults, missed>>

\* Mutant: the runner does not tell the queue it is alive.
ExpireRunning(j) ==
    /\ message[j].state = "out"
    /\ message' = [message EXCEPT ![j].state = "ready"]
    /\ UNCHANGED <<store, runner, view, faults, missed>>

\* ackWait has passed: the runner is gone, or its InProgress did not arrive.
Expire(j) ==
    /\ message[j].state = "out"
    /\ \/ Runners(j) = {} /\ UNCHANGED <<faults, missed>>
       \/ /\ Runners(j) # {}
          /\ CanFail
          /\ faults' = faults + 1 /\ missed' = TRUE
    /\ message' = [message EXCEPT ![j].state = "ready"]
    /\ UNCHANGED <<store, runner, view>>

-----------------------------------------------------------------------------
(* execute and work, in the replica the job was delivered to. *)

\* The call of the store returned, its effect being there; or it failed all
\* the same, and execute returns the error.
Goes(r, new) ==
    \/ runner' = [runner EXCEPT ![r] = new] /\ UNCHANGED faults
    \/ /\ CanFail
       /\ runner' = [runner EXCEPT ![r] = [new EXCEPT !.pc = "nak"]]
       /\ faults' = faults + 1

\* Mutant: the pages of a job are numbered from one.
FirstSeqFromOne(rec) == rec.count + 1

FirstSeq(rec) == rec.count

Get(r) ==
    LET a == runner[r]
        rec == record[a.job] IN
      /\ At(r, "get")
      /\ Goes(r, IF rec.status = "done" THEN [a EXCEPT !.pc = "ack"]
                 ELSE [a EXCEPT !.pc = "start", !.count = rec.count, !.seq = FirstSeq(rec)])
      /\ UNCHANGED <<store, message, view, missed>>

\* Store.Put of the job as the runner has it.
Put(r, status) ==
    record' = [record EXCEPT ![runner[r].job] =
                 [status |-> status, count |-> runner[r].count]]

Begin(r) ==
    /\ At(r, "start")
    /\ Put(r, "running")
    /\ Goes(r, [runner[r] EXCEPT !.pc = "walk"])
    /\ UNCHANGED <<stored, message, view, missed>>

AddPage(j, seq, p) ==
    stored' = [stored EXCEPT ![j] =
                 [n \in DOMAIN @ \cup {seq} |-> IF n = seq THEN p ELSE @[n]]]

Emitted(a, p) ==
    [a EXCEPT !.pc = "touch", !.count = @ + 1, !.seq = @ + 1, !.walked = @ \cup {p}]

\* The walk emits page p: it is counted, then stored.
Emit(r, p) ==
    LET a == runner[r] IN
      /\ At(r, "walk")
      /\ p \in Site[a.job] \ a.walked
      /\ AddPage(a.job, a.seq, p)
      /\ Goes(r, Emitted(a, p))
      /\ UNCHANGED <<record, message, view, missed>>

Touch(r) ==
    /\ At(r, "touch")
    /\ Put(r, "running")
    /\ Goes(r, [runner[r] EXCEPT !.pc = "walk"])
    /\ UNCHANGED <<stored, message, view, missed>>

WalkDone(r) ==
    /\ At(r, "walk")
    /\ runner[r].walked = Site[runner[r].job]
    /\ runner' = [runner EXCEPT ![r].pc = "finish"]
    /\ UNCHANGED <<store, message, view, faults, missed>>

Finish(r) ==
    /\ At(r, "finish")
    /\ Put(r, "done")
    /\ Goes(r, [runner[r] EXCEPT !.pc = "ack"])
    /\ UNCHANGED <<stored, message, view, missed>>

\* Mutant: the error of the store is dropped and the job finished.
StoreErrDropped(r) ==
    /\ Busy(r) /\ runner[r].pc \in {"get", "start", "walk", "touch", "finish"}
    /\ CanFail
    /\ faults' = faults + 1
    /\ runner' = [runner EXCEPT ![r].pc = IF @ = "walk" THEN "finish" ELSE "nak"]
    /\ UNCHANGED <<store, message, view, missed>>

\* The call of the store fails without effect, or ctx has ended.
StoreFails(r) ==
    /\ Busy(r) /\ runner[r].pc \in {"get", "start", "walk", "touch", "finish"}
    /\ CanFail
    /\ faults' = faults + 1
    /\ runner' = [runner EXCEPT ![r].pc = "nak"]
    /\ UNCHANGED <<store, message, view, missed>>

Ack(r) ==
    /\ At(r, "ack")
    /\ message' = [message EXCEPT ![runner[r].job].state = "acked"]
    /\ runner' = [runner EXCEPT ![r] = Idle]
    /\ UNCHANGED <<store, view, faults, missed>>

\* The queue has the job back, if it still waits for an answer.
Nak(r) ==
    /\ At(r, "nak")
    /\ message' = [message EXCEPT ![runner[r].job].state = IF @ = "out" THEN "ready" ELSE @]
    /\ runner' = [runner EXCEPT ![r] = Idle]
    /\ UNCHANGED <<store, view, faults, missed>>

\* The replica dies, or its answer is lost.
Crash(r) ==
    /\ Busy(r)
    /\ CanFail
    /\ faults' = faults + 1
    /\ runner' = [runner EXCEPT ![r] = Idle]
    /\ UNCHANGED <<store, message, view, missed>>

-----------------------------------------------------------------------------
(* The caller: a status answer reads the record, then the pages. *)

ReadRecord(j) ==
    /\ view[j].pc = "record"
    /\ message[j].state \notin {"none", "failed"}
    /\ view' = [view EXCEPT ![j].pc = "pages",
                            ![j].status = record[j].status,
                            ![j].count = record[j].count]
    /\ UNCHANGED <<store, message, runner, faults, missed>>

\* Pages stops at the first number missing.
Given(j, offset) ==
    {n \in offset..(offset + PageLimit - 1) : offset..n \subseteq DOMAIN stored[j]}

\* Mutant: off by one.
HasNextBelow(v, n) == n = PageLimit /\ v.offset + n + 1 < v.count

HasNext(v, n) == n = PageLimit /\ v.offset + n < v.count

ReadPages(j) ==
    LET v == view[j]
        n == Cardinality(Given(j, v.offset)) IN
      /\ v.pc = "pages"
      /\ view' = [view EXCEPT ![j].pc = IF HasNext(v, n) THEN "record" ELSE "ended",
                              ![j].offset = @ + n]
      /\ UNCHANGED <<store, message, runner, faults, missed>>

-----------------------------------------------------------------------------
Queue(j) == Expire(j) \/ \E r \in Replica : Deliver(r, j)

Works(r) ==
    \/ Get(r) \/ Begin(r) \/ Touch(r) \/ WalkDone(r) \/ Finish(r) \/ Ack(r) \/ Nak(r)
    \/ \E p \in Page : Emit(r, p)

Next ==
    \/ \E j \in Job : SubmitPut(j) \/ SubmitEnqueue(j) \/ Queue(j)
    \/ \E r \in Replica : Works(r) \/ StoreFails(r) \/ Crash(r)
    \/ \E j \in Job : ReadRecord(j) \/ ReadPages(j)

\* The queue delivers what it may deliver, and a runner that neither fails
\* nor dies goes on: a walk ends (WalkEnds of module Walk).
Fairness ==
    /\ \A j \in Job : WF_vars(Queue(j))
    /\ \A r \in Replica : WF_vars(Works(r))

Spec == Init /\ [][Next]_vars

FairSpec == Spec /\ Fairness

-----------------------------------------------------------------------------
(* Properties *)

\* The shape of every variable.
TypeOK ==
    /\ record \in [Job -> Record]
    /\ DOMAIN stored = Job
    /\ \A j \in Job : stored[j] \in [DOMAIN stored[j] -> Page] /\ DOMAIN stored[j] \subseteq Nat
    /\ message \in [Job -> Message]
    /\ \A j \in Job : message[j].tries <= MaxDeliver
    /\ runner \in [Replica -> Running \cup {Idle}]
    /\ view \in [Job -> View]
    /\ faults \in 0..MaxFaults
    /\ missed \in BOOLEAN

\* "A job's pages are numbered without gaps" (nats.go, Pages) and no more of
\* them are counted than are stored, so that next (crawl.go) never leads to a
\* page that is not there, whoever died or failed between storing and counting,
\* and however many run the job.
NoGaps ==
    \A j \in Job :
      /\ \A n \in DOMAIN stored[j] : 0..n \subseteq DOMAIN stored[j]
      /\ 0..record[j].count \subseteq DOMAIN stored[j] \cup {record[j].count}

\* "A job is delivered to one replica" (nats.go, NATSQueue), as long as the
\* queue hears every runner.
OneRunner == ~missed => \A j \in Job : Cardinality(Runners(j)) <= 1

\* As long as the queue hears every runner, it forgets a job only when it is
\* done, and a job is done only with every page of its site among its pages,
\* however many runners died half-way (job.go, execute).
DoneIsWhole ==
    ~missed => \A j \in Job :
      /\ message[j].state = "acked" => record[j].status = "done"
      /\ record[j].status = "done" =>
           \A p \in Site[j] : \E n \in DOMAIN stored[j] : stored[j][n] = p

\* A job that is done is never seen otherwise again, as long as the queue
\* hears every runner.
DoneStays ==
    [][~missed' => \A j \in Job : record[j].status = "done" => record'[j] = record[j]]_vars

\* A caller whose last answer said done was given every page that counts, as
\* long as the queue hears every runner.
PagedWhole ==
    ~missed => \A j \in Job : view[j].pc = "ended" /\ view[j].status = "done" =>
      view[j].offset >= record[j].count

\* A job that is queued is done at last, as long as the queue hears every
\* runner and fewer things go wrong than there are deliveries.
EveryJobEnds ==
    \A j \in Job :
      message[j].state = "ready" ~>
        record[j].status = "done" \/ missed \/ faults >= MaxDeliver
=============================================================================
