----------------------------- MODULE CrawlProofs -----------------------------
(***************************************************************************)
(* Theorems about crawling: the jobs and what their callers are given, for *)
(* any number of jobs, replicas, pages, deliveries and failures; the walk  *)
(* of a site and the list of its pages, for any site; and one page: which  *)
(* way it is read (ReadPage) and when it is taken for settled (Renderer).  *)
(***************************************************************************)
EXTENDS CrawlJobs, SiteMap, ReadPage, Renderer, FiniteSetTheorems, TLAPS

-----------------------------------------------------------------------------
(* The shapes of what the actions make. *)

LEMMA RunnerType ==
  ASSUME TypeOK, NEW r \in Replica, Busy(r)
  PROVE  /\ runner[r] \in Running
         /\ runner[r].pc \in Labels /\ runner[r].job \in Job
         /\ runner[r].count \in Nat /\ runner[r].seq \in Nat
         /\ runner[r].walked \subseteq Page
<1>1. runner[r] \in Running
  BY DEF TypeOK, Busy
<1> QED
  BY <1>1 DEF Running

LEMMA RunningIsBusy ==
  ASSUME NEW a \in Running
  PROVE  a # Idle
BY DEF Running, Idle, Labels

LEMMA RelabelType ==
  ASSUME NEW a \in Running, NEW label \in Labels
  PROVE  [a EXCEPT !.pc = label] \in Running
BY DEF Running

LEMMA GoesType ==
  ASSUME TypeOK, CrawlAssumption, NEW r \in Replica, NEW new \in Running, Goes(r, new)
  PROVE  /\ runner' \in [Replica -> Running \cup {Idle}]
         /\ faults' \in 0..MaxFaults
<1>1. runner \in [Replica -> Running \cup {Idle}] /\ faults \in 0..MaxFaults /\ MaxFaults \in Nat
  BY CrawlAssumption DEF TypeOK, CrawlAssumption
<1>2. [new EXCEPT !.pc = "nak"] \in Running
  BY RelabelType DEF Labels
<1>3. runner' \in [Replica -> Running \cup {Idle}]
  BY <1>1, <1>2 DEF Goes
<1>4. faults' \in 0..MaxFaults
  BY <1>1 DEF Goes, CanFail
<1> QED
  BY <1>3, <1>4

LEMMA EmittedIs ==
  ASSUME NEW a \in Running, NEW p \in Page
  PROVE  /\ Emitted(a, p) \in Running /\ Emitted(a, p).pc = "touch"
         /\ Emitted(a, p).job = a.job /\ Emitted(a, p).count = a.count + 1
         /\ Emitted(a, p).seq = a.seq + 1
         /\ Emitted(a, p).walked = a.walked \cup {p}
<1>1. PICK n \in Nat : n = a.count + 1
  BY DEF Running
<1>2. PICK m \in Nat : m = a.seq + 1
  BY DEF Running
<1>3. PICK w \in SUBSET Page : w = a.walked \cup {p}
  BY DEF Running
<1>4. Emitted(a, p) = [a EXCEPT !.pc = "touch", !.count = n, !.seq = m, !.walked = w]
  BY <1>1, <1>2, <1>3 DEF Emitted
<1>5. ASSUME NEW b, b = [a EXCEPT !.pc = "touch", !.count = n, !.seq = m, !.walked = w]
      PROVE  /\ b \in Running /\ b.pc = "touch" /\ b.job = a.job
             /\ b.count = n /\ b.seq = m /\ b.walked = w
  BY <1>5 DEF Running, Labels
<1> QED
  BY <1>1, <1>2, <1>3, <1>4, <1>5

LEMMA RecordType ==
  ASSUME TypeOK, NEW r \in Replica, Busy(r), NEW s \in Statuses, Put(r, s)
  PROVE  record' \in [Job -> Record]
<1>1. record \in [Job -> Record]
  BY DEF TypeOK
<1>2. [status |-> s, count |-> runner[r].count] \in Record
  BY RunnerType DEF Record
<1> QED
  BY <1>1, <1>2 DEF Put

LEMMA IdledType ==
  ASSUME TypeOK, NEW r \in Replica, runner' = [runner EXCEPT ![r] = Idle]
  PROVE  runner' \in [Replica -> Running \cup {Idle}]
BY DEF TypeOK

LEMMA MessageType ==
  ASSUME TypeOK, NEW j \in Job, NEW s \in {"none", "failed", "ready", "out", "acked"},
         message' = [message EXCEPT ![j].state = s]
  PROVE  message' \in [Job -> Message] /\ \A i \in Job : message'[i].tries <= MaxDeliver
<1>1. message \in [Job -> Message] /\ \A i \in Job : message[i].tries <= MaxDeliver
  BY DEF TypeOK
<1>2. [message[j] EXCEPT !.state = s] \in Message
      /\ [message[j] EXCEPT !.state = s].tries = message[j].tries
  BY <1>1 DEF Message
<1>3. message' = [message EXCEPT ![j] = [message[j] EXCEPT !.state = s]]
  OBVIOUS
<1> QED
  BY <1>1, <1>2, <1>3

-----------------------------------------------------------------------------
(* Every action keeps the types. *)

LEMMA InitType == Init => TypeOK
<1> SUFFICES ASSUME Init PROVE TypeOK
  OBVIOUS
<1>1. record \in [Job -> Record]
  BY DEF Init, Record, Statuses
<1>2. /\ DOMAIN stored = Job
      /\ \A j \in Job : stored[j] \in [DOMAIN stored[j] -> Page] /\ DOMAIN stored[j] \subseteq Nat
  BY DEF Init
<1>3. message \in [Job -> Message] /\ \A j \in Job : message[j].tries <= MaxDeliver
  BY CrawlAssumption DEF Init, Message, CrawlAssumption
<1>4. runner \in [Replica -> Running \cup {Idle}]
  BY DEF Init
<1>5. view \in [Job -> View]
  BY DEF Init, View, Statuses
<1>6. faults \in 0..MaxFaults
  BY CrawlAssumption DEF Init, CrawlAssumption
<1> QED
  BY <1>1, <1>2, <1>3, <1>4, <1>5, <1>6 DEF Init, TypeOK

LEMMA SubmitType ==
  ASSUME TypeOK, NEW j \in Job, SubmitPut(j) \/ SubmitEnqueue(j)
  PROVE  TypeOK'
<1>1. CASE SubmitPut(j)
  <2>1. record' \in [Job -> Record]
    <3>1. record[j] \in Record
      BY DEF TypeOK
    <3>2. [record[j] EXCEPT !.status = "queued"] \in Record
      BY <3>1 DEF Record, Statuses
    <3> QED
      BY <1>1, <3>2 DEF SubmitPut, TypeOK
  <2> QED
    BY <1>1, <2>1 DEF SubmitPut, TypeOK
<1>2. CASE SubmitEnqueue(j)
  <2>1. message' \in [Job -> Message] /\ \A i \in Job : message'[i].tries <= MaxDeliver
    BY <1>2, MessageType DEF SubmitEnqueue
  <2>2. faults' \in 0..MaxFaults
    BY <1>2, CrawlAssumption DEF SubmitEnqueue, CanFail, TypeOK, CrawlAssumption
  <2> QED
    BY <1>2, <2>1, <2>2 DEF SubmitEnqueue, store, TypeOK
<1> QED
  BY <1>1, <1>2

LEMMA QueueType ==
  ASSUME TypeOK, NEW j \in Job, Queue(j)
  PROVE  TypeOK'
<1>1. CASE Expire(j)
  <2>1. message' \in [Job -> Message] /\ \A i \in Job : message'[i].tries <= MaxDeliver
    BY <1>1, MessageType DEF Expire
  <2>2. faults' \in 0..MaxFaults
    BY <1>1, CrawlAssumption DEF Expire, CanFail, TypeOK, CrawlAssumption
  <2> QED
    BY <1>1, <2>1, <2>2 DEF Expire, store, TypeOK
<1>2. ASSUME NEW r \in Replica, Deliver(r, j)
      PROVE  TypeOK'
  <2>1. message[j] \in Message /\ message[j].tries < MaxDeliver /\ MaxDeliver \in Nat
    BY <1>2, CrawlAssumption DEF Deliver, Deliverable, TypeOK, CrawlAssumption
  <2>2. /\ [message[j] EXCEPT !.state = "out", !.tries = @ + 1] \in Message
        /\ [message[j] EXCEPT !.state = "out", !.tries = @ + 1].tries <= MaxDeliver
    <3>1. message[j].tries + 1 \in Nat /\ message[j].tries + 1 <= MaxDeliver
      BY <2>1 DEF Message
    <3>2. ASSUME NEW n \in Nat
          PROVE  [message[j] EXCEPT !.state = "out", !.tries = n] \in Message
      BY <2>1 DEF Message
    <3>3. ASSUME NEW n \in Nat
          PROVE  [message[j] EXCEPT !.state = "out", !.tries = n].tries = n
      BY <2>1 DEF Message
    <3> QED
      BY <3>1, <3>2, <3>3
  <2>3. message' = [message EXCEPT ![j] = [message[j] EXCEPT !.state = "out", !.tries = @ + 1]]
    BY <1>2 DEF Deliver, TypeOK, Message
  <2>4. message' \in [Job -> Message] /\ \A i \in Job : message'[i].tries <= MaxDeliver
    BY <2>2, <2>3 DEF TypeOK
  <2>5. [pc |-> "get", job |-> j, count |-> 0, seq |-> 0, walked |-> {}] \in Running
    BY DEF Running, Labels
  <2>6. runner' \in [Replica -> Running \cup {Idle}]
    BY <1>2, <2>5 DEF Deliver, TypeOK
  <2> QED
    BY <1>2, <2>4, <2>6 DEF Deliver, store, TypeOK
<1> QED
  BY <1>1, <1>2 DEF Queue

LEMMA ViewType ==
  ASSUME TypeOK, NEW j \in Job, ReadRecord(j) \/ ReadPages(j)
  PROVE  TypeOK'
<1>1. view[j] \in View /\ view \in [Job -> View] /\ record[j] \in Record
  BY DEF TypeOK
<1>2. CASE ReadRecord(j)
  <2>1. [view[j] EXCEPT !.pc = "pages", !.status = record[j].status, !.count = record[j].count] \in View
    BY <1>1 DEF View, Record
  <2>2. view' = [view EXCEPT ![j] = [view[j] EXCEPT !.pc = "pages", !.status = record[j].status,
                                                   !.count = record[j].count]]
    BY <1>1, <1>2 DEF ReadRecord
  <2> QED
    BY <1>1, <1>2, <2>1, <2>2 DEF ReadRecord, store, TypeOK
<1>3. CASE ReadPages(j)
  <2> DEFINE n == Cardinality(Given(j, view[j].offset))
             end == IF HasNext(view[j], n) THEN "record" ELSE "ended"
  <2>1. n \in Nat
    <3>1. view[j].offset \in Nat /\ PageLimit \in Nat
      BY <1>1, CrawlAssumption DEF View, CrawlAssumption
    <3>2. IsFiniteSet(view[j].offset..(view[j].offset + PageLimit - 1))
      BY <3>1, FS_Interval
    <3>3. Given(j, view[j].offset) \subseteq view[j].offset..(view[j].offset + PageLimit - 1)
      BY DEF Given
    <3> QED
      BY <3>2, <3>3, FS_Subset, FS_CardinalityType
  <2>2. end \in {"record", "pages", "ended"}
    OBVIOUS
  <2> HIDE DEF n, end
  <2>3. [view[j] EXCEPT !.pc = end, !.offset = @ + n] \in View
    <3>1. view[j].offset + n \in Nat
      BY <1>1, <2>1 DEF View
    <3>2. ASSUME NEW m \in Nat PROVE [view[j] EXCEPT !.pc = end, !.offset = m] \in View
      BY <1>1, <2>2 DEF View
    <3> QED
      BY <3>1, <3>2
  <2>4. view' = [view EXCEPT ![j] = [view[j] EXCEPT !.pc = end, !.offset = @ + n]]
    BY <1>1, <1>3 DEF ReadPages, n, end
  <2>5. view' \in [Job -> View]
    <3>1. view \in [Job -> View]
      BY DEF TypeOK
    <3> QED
      BY <2>3, <2>4, <3>1
  <2> QED
    BY <1>3, <2>5 DEF ReadPages, store, TypeOK
<1> QED
  BY <1>2, <1>3

LEMMA WorksType ==
  ASSUME TypeOK, NEW r \in Replica, Works(r) \/ StoreFails(r) \/ Crash(r)
  PROVE  TypeOK'
<1> USE CrawlAssumption
<1> DEFINE a == runner[r]
<1>1. Busy(r)
  BY DEF Works, Get, Begin, Emit, Touch, WalkDone, Finish, Ack, Nak, At, StoreFails, Crash
<1>2. /\ a \in Running /\ a.job \in Job /\ a.count \in Nat /\ a.seq \in Nat
      /\ a.walked \subseteq Page
  BY <1>1, RunnerType
<1>3. record[a.job] \in Record /\ record[a.job].count \in Nat
  BY <1>2 DEF TypeOK, Record
<1>4. \A label \in Labels : [a EXCEPT !.pc = label] \in Running
  BY <1>2, RelabelType
<1> HIDE DEF a
<1>5. CASE Get(r)
  <2>1. [a EXCEPT !.pc = "start", !.count = record[a.job].count,
                  !.seq = FirstSeq(record[a.job])] \in Running
    BY <1>2, <1>3 DEF Running, Labels, FirstSeq
  <2>2. [a EXCEPT !.pc = "ack"] \in Running
    BY <1>4 DEF Labels
  <2>3. \E new \in Running : Goes(r, new)
    BY <1>5, <2>1, <2>2 DEF Get, a
  <2> QED
    BY <1>5, <2>3, GoesType DEF Get, store, TypeOK
<1>6. CASE Begin(r) \/ Touch(r)
  <2>1. Goes(r, [a EXCEPT !.pc = "walk"]) /\ Put(r, "running")
    BY <1>6 DEF Begin, Touch, a
  <2>2. [a EXCEPT !.pc = "walk"] \in Running
    BY <1>4 DEF Labels
  <2>3. record' \in [Job -> Record]
    BY <1>1, <2>1, RecordType DEF Statuses
  <2> QED
    BY <1>6, <2>1, <2>2, <2>3, GoesType DEF Begin, Touch, TypeOK
<1>7. ASSUME NEW p \in Page, Emit(r, p)
      PROVE  TypeOK'
  <2>1. Emitted(a, p) \in Running
    BY <1>2, <1>7, EmittedIs
  <2>2. /\ runner' \in [Replica -> Running \cup {Idle}]
        /\ faults' \in 0..MaxFaults
    BY <1>7, <2>1, GoesType DEF Emit, a
  <2>3. ASSUME NEW j \in Job
        PROVE  stored'[j] \in [DOMAIN stored'[j] -> Page] /\ DOMAIN stored'[j] \subseteq Nat
    <3>1. stored[j] \in [DOMAIN stored[j] -> Page] /\ DOMAIN stored[j] \subseteq Nat
      BY DEF TypeOK
    <3>2. stored' = [stored EXCEPT ![a.job] =
                       [n \in DOMAIN @ \cup {a.seq} |-> IF n = a.seq THEN p ELSE @[n]]]
      BY <1>7 DEF Emit, AddPage, a
    <3> QED
      BY <1>2, <1>7, <3>1, <3>2 DEF TypeOK
  <2>4. DOMAIN stored' = Job
    BY <1>7 DEF Emit, AddPage, TypeOK
  <2> QED
    BY <1>7, <2>2, <2>3, <2>4 DEF Emit, TypeOK
<1>8. CASE WalkDone(r)
  <2>1. runner' = [runner EXCEPT ![r] = [a EXCEPT !.pc = "finish"]]
    BY <1>8 DEF WalkDone, a, TypeOK
  <2>2. [a EXCEPT !.pc = "finish"] \in Running
    BY <1>4 DEF Labels
  <2> QED
    BY <1>8, <2>1, <2>2 DEF WalkDone, store, TypeOK
<1>9. CASE Finish(r)
  <2>1. Goes(r, [a EXCEPT !.pc = "ack"]) /\ Put(r, "done")
    BY <1>9 DEF Finish, a
  <2>2. [a EXCEPT !.pc = "ack"] \in Running
    BY <1>4 DEF Labels
  <2>3. record' \in [Job -> Record]
    BY <1>1, <2>1, RecordType DEF Statuses
  <2> QED
    BY <1>9, <2>1, <2>2, <2>3, GoesType DEF Finish, TypeOK
<1>10. CASE Ack(r) \/ Nak(r)
  <2>1. \E s \in {"none", "failed", "ready", "out", "acked"} :
          message' = [message EXCEPT ![a.job].state = s]
    <3>1. message[a.job].state \in {"none", "failed", "ready", "out", "acked"}
      BY <1>2 DEF TypeOK, Message
    <3> QED
      BY <1>10, <1>2, <3>1 DEF Ack, Nak, a, TypeOK
  <2>2. message' \in [Job -> Message] /\ \A i \in Job : message'[i].tries <= MaxDeliver
    BY <1>2, <2>1, MessageType
  <2>3. runner' \in [Replica -> Running \cup {Idle}]
    BY <1>10, IdledType DEF Ack, Nak
  <2> QED
    BY <1>10, <2>2, <2>3 DEF Ack, Nak, store, TypeOK
<1>11. CASE StoreFails(r)
  <2>1. runner' = [runner EXCEPT ![r] = [a EXCEPT !.pc = "nak"]]
    BY <1>11 DEF StoreFails, a, TypeOK
  <2>2. [a EXCEPT !.pc = "nak"] \in Running
    BY <1>4 DEF Labels
  <2>3. faults' \in 0..MaxFaults
    BY <1>11 DEF StoreFails, CanFail, TypeOK, CrawlAssumption
  <2> QED
    BY <1>11, <2>1, <2>2, <2>3 DEF StoreFails, store, TypeOK
<1>12. CASE Crash(r)
  <2>1. faults' \in 0..MaxFaults
    BY <1>12 DEF Crash, CanFail, TypeOK, CrawlAssumption
  <2> QED
    BY <1>12, <2>1, IdledType DEF Crash, store, TypeOK
<1> QED
  BY <1>5, <1>6, <1>7, <1>8, <1>9, <1>10, <1>11, <1>12 DEF Works

LEMMA TypeStep == TypeOK /\ [Next]_vars => TypeOK'
<1> SUFFICES ASSUME TypeOK, [Next]_vars PROVE TypeOK'
  OBVIOUS
<1>1. CASE UNCHANGED vars
  BY <1>1 DEF vars, store, TypeOK
<1> QED
  BY <1>1, SubmitType, QueueType, WorksType, ViewType DEF Next

\* Every variable keeps its type, and no job is delivered more than MaxDeliver
\* times (crawl/job.go, crawl/nats.go).
THEOREM CrawlTypeCorrect == Spec => []TypeOK
  BY InitType, TypeStep, PTL DEF Spec
-----------------------------------------------------------------------------
(* The numbers of the pages.  Whoever writes the record or stores a page    *)
(* knows that every number below its own is taken: it read the record, or   *)
(* stored them itself, and a number once taken is never free again.         *)

Below(D, n) == \A k \in Nat : k < n => k \in D

Numbers(j) == DOMAIN stored[j]

NumberedRunner(a) == a.seq = a.count /\ Below(Numbers(a.job), a.seq)

NumberedInv ==
    /\ TypeOK
    /\ \A j \in Job : \A n \in Numbers(j) : Below(Numbers(j), n)
    /\ \A j \in Job : Below(Numbers(j), record[j].count)
    /\ \A r \in Replica : Busy(r) => NumberedRunner(runner[r])

LEMMA NumberedInit == Init => NumberedInv
<1> SUFFICES ASSUME Init PROVE NumberedInv
  OBVIOUS
<1>1. TypeOK
  BY InitType
<1>2. \A j \in Job : DOMAIN stored[j] = {} /\ record[j].count = 0
  BY DEF Init
<1>3. \A r \in Replica : ~Busy(r)
  BY DEF Init, Busy
<1> QED
  BY <1>1, <1>2, <1>3 DEF NumberedInv, Below, Numbers

\* The runners that r's step leaves alone, the pages being only more.
LEMMA OthersNumbered ==
  ASSUME NumberedInv, NEW r \in Replica, NEW i \in Replica, i # r,
         runner'[i] = runner[i], runner'[i] # Idle,
         \A j \in Job : Numbers(j) \subseteq Numbers(j)'
  PROVE  NumberedRunner(runner[i])'
<1>1. Busy(i)
  BY DEF Busy
<1>2. runner[i].job \in Job /\ NumberedRunner(runner[i])
  BY <1>1, RunnerType DEF NumberedInv
<1> QED
  BY <1>2 DEF NumberedRunner, Below, Numbers

LEMMA PutCounts ==
  ASSUME TypeOK, NEW r \in Replica, NEW s, Put(r, s)
  PROVE  \A j \in Job :
           record'[j].count = record[j].count
             \/ (j = runner[r].job /\ record'[j].count = runner[r].count)
<1>1. record \in [Job -> Record]
  BY DEF TypeOK
<1>2. ASSUME NEW j \in Job
      PROVE  record'[j] = IF j = runner[r].job THEN [status |-> s, count |-> runner[r].count]
                                              ELSE record[j]
  BY <1>1 DEF Put
<1> QED
  BY <1>2

LEMMA GoesRunner ==
  ASSUME TypeOK, NEW r \in Replica, NEW new \in Running, Goes(r, new)
  PROVE  /\ \A i \in Replica \ {r} : runner'[i] = runner[i]
         /\ runner'[r] \in Running
         /\ runner'[r].job = new.job /\ runner'[r].count = new.count
         /\ runner'[r].seq = new.seq /\ runner'[r].walked = new.walked
         /\ runner'[r].pc \in {new.pc, "nak"}
<1>1. runner \in [Replica -> Running \cup {Idle}]
  BY DEF TypeOK
<1>2. PICK to : /\ to = new \/ to = [new EXCEPT !.pc = "nak"]
                /\ runner' = [runner EXCEPT ![r] = to]
  BY DEF Goes
<1>3. to \in Running
  BY <1>2, RelabelType DEF Labels
<1>4. /\ to.job = new.job /\ to.count = new.count
      /\ to.seq = new.seq /\ to.walked = new.walked
      /\ to.pc = new.pc \/ to.pc = "nak"
  BY <1>2 DEF Running
<1> QED
  BY <1>1, <1>2, <1>3, <1>4
\* What the invariant of a step of runner r comes to, whatever it stores.
LEMMA NumberedFrom ==
  ASSUME NumberedInv, TypeOK', NEW r \in Replica,
         \A i \in Replica \ {r} : runner'[i] = runner[i],
         \A j \in Job : Numbers(j) \subseteq Numbers(j)',
         \A j \in Job : \A n \in Numbers(j)' : Below(Numbers(j)', n),
         \A j \in Job :
           record'[j].count = record[j].count
             \/ (Busy(r) /\ j = runner[r].job /\ record'[j].count = runner[r].count),
         runner'[r] # Idle => NumberedRunner(runner[r])'
  PROVE  NumberedInv'
<1>1. \A j \in Job : Below(Numbers(j)', record'[j].count)
  <2> SUFFICES ASSUME NEW j \in Job PROVE Below(Numbers(j)', record'[j].count)
    OBVIOUS
  <2>1. Below(Numbers(j), record[j].count)
    BY DEF NumberedInv
  <2>2. Busy(r) /\ j = runner[r].job => Below(Numbers(j), runner[r].count)
    BY DEF NumberedInv, NumberedRunner
  <2>3. Below(Numbers(j), record'[j].count)
    BY <2>1, <2>2
  <2> QED
    BY <2>3 DEF Below
<1>2. \A i \in Replica : Busy(i)' => NumberedRunner(runner[i])'
  BY OthersNumbered DEF Busy
<1> QED
  BY <1>1, <1>2 DEF NumberedInv

\* A runner that neither stores a page nor counts.
LEMMA NumberedStill ==
  ASSUME NumberedInv, TypeOK', NEW r \in Replica, UNCHANGED stored,
         \A i \in Replica \ {r} : runner'[i] = runner[i],
         \A j \in Job :
           record'[j].count = record[j].count
             \/ (Busy(r) /\ j = runner[r].job /\ record'[j].count = runner[r].count),
         runner'[r] # Idle => NumberedRunner(runner'[r])
  PROVE  NumberedInv'
<1>1. \A j \in Job : Numbers(j)' = Numbers(j)
  BY DEF Numbers
<1>2. \A j \in Job : \A n \in Numbers(j)' : Below(Numbers(j)', n)
  BY <1>1 DEF NumberedInv
<1>3. runner'[r] # Idle => NumberedRunner(runner[r])'
  BY <1>1 DEF NumberedRunner, Numbers
<1> QED
  BY <1>1, <1>2, <1>3, NumberedFrom

LEMMA NumberedWorks ==
  ASSUME NumberedInv, TypeOK', NEW r \in Replica, Works(r) \/ StoreFails(r) \/ Crash(r)
  PROVE  NumberedInv'
<1> DEFINE a == runner[r]
<1>1. TypeOK /\ Busy(r) /\ NumberedRunner(a)
  BY DEF NumberedInv, Works, Get, Begin, Emit, Touch, WalkDone, Finish, Ack, Nak, At,
         StoreFails, Crash
<1>2. /\ a \in Running /\ a.job \in Job /\ a.count \in Nat /\ a.seq \in Nat
      /\ a.walked \subseteq Page
  BY <1>1, RunnerType
<1>3. record[a.job].count \in Nat /\ Below(Numbers(a.job), record[a.job].count)
  BY <1>2 DEF TypeOK, Record, NumberedInv
<1>4. ASSUME NEW label \in Labels
      PROVE  /\ [a EXCEPT !.pc = label] \in Running
             /\ NumberedRunner([a EXCEPT !.pc = label])
  BY <1>1, <1>2, RelabelType DEF NumberedRunner, Running
<1>5. ASSUME NEW new \in Running, NumberedRunner(new), Goes(r, new)
      PROVE  (\A i \in Replica \ {r} : runner'[i] = runner[i]) /\ NumberedRunner(runner'[r])
  BY <1>1, <1>5, GoesRunner DEF NumberedRunner
<1>6. runner \in [Replica -> Running \cup {Idle}]
  BY <1>1 DEF TypeOK
<1> HIDE DEF a
<1>7. CASE Get(r)
  <2>1. PICK new : /\ Goes(r, new)
                   /\ \/ new = [a EXCEPT !.pc = "ack"]
                      \/ new = [a EXCEPT !.pc = "start", !.count = record[a.job].count,
                                          !.seq = FirstSeq(record[a.job])]
    BY <1>7 DEF Get, a
  <2>2. new \in Running /\ NumberedRunner(new)
    <3>1. CASE new = [a EXCEPT !.pc = "ack"]
      BY <1>4, <3>1 DEF Labels
    <3>2. CASE new = [a EXCEPT !.pc = "start", !.count = record[a.job].count,
                               !.seq = FirstSeq(record[a.job])]
      BY <1>2, <1>3, <3>2 DEF Running, Labels, FirstSeq, NumberedRunner
    <3> QED
      BY <2>1, <3>1, <3>2
  <2> QED
    BY <1>5, <1>7, <2>1, <2>2, NumberedStill DEF Get, store
<1>8. CASE Begin(r) \/ Touch(r) \/ Finish(r)
  <2>1. PICK label \in {"walk", "ack"}, s \in Statuses : Goes(r, [a EXCEPT !.pc = label]) /\ Put(r, s)
    BY <1>8 DEF Begin, Touch, Finish, Statuses, a
  <2>2. [a EXCEPT !.pc = label] \in Running /\ NumberedRunner([a EXCEPT !.pc = label])
    BY <1>4 DEF Labels
  <2>3. UNCHANGED stored
    BY <1>8 DEF Begin, Touch, Finish
  <2> QED
    BY <1>1, <1>5, <2>1, <2>2, <2>3, PutCounts, NumberedStill
<1>9. ASSUME NEW p \in Page, Emit(r, p)
      PROVE  NumberedInv'
  <2>1. Goes(r, Emitted(a, p))
    BY <1>9 DEF Emit, a
  <2>2. /\ Emitted(a, p) \in Running /\ Emitted(a, p).job = a.job
        /\ Emitted(a, p).count = a.count + 1 /\ Emitted(a, p).seq = a.seq + 1
    BY <1>2, EmittedIs
  <2>3. /\ \A i \in Replica \ {r} : runner'[i] = runner[i]
        /\ runner'[r].job = a.job /\ runner'[r].count = a.count + 1
        /\ runner'[r].seq = a.seq + 1
    BY <1>1, <2>1, <2>2, GoesRunner
  <2>4. \A j \in Job : Numbers(j)' = IF j = a.job THEN Numbers(j) \cup {a.seq} ELSE Numbers(j)
    <3>1. stored' = [stored EXCEPT ![a.job] =
                       [n \in DOMAIN @ \cup {a.seq} |-> IF n = a.seq THEN p ELSE @[n]]]
      BY <1>9 DEF Emit, AddPage, a
    <3>2. ASSUME NEW j \in Job, j # a.job
          PROVE  stored'[j] = stored[j]
      BY <3>1, <3>2
    <3>3. DOMAIN stored'[a.job] = DOMAIN stored[a.job] \cup {a.seq}
      BY <1>1, <1>2, <3>1 DEF TypeOK
    <3> QED
      BY <3>2, <3>3 DEF Numbers
  <2>5. Below(Numbers(a.job), a.seq) /\ a.seq = a.count
    BY <1>1 DEF NumberedRunner
  <2>6. \A j \in Job : \A n \in Numbers(j)' : Below(Numbers(j)', n)
    BY <2>4, <2>5 DEF NumberedInv, Below
  <2>7. NumberedRunner(runner[r])'
    BY <1>2, <2>3, <2>4, <2>5 DEF NumberedRunner, Below
  <2>8. \A j \in Job : record'[j].count = record[j].count
    BY <1>9 DEF Emit
  <2> QED
    BY <2>3, <2>4, <2>6, <2>7, <2>8, NumberedFrom
<1>10. CASE WalkDone(r) \/ StoreFails(r)
  <2>1. PICK label \in {"finish", "nak"} : runner' = [runner EXCEPT ![r] = [a EXCEPT !.pc = label]]
    BY <1>6, <1>10 DEF WalkDone, StoreFails, a
  <2>2. NumberedRunner([a EXCEPT !.pc = label])
    BY <1>4 DEF Labels
  <2>3. (\A i \in Replica \ {r} : runner'[i] = runner[i]) /\ runner'[r] = [a EXCEPT !.pc = label]
    BY <1>6, <2>1
  <2> QED
    BY <1>10, <2>2, <2>3, NumberedStill DEF WalkDone, StoreFails, store
<1>11. CASE Ack(r) \/ Nak(r) \/ Crash(r)
  <2>1. (\A i \in Replica \ {r} : runner'[i] = runner[i]) /\ runner'[r] = Idle
    BY <1>6, <1>11 DEF Ack, Nak, Crash
  <2> QED
    BY <1>11, <2>1, NumberedStill DEF Ack, Nak, Crash, store
<1> QED
  BY <1>7, <1>8, <1>9, <1>10, <1>11 DEF Works

LEMMA NumberedStep == NumberedInv /\ [Next]_vars => NumberedInv'
<1> SUFFICES ASSUME NumberedInv, [Next]_vars PROVE NumberedInv'
  OBVIOUS
<1>1. TypeOK /\ TypeOK'
  BY TypeStep DEF NumberedInv
<1>2. CASE /\ UNCHANGED <<stored, runner>>
           /\ \A j \in Job : record'[j].count = record[j].count
  BY <1>1, <1>2 DEF NumberedInv, NumberedRunner, Numbers, Busy
<1>3. ASSUME NEW j \in Job, SubmitPut(j)
      PROVE  NumberedInv'
  <2>1. \A i \in Job : record'[i].count = record[i].count
    BY <1>1, <1>3 DEF SubmitPut, TypeOK, Record
  <2> QED
    BY <1>2, <1>3, <2>1 DEF SubmitPut
<1>4. ASSUME NEW j \in Job, SubmitEnqueue(j) \/ Expire(j) \/ ReadRecord(j) \/ ReadPages(j)
      PROVE  NumberedInv'
  BY <1>2, <1>4 DEF SubmitEnqueue, Expire, ReadRecord, ReadPages, store
<1>5. ASSUME NEW j \in Job, NEW r \in Replica, Deliver(r, j)
      PROVE  NumberedInv'
  <2>1. /\ \A i \in Replica \ {r} : runner'[i] = runner[i]
        /\ runner'[r] = [pc |-> "get", job |-> j, count |-> 0, seq |-> 0, walked |-> {}]
    BY <1>1, <1>5 DEF Deliver, TypeOK
  <2>2. NumberedRunner(runner'[r])
    BY <2>1 DEF NumberedRunner, Below
  <2> QED
    BY <1>1, <1>5, <2>1, <2>2, NumberedStill DEF Deliver, store
<1>6. CASE UNCHANGED vars
  BY <1>2, <1>6 DEF vars, store
<1> QED
  BY <1>1, <1>3, <1>4, <1>5, <1>6, NumberedWorks DEF Next, Queue

LEMMA NumberedAlways == Spec => []NumberedInv
  BY NumberedInit, NumberedStep, PTL DEF Spec

\* "A job's pages are numbered without gaps" (crawl/nats.go, Pages) and every
\* page a record counts is stored (crawl/job.go, touch and finish), for any
\* number of runners of one job at once and whatever fails or dies.
THEOREM PagesHaveNoGaps == Spec => []NoGaps
<1>1. NumberedInv => NoGaps
  <2> SUFFICES ASSUME NumberedInv, NEW j \in Job
               PROVE  /\ \A n \in Numbers(j) : 0..n \subseteq Numbers(j)
                      /\ 0..record[j].count \subseteq Numbers(j) \cup {record[j].count}
    BY DEF NoGaps, Numbers
  <2>1. ASSUME NEW n \in Numbers(j), NEW k \in 0..n
        PROVE  k \in Numbers(j)
    <3>1. n \in Nat /\ Below(Numbers(j), n)
      BY DEF NumberedInv, TypeOK, Numbers
    <3>2. k = n \/ (k \in Nat /\ k < n)
      BY <2>1, <3>1
    <3> QED
      BY <2>1, <3>1, <3>2 DEF Below
  <2>2. ASSUME NEW n \in 0..record[j].count
        PROVE  n \in Numbers(j) \cup {record[j].count}
    <3>1. record[j].count \in Nat /\ Below(Numbers(j), record[j].count)
      BY DEF NumberedInv, TypeOK, Record
    <3> QED
      BY <2>2, <3>1 DEF Below
  <2> QED
    BY <2>1, <2>2
<1> QED
  BY <1>1, NumberedAlways, PTL
-----------------------------------------------------------------------------
(* What holds while the queue has missed no InProgress of a live runner:    *)
(* a job that is out has one runner at most, nobody writes over a job that  *)
(* is done, and a runner that finishes has stored all that it walked.       *)

Writing == {"start", "walk", "touch", "finish"}

IsDone(j) == record[j].status = "done"

StoredBelow(j, p, n) == \E k \in Numbers(j) : k < n /\ stored[j][k] = p

Whole(j) == \A p \in Site[j] : \E n \in Numbers(j) : stored[j][n] = p

RunnerInv(a) ==
    /\ message[a.job].state = "out"
    /\ a.pc \in {"get", "start"} => a.walked = {}
    /\ a.pc \in Writing => ~IsDone(a.job)
    /\ a.pc \in Writing => \A p \in a.walked : StoredBelow(a.job, p, a.seq)
    /\ a.pc = "finish" => a.walked = Site[a.job]
    /\ a.pc = "ack" => IsDone(a.job)

JobInv(j) ==
    /\ message[j].state = "acked" => IsDone(j)
    /\ IsDone(j) => Whole(j)

SoleInv ==
    /\ TypeOK
    /\ \A r, i \in Replica :
         Busy(r) /\ Busy(i) /\ runner[r].job = runner[i].job => r = i
    /\ \A r \in Replica : Busy(r) => RunnerInv(runner[r])
    /\ \A j \in Job : JobInv(j)

LEMMA SoleInit == Init => SoleInv
<1> SUFFICES ASSUME Init PROVE SoleInv
  OBVIOUS
<1>1. TypeOK
  BY InitType
<1>2. \A r \in Replica : ~Busy(r)
  BY DEF Init, Busy
<1>3. \A j \in Job : JobInv(j)
  BY DEF Init, JobInv, IsDone
<1> QED
  BY <1>1, <1>2, <1>3 DEF SoleInv

\* A step about job j that at most replica r, its only runner, takes part in.
LEMMA SoleFrom ==
  ASSUME SoleInv, TypeOK', NEW r \in Replica, NEW j \in Job,
         \A i \in Replica \ {r} : runner'[i] = runner[i],
         \A i \in Replica \ {r} : Busy(i) => runner[i].job # j,
         \A k \in Job \ {j} :
           record'[k] = record[k] /\ stored'[k] = stored[k] /\ message'[k] = message[k],
         runner'[r] # Idle => runner'[r].job = j /\ RunnerInv(runner[r])',
         JobInv(j)'
  PROVE  SoleInv'
<1>1. ASSUME NEW i \in Replica \ {r}, Busy(i)'
      PROVE  Busy(i) /\ runner'[i] = runner[i] /\ runner[i].job \in Job \ {j}
  <2>1. Busy(i) /\ runner'[i] = runner[i]
    BY <1>1 DEF Busy
  <2> QED
    BY <2>1, RunnerType DEF SoleInv
<1>2. \A q, i \in Replica :
        Busy(q)' /\ Busy(i)' /\ runner'[q].job = runner'[i].job => q = i
  <2> SUFFICES ASSUME NEW q \in Replica, NEW i \in Replica, Busy(q)', Busy(i)',
                      runner'[q].job = runner'[i].job, q # i
               PROVE  FALSE
    OBVIOUS
  <2>1. CASE q # r /\ i # r
    BY <1>1, <2>1 DEF SoleInv
  <2>2. CASE q = r \/ i = r
    BY <1>1, <2>2 DEF Busy
  <2> QED
    BY <2>1, <2>2
<1>3. ASSUME NEW i \in Replica, Busy(i)'
      PROVE  RunnerInv(runner[i])'
  <2>1. CASE i = r
    BY <1>3, <2>1 DEF Busy
  <2>2. CASE i # r
    <3>1. /\ runner'[i] = runner[i] /\ runner[i].job \in Job \ {j}
          /\ RunnerInv(runner[i])
      BY <1>1, <1>3, <2>2 DEF SoleInv
    <3>2. /\ record'[runner[i].job] = record[runner[i].job]
          /\ stored'[runner[i].job] = stored[runner[i].job]
          /\ message'[runner[i].job] = message[runner[i].job]
      BY <3>1
    <3> QED
      BY <3>1, <3>2 DEF RunnerInv, IsDone, StoredBelow, Numbers
  <2> QED
    BY <2>1, <2>2
<1>4. ASSUME NEW k \in Job
      PROVE  JobInv(k)'
  <2>1. CASE k # j
    <3>1. JobInv(k)
      BY DEF SoleInv
    <3>2. record'[k] = record[k] /\ stored'[k] = stored[k] /\ message'[k] = message[k]
      BY <2>1
    <3> QED
      BY <3>1, <3>2 DEF JobInv, IsDone, Whole, Numbers
  <2> QED
    BY <2>1
<1> QED
  BY <1>2, <1>3, <1>4 DEF SoleInv

\* A step that no runner takes, and after which the same jobs are done.
LEMMA SoleStill ==
  ASSUME SoleInv, TypeOK', UNCHANGED <<stored, message, runner>>,
         \A j \in Job : IsDone(j)' <=> IsDone(j)
  PROVE  SoleInv'
<1>1. ASSUME NEW r \in Replica, Busy(r)'
      PROVE  RunnerInv(runner[r])'
  <2>1. Busy(r) /\ RunnerInv(runner[r]) /\ runner[r].job \in Job
    BY <1>1, RunnerType DEF SoleInv, Busy
  <2>2. IsDone(runner[r].job)' <=> IsDone(runner[r].job)
    <3>1. \A j \in Job : (record'[j].status = "done") <=> (record[j].status = "done")
      BY DEF IsDone
    <3> QED
      BY <2>1, <3>1 DEF IsDone
  <2> QED
    BY <2>1, <2>2 DEF RunnerInv, StoredBelow, Numbers, IsDone
<1>2. \A j \in Job : JobInv(j)'
  BY DEF SoleInv, JobInv, Whole, Numbers, IsDone
<1>3. \A r, i \in Replica : Busy(r)' /\ Busy(i)' /\ runner'[r].job = runner'[i].job => r = i
  BY DEF SoleInv, Busy
<1> QED
  BY <1>1, <1>2, <1>3 DEF SoleInv

\* A step of the queue about a job that nobody runs.
LEMMA SoleUnrun ==
  ASSUME SoleInv, TypeOK', NEW j \in Job, UNCHANGED <<record, stored, runner>>,
         \A r \in Replica : Busy(r) => runner[r].job # j,
         \A k \in Job \ {j} : message'[k] = message[k],
         message'[j].state # "acked"
  PROVE  SoleInv'
<1>1. ASSUME NEW r \in Replica, Busy(r)'
      PROVE  RunnerInv(runner[r])'
  <2>1. Busy(r) /\ RunnerInv(runner[r]) /\ runner[r].job \in Job \ {j}
    BY <1>1, RunnerType DEF SoleInv, Busy
  <2>2. message'[runner[r].job] = message[runner[r].job]
    BY <2>1
  <2> QED
    BY <2>1, <2>2 DEF RunnerInv, StoredBelow, Numbers, IsDone
<1>2. ASSUME NEW k \in Job
      PROVE  JobInv(k)'
  <2>1. JobInv(k) /\ (k # j => message'[k] = message[k])
    BY DEF SoleInv
  <2> QED
    BY <2>1 DEF JobInv, Whole, Numbers, IsDone
<1>3. \A r, i \in Replica : Busy(r)' /\ Busy(i)' /\ runner'[r].job = runner'[i].job => r = i
  BY DEF SoleInv, Busy
<1> QED
  BY <1>1, <1>2, <1>3 DEF SoleInv

LEMMA SoleSubmit ==
  ASSUME SoleInv, TypeOK', NEW j \in Job, SubmitPut(j) \/ SubmitEnqueue(j)
  PROVE  SoleInv'
<1>1. TypeOK
  BY DEF SoleInv
<1>2. CASE SubmitPut(j)
  <2>1. \A k \in Job : IsDone(k)' <=> IsDone(k)
    BY <1>1, <1>2 DEF SubmitPut, IsDone, TypeOK, Record
  <2> QED
    BY <1>2, <2>1, SoleStill DEF SubmitPut
<1>3. CASE SubmitEnqueue(j)
  <2>1. message[j].state = "none"
    BY <1>3 DEF SubmitEnqueue
  <2>2. \A r \in Replica : Busy(r) => runner[r].job # j
    BY <2>1 DEF SoleInv, RunnerInv
  <2>3. /\ \A k \in Job \ {j} : message'[k] = message[k]
        /\ message'[j].state # "acked"
    BY <1>1, <1>3 DEF SubmitEnqueue, TypeOK, Message
  <2> QED
    BY <1>3, <2>2, <2>3, SoleUnrun DEF SubmitEnqueue, store
<1> QED
  BY <1>2, <1>3

LEMMA SoleQueue ==
  ASSUME ~missed', SoleInv, TypeOK', NEW j \in Job, Queue(j)
  PROVE  SoleInv'
<1>1. TypeOK
  BY DEF SoleInv
<1>2. CASE Expire(j)
  <2>1. Runners(j) = {} /\ UNCHANGED <<record, stored, runner>>
    BY <1>2 DEF Expire, store
  <2>2. \A r \in Replica : Busy(r) => runner[r].job # j
    BY <2>1 DEF Runners
  <2>3. /\ \A k \in Job \ {j} : message'[k] = message[k]
        /\ message'[j].state # "acked"
    BY <1>1, <1>2 DEF Expire, TypeOK, Message
  <2> QED
    BY <2>1, <2>2, <2>3, SoleUnrun
<1>3. ASSUME NEW r \in Replica, Deliver(r, j)
      PROVE  SoleInv'
  <2>1. message[j].state = "ready" /\ UNCHANGED <<record, stored>>
    BY <1>3 DEF Deliver, Deliverable, store
  <2>2. \A i \in Replica \ {r} : Busy(i) => runner[i].job # j
    BY <2>1 DEF SoleInv, RunnerInv
  <2>3. /\ \A i \in Replica \ {r} : runner'[i] = runner[i]
        /\ runner'[r] = [pc |-> "get", job |-> j, count |-> 0, seq |-> 0, walked |-> {}]
    BY <1>1, <1>3 DEF Deliver, TypeOK
  <2>4. /\ \A k \in Job \ {j} : message'[k] = message[k]
        /\ message'[j].state = "out"
    BY <1>1, <1>3 DEF Deliver, TypeOK, Message
  <2>5. RunnerInv(runner[r])'
    BY <2>3, <2>4 DEF RunnerInv, Writing
  <2>6. JobInv(j)'
    BY <2>1, <2>4 DEF SoleInv, JobInv, Whole, Numbers, IsDone
  <2> QED
    BY <2>1, <2>2, <2>3, <2>4, <2>5, <2>6, SoleFrom
<1> QED
  BY <1>2, <1>3 DEF Queue

LEMMA SoleWorks ==
  ASSUME SoleInv, TypeOK', NEW r \in Replica, Works(r) \/ StoreFails(r) \/ Crash(r)
  PROVE  SoleInv'
<1> DEFINE a == runner[r]
<1>1. TypeOK /\ Busy(r) /\ RunnerInv(a)
  BY DEF SoleInv, Works, Get, Begin, Emit, Touch, WalkDone, Finish, Ack, Nak, At,
         StoreFails, Crash
<1>2. PICK j \in Job :
        /\ a \in Running /\ j = a.job /\ a.count \in Nat /\ a.seq \in Nat
        /\ a.walked \subseteq Page
  BY <1>1, RunnerType
<1>3. \A i \in Replica \ {r} : Busy(i) => runner[i].job # j
  BY <1>1, <1>2 DEF SoleInv
<1>4. JobInv(j)
  BY <1>2 DEF SoleInv
<1>5. runner \in [Replica -> Running \cup {Idle}]
  BY <1>1 DEF TypeOK
<1> HIDE DEF a
<1>6. ASSUME NEW label \in Labels
      PROVE  LET b == [a EXCEPT !.pc = label] IN
               /\ b \in Running /\ b.pc = label /\ b.job = j
               /\ b.count = a.count /\ b.seq = a.seq /\ b.walked = a.walked
  BY <1>2, RelabelType DEF Running
<1>7. ASSUME NEW s \in Statuses, Put(r, s)
      PROVE  /\ \A k \in Job \ {j} : record'[k] = record[k]
             /\ record'[j].status = s
  BY <1>1, <1>2, <1>7 DEF Put, TypeOK, a
<1>8. CASE Get(r)
  <2>1. PICK new : /\ Goes(r, new)
                   /\ \/ new = [a EXCEPT !.pc = "ack"] /\ IsDone(j)
                      \/ /\ new = [a EXCEPT !.pc = "start", !.count = record[j].count,
                                            !.seq = FirstSeq(record[j])]
                         /\ ~IsDone(j)
    BY <1>2, <1>8 DEF Get, IsDone, a
  <2>2. /\ new \in Running /\ new.job = j /\ new.walked = a.walked
        /\ (new.pc = "ack" /\ IsDone(j)) \/ (new.pc = "start" /\ ~IsDone(j))
    <3>1. record[j].count \in Nat
      BY <1>1, <1>2 DEF TypeOK, Record
    <3>2. CASE new = [a EXCEPT !.pc = "ack"] /\ IsDone(j)
      BY <1>6, <3>2 DEF Labels
    <3>3. CASE /\ new = [a EXCEPT !.pc = "start", !.count = record[j].count,
                                  !.seq = FirstSeq(record[j])]
               /\ ~IsDone(j)
      BY <1>2, <3>1, <3>3 DEF Running, Labels, FirstSeq
    <3> QED
      BY <2>1, <3>2, <3>3
  <2>3. /\ \A i \in Replica \ {r} : runner'[i] = runner[i]
        /\ runner'[r].job = j /\ runner'[r].walked = a.walked
        /\ runner'[r].pc \in {new.pc, "nak"}
    BY <1>1, <2>1, <2>2, GoesRunner
  <2>4. UNCHANGED <<record, stored, message>>
    BY <1>8 DEF Get, store
  <2>5. a.walked = {}
    BY <1>1, <1>8 DEF RunnerInv, Get, At, a
  <2>6. RunnerInv(runner[r])'
    BY <1>1, <1>2, <2>2, <2>3, <2>4, <2>5 DEF RunnerInv, Writing, IsDone
  <2>7. JobInv(j)'
    BY <1>4, <2>4, <1>2 DEF JobInv, IsDone, Whole, Numbers, a
  <2> QED
    BY <1>2, <1>3, <2>3, <2>4, <2>6, <2>7, SoleFrom
<1>9. CASE Begin(r) \/ Touch(r)
  <2>1. Goes(r, [a EXCEPT !.pc = "walk"]) /\ Put(r, "running") /\ UNCHANGED <<stored, message>>
    BY <1>9 DEF Begin, Touch, a
  <2>2. /\ \A i \in Replica \ {r} : runner'[i] = runner[i]
        /\ runner'[r].job = j /\ runner'[r].walked = a.walked /\ runner'[r].seq = a.seq
        /\ runner'[r].pc \in {"walk", "nak"}
    BY <1>1, <1>6, <2>1, GoesRunner DEF Labels
  <2>3. (\A k \in Job \ {j} : record'[k] = record[k]) /\ record'[j].status = "running"
    BY <1>7, <2>1 DEF Statuses
  <2>4. a.pc \in Writing
    BY <1>9 DEF Begin, Touch, At, Writing, a
  <2>5. /\ message[j].state = "out" /\ ~IsDone(j)
        /\ \A p \in a.walked : StoredBelow(j, p, a.seq)
    BY <1>1, <1>2, <2>4 DEF RunnerInv
  <2>6. RunnerInv(runner[r])'
    BY <2>1, <2>2, <2>3, <2>5 DEF RunnerInv, Writing, IsDone, StoredBelow, Numbers
  <2>7. JobInv(j)'
    BY <2>1, <2>3, <2>5 DEF JobInv, IsDone
  <2> QED
    BY <1>2, <1>3, <2>1, <2>2, <2>3, <2>6, <2>7, SoleFrom
<1>10. CASE Finish(r)
  <2>1. Goes(r, [a EXCEPT !.pc = "ack"]) /\ Put(r, "done") /\ UNCHANGED <<stored, message>>
    BY <1>10 DEF Finish, a
  <2>2. /\ \A i \in Replica \ {r} : runner'[i] = runner[i]
        /\ runner'[r].job = j /\ runner'[r].pc \in {"ack", "nak"}
    BY <1>1, <1>6, <2>1, GoesRunner DEF Labels
  <2>3. (\A k \in Job \ {j} : record'[k] = record[k]) /\ record'[j].status = "done"
    BY <1>7, <2>1 DEF Statuses
  <2>4. a.pc = "finish"
    BY <1>10 DEF Finish, At, a
  <2>5. Whole(j) /\ message[j].state = "out"
    BY <1>1, <1>2, <2>4 DEF RunnerInv, Writing, Whole, StoredBelow
  <2>6. RunnerInv(runner[r])'
    BY <2>1, <2>2, <2>3, <2>5 DEF RunnerInv, Writing, IsDone
  <2>7. JobInv(j)'
    BY <2>1, <2>3, <2>5 DEF JobInv, IsDone, Whole, Numbers
  <2> QED
    BY <1>2, <1>3, <2>1, <2>2, <2>3, <2>6, <2>7, SoleFrom
<1>11. ASSUME NEW p \in Page, Emit(r, p)
       PROVE  SoleInv'
  <2>1. Goes(r, Emitted(a, p)) /\ UNCHANGED <<record, message>> /\ a.pc = "walk"
    BY <1>11 DEF Emit, At, a
  <2>2. /\ \A i \in Replica \ {r} : runner'[i] = runner[i]
        /\ runner'[r].job = j /\ runner'[r].pc \in {"touch", "nak"}
        /\ runner'[r].seq = a.seq + 1 /\ runner'[r].walked = a.walked \cup {p}
    <3>1. /\ Emitted(a, p) \in Running /\ Emitted(a, p).pc = "touch"
          /\ Emitted(a, p).job = j /\ Emitted(a, p).seq = a.seq + 1
          /\ Emitted(a, p).walked = a.walked \cup {p}
      BY <1>2, EmittedIs
    <3> QED
      BY <1>1, <2>1, <3>1, GoesRunner
  <2>3. /\ \A k \in Job \ {j} : stored'[k] = stored[k]
        /\ stored'[j] = [n \in Numbers(j) \cup {a.seq} |-> IF n = a.seq THEN p ELSE stored[j][n]]
    <3>1. stored' = [stored EXCEPT ![j] =
                       [n \in DOMAIN @ \cup {a.seq} |-> IF n = a.seq THEN p ELSE @[n]]]
      BY <1>2, <1>11 DEF Emit, AddPage, a
    <3> QED
      BY <1>1, <1>2, <3>1 DEF TypeOK, Numbers
  <2>4. /\ message[j].state = "out" /\ ~IsDone(j)
        /\ \A q \in a.walked : StoredBelow(j, q, a.seq)
    BY <1>1, <1>2, <2>1 DEF RunnerInv, Writing
  <2>5. \A q \in a.walked \cup {p} :
          \E k \in DOMAIN stored'[j] : k < a.seq + 1 /\ stored'[j][k] = q
    <3>1. \E k \in DOMAIN stored'[j] : k < a.seq + 1 /\ stored'[j][k] = p
      <4>1. a.seq \in DOMAIN stored'[j] /\ stored'[j][a.seq] = p
        BY <2>3
      <4>2. a.seq < a.seq + 1
        BY <1>2
      <4> QED
        BY <4>1, <4>2
    <3>2. ASSUME NEW q \in a.walked
          PROVE  \E k \in DOMAIN stored'[j] : k < a.seq + 1 /\ stored'[j][k] = q
      <4>1. PICK k \in Numbers(j) : k < a.seq /\ stored[j][k] = q
        BY <2>4 DEF StoredBelow
      <4>2. k \in Nat
        BY <1>1, <1>2 DEF TypeOK, Numbers
      <4>3. k # a.seq /\ k < a.seq + 1
        BY <1>2, <4>1, <4>2
      <4>4. k \in DOMAIN stored'[j] /\ stored'[j][k] = q
        BY <2>3, <4>1, <4>3
      <4> QED
        BY <4>3, <4>4
    <3> QED
      BY <3>1, <3>2
  <2>6. RunnerInv(runner[r])'
    BY <2>1, <2>2, <2>4, <2>5 DEF RunnerInv, Writing, IsDone, StoredBelow, Numbers
  <2>7. JobInv(j)'
    BY <2>1, <2>4 DEF JobInv, IsDone
  <2> QED
    BY <1>2, <1>3, <2>1, <2>2, <2>3, <2>6, <2>7, SoleFrom
<1>12. CASE WalkDone(r) \/ StoreFails(r)
  <2>1. /\ UNCHANGED <<record, stored, message>>
        /\ \/ runner' = [runner EXCEPT ![r] = [a EXCEPT !.pc = "nak"]]
           \/ /\ runner' = [runner EXCEPT ![r] = [a EXCEPT !.pc = "finish"]]
              /\ a.pc = "walk" /\ a.walked = Site[j]
    BY <1>5, <1>2, <1>12 DEF WalkDone, StoreFails, store, At, a
  <2>2. /\ \A i \in Replica \ {r} : runner'[i] = runner[i]
        /\ runner'[r].job = j /\ runner'[r].walked = a.walked /\ runner'[r].seq = a.seq
        /\ \/ runner'[r].pc = "nak"
           \/ runner'[r].pc = "finish" /\ a.pc = "walk" /\ a.walked = Site[j]
    BY <1>5, <1>6, <2>1 DEF Labels
  <2>3. RunnerInv(runner[r])'
    BY <1>1, <1>2, <2>1, <2>2 DEF RunnerInv, Writing, IsDone, StoredBelow, Numbers
  <2>4. JobInv(j)'
    BY <1>4, <2>1 DEF JobInv, IsDone, Whole, Numbers, a
  <2> QED
    BY <1>2, <1>3, <2>1, <2>2, <2>3, <2>4, SoleFrom
<1>13. CASE Ack(r) \/ Nak(r) \/ Crash(r)
  <2>1. /\ \A i \in Replica \ {r} : runner'[i] = runner[i]
        /\ runner'[r] = Idle /\ UNCHANGED <<record, stored>>
    BY <1>5, <1>13 DEF Ack, Nak, Crash, store
  <2>2. /\ \A k \in Job \ {j} : message'[k] = message[k]
        /\ message'[j].state = "acked" => message[j].state = "acked" \/ a.pc = "ack"
    <3>1. message \in [Job -> Message]
      BY <1>1 DEF TypeOK
    <3>2. message[j].state = "out"
      BY <1>1, <1>2 DEF RunnerInv
    <3> QED
      BY <1>2, <1>13, <3>1, <3>2 DEF Ack, Nak, Crash, At, a, Message
  <2>3. JobInv(j)'
    BY <1>1, <1>2, <1>4, <2>1, <2>2 DEF JobInv, RunnerInv, IsDone, Whole, Numbers, a
  <2> QED
    BY <1>2, <1>3, <2>1, <2>2, <2>3, SoleFrom
<1> QED
  BY <1>8, <1>9, <1>10, <1>11, <1>12, <1>13 DEF Works

HeardInv == TypeOK /\ (~missed => SoleInv)

LEMMA HeardStep == HeardInv /\ [Next]_vars => HeardInv'
<1> SUFFICES ASSUME HeardInv, [Next]_vars PROVE HeardInv'
  OBVIOUS
<1>1. TypeOK'
  BY TypeStep DEF HeardInv
<1> SUFFICES ASSUME ~missed' PROVE SoleInv'
  BY <1>1 DEF HeardInv
<1>2. ~missed
  BY DEF Next, vars, SubmitPut, SubmitEnqueue, Queue, Expire, Deliver, Works, Get, Begin,
         Emit, Touch, WalkDone, Finish, Ack, Nak, StoreFails, Crash, ReadRecord, ReadPages
<1>3. SoleInv
  BY <1>2 DEF HeardInv
<1>4. CASE UNCHANGED <<record, stored, message, runner>>
  BY <1>1, <1>3, <1>4, SoleStill DEF IsDone
<1>5. ASSUME NEW j \in Job, ReadRecord(j) \/ ReadPages(j)
      PROVE  SoleInv'
  BY <1>4, <1>5 DEF ReadRecord, ReadPages, store
<1>6. CASE UNCHANGED vars
  BY <1>4, <1>6 DEF vars, store
<1> QED
  BY <1>1, <1>3, <1>5, <1>6, SoleSubmit, SoleQueue, SoleWorks DEF Next

LEMMA HeardAlways == Spec => []HeardInv
<1>1. Init => HeardInv
  BY SoleInit DEF HeardInv, SoleInv
<1> QED
  BY <1>1, HeardStep, PTL DEF Spec

\* "A job is delivered to one replica" (crawl/nats.go, NATSQueue), as long as
\* the queue misses no InProgress of a live runner.
THEOREM OneRunnerOnly == Spec => []OneRunner
<1>1. HeardInv => OneRunner
  <2> SUFFICES ASSUME SoleInv, NEW j \in Job PROVE Cardinality(Runners(j)) <= 1
    BY DEF OneRunner, HeardInv
  <2>1. CASE Runners(j) = {}
    BY <2>1, FS_EmptySet
  <2>2. ASSUME NEW r \in Runners(j)
        PROVE  Cardinality(Runners(j)) <= 1
    <3>1. Runners(j) = {r}
      BY <2>2 DEF SoleInv, Runners
    <3>2. Cardinality({r}) = 1
      BY FS_Singleton
    <3> QED
      BY <3>1, <3>2
  <2> QED
    BY <2>1, <2>2
<1> QED
  BY <1>1, HeardAlways, PTL

\* As long as the queue misses no InProgress of a live runner, it forgets a job
\* only when its record says done, and a job that is done has every page of its
\* site among its pages, however many runners failed or died before it was
\* (crawl/job.go, work and execute).
THEOREM DoneJobsWhole == Spec => []DoneIsWhole
<1>1. HeardInv => DoneIsWhole
  BY DEF HeardInv, SoleInv, JobInv, IsDone, Whole, Numbers, DoneIsWhole
<1> QED
  BY <1>1, HeardAlways, PTL

LEMMA DoneStep ==
  ASSUME HeardInv, [Next]_vars, ~missed', NEW j \in Job, IsDone(j)
  PROVE  record'[j] = record[j]
<1>0. SoleInv
  BY DEF HeardInv, Next, vars, SubmitPut, SubmitEnqueue, Queue, Expire, Deliver, Works, Get,
         Begin, Emit, Touch, WalkDone, Finish, Ack, Nak, StoreFails, Crash, ReadRecord,
         ReadPages
<1>1. TypeOK /\ record \in [Job -> Record]
  BY <1>0 DEF SoleInv, TypeOK
<1>2. CASE UNCHANGED record
  BY <1>2
<1>3. ASSUME NEW i \in Job, SubmitPut(i)
      PROVE  record'[j] = record[j]
  BY <1>1, <1>3 DEF SubmitPut, IsDone
<1>4. ASSUME NEW r \in Replica, Begin(r) \/ Touch(r) \/ Finish(r)
      PROVE  record'[j] = record[j]
  <2>1. Busy(r) /\ runner[r].pc \in Writing /\ RunnerInv(runner[r])
    BY <1>0, <1>4 DEF Begin, Touch, Finish, At, Writing, SoleInv
  <2>2. runner[r].job # j
    BY <2>1 DEF RunnerInv
  <2>3. \E s : Put(r, s)
    BY <1>4 DEF Begin, Touch, Finish
  <2> QED
    BY <1>1, <2>2, <2>3 DEF Put
<1>5. CASE UNCHANGED vars
  BY <1>2, <1>5 DEF vars, store
<1> QED
  BY <1>2, <1>3, <1>4, <1>5
     DEF Next, SubmitEnqueue, Queue, Expire, Deliver, Works, Get, Emit, WalkDone, Ack, Nak,
         StoreFails, Crash, ReadRecord, ReadPages, store

\* As long as the queue misses no InProgress of a live runner, nobody writes
\* over the record of a job that is done (crawl/job.go, execute).
THEOREM DoneJobsStay == Spec => DoneStays
<1> DEFINE Stays == ~missed' => \A j \in Job : IsDone(j) => record'[j] = record[j]
<1>1. HeardInv /\ [Next]_vars => Stays
  BY DoneStep
<1>2. Spec => [][Stays]_vars
  BY <1>1, HeardAlways, PTL DEF Spec
<1> QED
  BY <1>2 DEF Stays, DoneStays, IsDone

-----------------------------------------------------------------------------
(* What a caller is given. *)

\* The pages of an answer that starts at o of a job that has n pages at least:
\* as many as the limit, or up to the last of the n.
LEMMA GivenPages ==
  ASSUME CrawlAssumption, NEW j \in Job, NEW o \in Nat, NEW n \in Nat, Below(Numbers(j), n)
  PROVE  /\ Cardinality(Given(j, o)) \in Nat
         /\ Cardinality(Given(j, o)) = PageLimit \/ o + Cardinality(Given(j, o)) >= n
<1> DEFINE given == Given(j, o)
           g == Cardinality(given)
           window == o..(o + PageLimit - 1)
<1>0. PageLimit \in Nat \ {0}
  BY DEF CrawlAssumption
<1>1. IsFiniteSet(window) /\ Cardinality(window) = PageLimit
  BY <1>0, FS_Interval
<1>2. given \subseteq window
  BY DEF Given
<1>3. IsFiniteSet(given) /\ g \in Nat /\ g <= PageLimit
  BY <1>1, <1>2, FS_Subset, FS_CardinalityType
<1>4. ASSUME g # PageLimit, o + g < n PROVE FALSE
  <2>1. ASSUME NEW k \in o..(o + g) PROVE k \in given
    <3>1. k \in window
      BY <1>0, <1>3, <1>4, <2>1
    <3>2. ASSUME NEW i \in o..k PROVE i \in Numbers(j)
      BY <1>3, <1>4, <2>1, <3>2 DEF Below
    <3> QED
      BY <3>1, <3>2 DEF Given, Numbers
  <2>2. o..(o + g) \subseteq given
    BY <2>1
  <2>3. Cardinality(o..(o + g)) = g + 1
    BY <1>3, FS_Interval
  <2>4. g + 1 <= g
    BY <1>3, <2>2, <2>3, FS_Subset
  <2> QED
    BY <1>3, <2>4
<1> QED
  BY <1>3, <1>4

\* An answer that says done says so of a job that is, with its last count; and
\* one without next came after all that count.
Answer(j) ==
    view[j].status = "done" =>
      /\ IsDone(j) /\ view[j].count = record[j].count
      /\ view[j].pc = "ended" => view[j].offset >= record[j].count

AnswerInv == ~missed => \A j \in Job : Answer(j)

LEMMA AnswerStep ==
  ASSUME HeardInv, NumberedInv, AnswerInv, [Next]_vars
  PROVE  AnswerInv'
<1> SUFFICES ASSUME ~missed', NEW j \in Job PROVE Answer(j)'
  BY DEF AnswerInv
<1>1. ~missed
  BY DEF Next, vars, SubmitPut, SubmitEnqueue, Queue, Expire, Deliver, Works, Get, Begin,
         Emit, Touch, WalkDone, Finish, Ack, Nak, StoreFails, Crash, ReadRecord, ReadPages
<1>2. Answer(j) /\ TypeOK
  BY <1>1 DEF AnswerInv, HeardInv
<1>3. view \in [Job -> View] /\ view[j] \in View /\ record[j].count \in Nat
  BY <1>2 DEF TypeOK, Record
<1>4. CASE view'[j] = view[j]
  <2>1. IsDone(j) => record'[j] = record[j]
    BY <1>2, DoneStep
  <2> QED
    BY <1>2, <1>4, <2>1 DEF Answer, IsDone
<1>5. CASE ReadRecord(j)
  <2>1. /\ view'[j].pc = "pages" /\ view'[j].status = record[j].status
        /\ view'[j].count = record[j].count /\ record' = record
    BY <1>3, <1>5 DEF ReadRecord, store, View
  <2> QED
    BY <2>1 DEF Answer, IsDone
<1>6. CASE ReadPages(j)
  <2> DEFINE v == view[j]
             n == Cardinality(Given(j, v.offset))
             end == IF HasNext(v, n) THEN "record" ELSE "ended"
  <2>1. view' = [view EXCEPT ![j].pc = end, ![j].offset = @ + n] /\ record' = record
    BY <1>6 DEF ReadPages, store
  <2>2. n \in Nat /\ (n = PageLimit \/ v.offset + n >= record[j].count)
    BY <1>3, CrawlAssumption, GivenPages DEF NumberedInv, View
  <2>3. PageLimit \in Nat
    BY CrawlAssumption DEF CrawlAssumption
  <2> HIDE DEF n
  <2>4. /\ view'[j].pc = end /\ view'[j].status = v.status /\ view'[j].count = v.count
        /\ view'[j].offset = v.offset + n
    BY <1>3, <2>1 DEF View
  <2>5. v.count = record[j].count /\ end = "ended" => v.offset + n >= record[j].count
    BY <1>3, <2>2, <2>3 DEF HasNext, View
  <2> HIDE DEF v, end
  <2> QED
    BY <1>2, <2>1, <2>4, <2>5 DEF Answer, IsDone, v
<1>7. ASSUME NEW i \in Job, i # j, ReadRecord(i) \/ ReadPages(i)
      PROVE  view'[j] = view[j]
  BY <1>3, <1>7 DEF ReadRecord, ReadPages
<1>8. CASE UNCHANGED view
  BY <1>4, <1>8
<1> QED
  BY <1>4, <1>5, <1>6, <1>7, <1>8
     DEF Next, vars, SubmitPut, SubmitEnqueue, Queue, Expire, Deliver, Works, Get, Begin,
         Emit, Touch, WalkDone, Finish, Ack, Nak, StoreFails, Crash

\* As long as the queue misses no InProgress of a live runner, a caller who
\* follows next (httpapi/crawl.go) until an answer has none, and is told done,
\* has been given every page the record counts: the record is read before the
\* pages are, and neither shrinks.
THEOREM DoneJobsPagedWhole == Spec => []PagedWhole
<1>1. Init => AnswerInv
  BY DEF Init, AnswerInv, Answer
<1>2. AnswerInv => PagedWhole
  BY DEF AnswerInv, Answer, PagedWhole
<1>3. HeardInv /\ NumberedInv /\ AnswerInv /\ [Next]_vars => AnswerInv'
  BY AnswerStep
<1> QED
  BY <1>1, <1>2, <1>3, HeardAlways, NumberedAlways, PTL DEF Spec

-----------------------------------------------------------------------------
(***************************************************************************)
(* Theorems about the walk of a site under either of its callers, for any  *)
(* site, any bounds and any number of pages read at once.  The invariant   *)
(* says where every page that is known of is: in one of the sets of the    *)
(* walk and only one, at the depth it is due; and, of a map, in its list.  *)
(***************************************************************************)

Current == frontier \cup counted \cup fetching
EmittedUrls == {e.url : e \in emitted}
Known == Current \cup next \cup EmittedUrls

-----------------------------------------------------------------------------
(* A walk, whatever its caller does as a page lands: it may cancel the walk. *)

Landed(u) ==
    /\ LandFailed(u) \/ \E links \in PageLinks : Land(u, links)
    /\ cancelled' \in {cancelled, TRUE}

WalkNext == Loop \/ Cancel \/ Finished \/ \E u \in Url : Landed(u)

LEMMA LandingLands == ASSUME NEW u \in Url, Landing(u) PROVE Landed(u)
<1>1. CASE Fetched(u)
  BY <1>1 DEF Fetched, Landed
<1>2. CASE MapLand(u)
  BY <1>2 DEF MapLand, ListWhole, ListCut, Landed
<1>3. CASE MapLandFailed(u)
  BY <1>3 DEF MapLandFailed, Landed
<1> QED
  BY <1>1, <1>2, <1>3 DEF Landing

LEMMA MapStepIsWalkStep == [MapNext]_mapVars => [WalkNext]_walkVars
<1> SUFFICES ASSUME [MapNext]_mapVars PROVE [WalkNext]_walkVars
  OBVIOUS
<1>1. ASSUME NEW u \in Url, Landing(u) PROVE [WalkNext]_walkVars
  BY <1>1, LandingLands DEF WalkNext
<1>2. CASE WalkLoop \/ WalkCancelled
  BY <1>2 DEF WalkLoop, WalkCancelled, WalkNext
<1>3. CASE UNCHANGED mapVars
  BY <1>3 DEF mapVars
<1> QED
  BY <1>1, <1>2, <1>3 DEF MapNext

LEMMA MapIsWalk == MapSpec => WalkInit /\ [][WalkNext]_walkVars
<1>1. MapInit => WalkInit
  BY DEF MapInit
<1> QED
  BY <1>1, MapStepIsWalkStep, PTL DEF MapSpec

-----------------------------------------------------------------------------
(* What a page that lands comes to. *)

LandsAs(u, e, found) ==
    /\ u \in fetching /\ fetching' = fetching \ {u}
    /\ e \in Result /\ e.url = u /\ e.depth = depth
    /\ emitted' = emitted \cup {e}
    /\ found \subseteq Url /\ OneSpelling(found) /\ Keys(found) \cap seen = {}
    /\ next' = next \cup found /\ seen' = seen \cup Keys(found)
    /\ found # {} => e.ok /\ Follows
    /\ found \subseteq e.links \cap Admitted
    /\ e.ok /\ Follows => Keys(e.links \cap Admitted) \subseteq seen'
    /\ UNCHANGED coordinator
    /\ cancelled => cancelled'

LEMMA LandingIs ==
  ASSUME WalkTypeOK, NEW u \in Url, Landed(u)
  PROVE  \E e, found : LandsAs(u, e, found)
<1> USE WalkAssumption DEF WalkAssumption
<1>0. cancelled => cancelled'
  BY DEF Landed, WalkTypeOK
<1>1. CASE LandFailed(u)
  <2> DEFINE e == [url |-> u, depth |-> depth, ok |-> FALSE, links |-> {}]
  <2>1. e \in Result /\ e.url = u /\ e.depth = depth /\ e.ok = FALSE /\ e.links = {}
    BY DEF Result, WalkTypeOK
  <2> HIDE DEF e
  <2>2. emitted' = emitted \cup {e}
    BY <1>1 DEF LandFailed, e
  <2>3. OneSpelling({}) /\ Keys({}) = {}
    BY DEF OneSpelling, Keys
  <2>4. LandsAs(u, e, {})
    BY <1>0, <1>1, <2>1, <2>2, <2>3 DEF LandFailed, LandsAs
  <2> QED
    BY <2>4
<1>2. ASSUME NEW links \in PageLinks, Land(u, links)
      PROVE  \E e, found : LandsAs(u, e, found)
  <2> DEFINE e == [url |-> u, depth |-> depth, ok |-> TRUE, links |-> links]
  <2>1. e \in Result /\ e.url = u /\ e.depth = depth /\ e.ok = TRUE /\ e.links = links
    BY DEF Result, WalkTypeOK
  <2> HIDE DEF e
  <2>2. emitted' = emitted \cup {e}
    BY <1>2 DEF Land, e
  <2>3. PICK found \in SUBSET Url :
          /\ OneSpelling(found) /\ Keys(found) \cap seen = {}
          /\ next' = next \cup found /\ seen' = seen \cup Keys(found)
          /\ found # {} => Follows
          /\ found \subseteq links \cap Admitted
          /\ Follows => Keys(links \cap Admitted) \subseteq seen'
    <3>1. CASE Follows
      <4>1. PICK found \in Fresh(links \cap Admitted, seen) :
              next' = next \cup found /\ seen' = seen \cup Keys(found)
        BY <1>2, <3>1 DEF Land, Collect
      <4>2. /\ found \subseteq links \cap Admitted /\ OneSpelling(found)
            /\ Keys(found) = Keys(links \cap Admitted) \ seen
        BY <4>1 DEF Fresh
      <4> QED
        BY <3>1, <4>1, <4>2
    <3>2. CASE ~Follows
      <4>1. OneSpelling({}) /\ Keys({}) = {}
        BY DEF OneSpelling, Keys
      <4>2. next' = next \cup {} /\ seen' = seen \cup {}
        BY <1>2, <3>2 DEF Land
      <4> QED
        BY <3>2, <4>1, <4>2
    <3> QED
      BY <3>1, <3>2
  <2>4. UNCHANGED coordinator /\ u \in fetching /\ fetching' = fetching \ {u}
    BY <1>2 DEF Land
  <2>5. LandsAs(u, e, found)
    BY <1>0, <2>1, <2>2, <2>3, <2>4 DEF LandsAs
  <2> QED
    BY <2>5
<1> QED
  BY <1>1, <1>2 DEF Landed

-----------------------------------------------------------------------------
(* Types. *)

LEMMA WalkInitType == WalkInit => WalkTypeOK
<1> SUFFICES ASSUME WalkInit PROVE WalkTypeOK
  OBVIOUS
<1> USE WalkAssumption DEF WalkAssumption
<1>1. PICK found \in Fresh(Declared, {Canonical[Start]}) :
        frontier = {Start} \cup found /\ seen = {Canonical[Start]} \cup Keys(found)
  BY DEF WalkInit
<1>2. found \subseteq Url
  BY DEF Fresh
<1>3. frontier \subseteq Url /\ seen \subseteq Keys(Url)
  BY <1>1, <1>2 DEF Keys
<1> QED
  BY <1>3 DEF WalkInit, WalkTypeOK

LEMMA LandedType ==
  ASSUME WalkTypeOK, NEW u \in Url, NEW e, NEW found, LandsAs(u, e, found), cancelled' \in BOOLEAN
  PROVE  WalkTypeOK'
<1>1. UNCHANGED <<pc, depth, read, frontier, counted>>
  BY DEF LandsAs, coordinator
<1>2. /\ fetching' \subseteq Url /\ next' \subseteq Url /\ emitted' \subseteq Result
      /\ seen' \subseteq Keys(Url)
  BY DEF LandsAs, WalkTypeOK, Keys
<1> QED
  BY <1>1, <1>2 DEF WalkTypeOK

LEMMA WalkTypeStep == WalkTypeOK /\ [WalkNext]_walkVars => WalkTypeOK'
<1> SUFFICES ASSUME WalkTypeOK, [WalkNext]_walkVars PROVE WalkTypeOK'
  OBVIOUS
<1> USE WalkAssumption DEF WalkAssumption
<1>1. ASSUME NEW u \in Url, Consider(u) PROVE WalkTypeOK'
  BY <1>1 DEF Consider, shared, WalkTypeOK
<1>2. ASSUME NEW u \in Url, Launch(u) PROVE WalkTypeOK'
  BY <1>2 DEF Launch, shared, WalkTypeOK
<1>3. CASE EndLevel
  BY <1>3 DEF EndLevel, shared, WalkTypeOK
<1>4. CASE NextLevel
  BY <1>4 DEF NextLevel, WalkTypeOK
<1>5. ASSUME NEW u \in Url, Landed(u) PROVE WalkTypeOK'
  BY <1>5, LandingIs, LandedType DEF Landed, WalkTypeOK
<1>6. CASE Cancel
  BY <1>6 DEF Cancel, coordinator, shared, WalkTypeOK
<1>7. CASE Finished \/ UNCHANGED walkVars
  BY <1>7 DEF Finished, walkVars, coordinator, shared, WalkTypeOK
<1> QED
  BY <1>1, <1>2, <1>3, <1>4, <1>5, <1>6, <1>7 DEF WalkNext, Loop

\* Every variable keeps its type, and one page at most waits for the semaphore
\* (crawl/walk.go, Walk).
THEOREM WalkTypeCorrect == MapSpec => []WalkTypeOK
  BY WalkInitType, WalkTypeStep, MapIsWalk, PTL

-----------------------------------------------------------------------------
(* Where the pages are: each in one set at most, under one spelling, and     *)
(* known; how many of them were counted.                                     *)

Apart ==
    /\ frontier \cap counted = {} /\ frontier \cap fetching = {}
    /\ counted \cap fetching = {}
    /\ Current \cap next = {} /\ (Current \cup next) \cap EmittedUrls = {}

PlaceInv ==
    /\ WalkTypeOK
    /\ Apart
    /\ OneSpelling(Known) /\ Keys(Known) \subseteq seen
    /\ \A d, e \in emitted : d.url = e.url => d = e

LEMMA PlaceInit == WalkInit => PlaceInv
<1> SUFFICES ASSUME WalkInit PROVE PlaceInv
  OBVIOUS
<1>1. PICK found \in Fresh(Declared, {Canonical[Start]}) :
        frontier = {Start} \cup found /\ seen = {Canonical[Start]} \cup Keys(found)
  BY DEF WalkInit
<1>2. /\ OneSpelling(found)
      /\ \A u \in found : Canonical[u] # Canonical[Start]
  BY DEF Fresh
<1>3. Known = {Start} \cup found
  BY <1>1 DEF WalkInit, Known, Current, EmittedUrls
<1>4. OneSpelling(Known)
  BY <1>2, <1>3 DEF OneSpelling
<1>5. Keys(Known) \subseteq seen
  BY <1>1, <1>3 DEF Keys
<1>6. Apart /\ \A d, e \in emitted : d.url = e.url => d = e
  BY DEF WalkInit, Apart, Current, EmittedUrls
<1> QED
  BY <1>4, <1>5, <1>6, WalkInitType DEF PlaceInv

\* The pages of the walk are some of those there were.
LEMMA PlaceFewer ==
  ASSUME PlaceInv, WalkTypeOK', Apart', UNCHANGED <<seen, emitted>>, Known' \subseteq Known
  PROVE  PlaceInv'
<1>1. OneSpelling(Known)'
  BY DEF PlaceInv, OneSpelling
<1>2. (Keys(Known) \subseteq seen)'
  BY DEF PlaceInv, Keys
<1> QED
  BY <1>1, <1>2 DEF PlaceInv

LEMMA PlaceLanded ==
  ASSUME PlaceInv, WalkTypeOK', NEW u \in Url, NEW e, NEW found, LandsAs(u, e, found)
  PROVE  PlaceInv'
<1>1. UNCHANGED <<frontier, counted>> /\ fetching' = fetching \ {u} /\ u \in fetching
      /\ next' = next \cup found /\ emitted' = emitted \cup {e} /\ e.url = u
      /\ seen' = seen \cup Keys(found) /\ OneSpelling(found) /\ Keys(found) \cap seen = {}
  BY DEF LandsAs, coordinator
<1>2. EmittedUrls' = EmittedUrls \cup {u}
  BY <1>1 DEF EmittedUrls
<1>3. Known' = Known \cup found
  BY <1>1, <1>2 DEF Known, Current
<1>4. u \in Known
  BY <1>1 DEF Known, Current
<1>5. \A v \in found : \A w \in Known : Canonical[v] # Canonical[w]
  BY <1>1 DEF PlaceInv, Keys
<1>6. OneSpelling(Known')
  BY <1>1, <1>3, <1>5 DEF PlaceInv, OneSpelling
<1>7. Keys(Known') \subseteq seen'
  BY <1>1, <1>3 DEF PlaceInv, Keys
<1>8. Apart'
  <2>1. found \cap Known = {}
    BY <1>5
  <2> QED
    BY <1>1, <1>2, <2>1 DEF PlaceInv, Apart, Known, Current
<1>9. \A d, f \in emitted' : d.url = f.url => d = f
  <2>1. \A d \in emitted : d.url # u
    BY <1>1 DEF PlaceInv, Apart, Current, EmittedUrls
  <2> QED
    BY <1>1, <2>1 DEF PlaceInv
<1> QED
  BY <1>6, <1>7, <1>8, <1>9 DEF PlaceInv

LEMMA PlaceStep == PlaceInv /\ [WalkNext]_walkVars => PlaceInv'
<1> SUFFICES ASSUME PlaceInv, [WalkNext]_walkVars PROVE PlaceInv'
  OBVIOUS
<1>1. WalkTypeOK /\ Apart /\ WalkTypeOK'
  BY WalkTypeStep DEF PlaceInv
<1>2. ASSUME NEW u \in Url, Consider(u)
      PROVE  PlaceInv'
  <2>1. /\ UNCHANGED <<fetching, next, seen, emitted>> /\ EmittedUrls' = EmittedUrls
        /\ u \in frontier /\ frontier' = frontier \ {u}
        /\ counted = {} /\ (counted' = {u} \/ counted' = {})
    BY <1>2 DEF Consider, shared, EmittedUrls
  <2>2. Apart' /\ Known' \subseteq Known
    BY <1>1, <2>1 DEF Apart, Known, Current
  <2> QED
    BY <1>1, <2>1, <2>2, PlaceFewer
<1>3. ASSUME NEW u \in Url, Launch(u)
      PROVE  PlaceInv'
  <2>1. /\ UNCHANGED <<frontier, next, seen, emitted>> /\ EmittedUrls' = EmittedUrls
        /\ u \in counted /\ counted' = {} /\ fetching' = fetching \cup {u}
    BY <1>3 DEF Launch, shared, EmittedUrls
  <2>2. Apart' /\ Known' \subseteq Known
    BY <1>1, <2>1 DEF Apart, Known, Current
  <2> QED
    BY <1>1, <2>1, <2>2, PlaceFewer
<1>4. CASE NextLevel
  <2>1. /\ UNCHANGED <<counted, fetching, seen, emitted>> /\ EmittedUrls' = EmittedUrls
        /\ frontier' = next /\ next' = {}
    BY <1>4 DEF NextLevel, EmittedUrls
  <2>2. Apart' /\ Known' \subseteq Known
    BY <1>1, <2>1 DEF Apart, Known, Current
  <2> QED
    BY <1>1, <2>1, <2>2, PlaceFewer
<1>5. CASE UNCHANGED <<frontier, counted, fetching, next, seen, emitted>>
  BY <1>1, <1>5, PlaceFewer DEF Apart, Known, Current, EmittedUrls
<1>6. ASSUME NEW u \in Url, Landed(u)
      PROVE  PlaceInv'
  BY <1>1, <1>6, LandingIs, PlaceLanded
<1> QED
  BY <1>2, <1>3, <1>4, <1>5, <1>6
     DEF WalkNext, Loop, EndLevel, Cancel, Finished, walkVars, coordinator, shared

LEMMA PlaceAlways == MapSpec => []PlaceInv
  BY PlaceInit, PlaceStep, MapIsWalk, PTL

\* No page is read twice in a walk, however it is spelled and linked to
\* (crawl/walk.go, seen; crawl/scope.go, canonical).
THEOREM PagesReadOnce == MapSpec => []ReadOnce
<1>1. PlaceInv => ReadOnce
  BY DEF PlaceInv, ReadOnce, OneSpelling, Known, EmittedUrls
<1> QED
  BY <1>1, PlaceAlways, PTL

-----------------------------------------------------------------------------
CountInv ==
    /\ PlaceInv
    /\ IsFiniteSet(emitted)
    /\ pc # "level" => counted = {}
    /\ CountIsEmitted

LEMMA CountInit == WalkInit => CountInv
<1> SUFFICES ASSUME WalkInit PROVE CountInv
  OBVIOUS
<1>1. Cardinality({}) = 0 /\ IsFiniteSet({})
  BY FS_EmptySet
<1>2. CountIsEmitted
  BY <1>1, WalkAssumption DEF WalkInit, CountIsEmitted, WalkAssumption
<1> QED
  BY <1>1, <1>2, PlaceInit DEF WalkInit, CountInv

LEMMA CountTypes ==
  ASSUME CountInv
  PROVE  /\ IsFiniteSet(fetching) /\ IsFiniteSet(emitted)
         /\ Cardinality(fetching) \in Nat /\ Cardinality(emitted) \in Nat
         /\ read \in Nat /\ MaxPages \in Nat /\ Concurrency \in Nat
<1>1. IsFiniteSet(fetching) /\ IsFiniteSet(emitted)
  BY WalkAssumption, FS_Subset DEF CountInv, PlaceInv, WalkTypeOK, WalkAssumption
<1> QED
  BY <1>1, FS_CardinalityType, WalkAssumption DEF CountInv, PlaceInv, WalkTypeOK, WalkAssumption

LEMMA CountLanded ==
  ASSUME CountInv, PlaceInv', NEW u \in Url, NEW e, NEW found, LandsAs(u, e, found)
  PROVE  CountInv'
<1>1. /\ UNCHANGED <<pc, read, counted>> /\ u \in fetching /\ fetching' = fetching \ {u}
      /\ emitted' = emitted \cup {e} /\ e.url = u
  BY DEF LandsAs, coordinator
<1>2. e \notin emitted
  BY <1>1 DEF CountInv, PlaceInv, Apart, Current, EmittedUrls
<1>3. Cardinality(fetching') = Cardinality(fetching) - 1
  BY <1>1, CountTypes, FS_RemoveElement
<1>4. IsFiniteSet(emitted') /\ Cardinality(emitted') = Cardinality(emitted) + 1
  BY <1>1, <1>2, CountTypes, FS_AddElement
<1>5. Cardinality(counted) \in Nat
  <2>1. IsFiniteSet(counted)
    <3>1. counted \subseteq Url
      BY DEF CountInv, PlaceInv, WalkTypeOK
    <3> QED
      BY <3>1, WalkAssumption, FS_Subset DEF WalkAssumption
  <2> QED
    BY <2>1, FS_CardinalityType
<1>6. pc # "done"
  BY <1>1 DEF CountInv, CountIsEmitted
<1>7. CountIsEmitted'
  BY <1>1, <1>3, <1>4, <1>5, <1>6, CountTypes DEF CountInv, CountIsEmitted
<1> QED
  BY <1>1, <1>4, <1>7 DEF CountInv

LEMMA CountStep == CountInv /\ [WalkNext]_walkVars => CountInv'
<1> SUFFICES ASSUME CountInv, [WalkNext]_walkVars PROVE CountInv'
  OBVIOUS
<1>1. PlaceInv /\ PlaceInv' /\ WalkTypeOK /\ Apart
  BY PlaceStep DEF CountInv, PlaceInv
<1>2. Cardinality({}) = 0 /\ \A u \in Url : Cardinality({u}) = 1
  BY FS_EmptySet, FS_Singleton
<1>3. ASSUME NEW u \in Url, Consider(u)
      PROVE  CountInv'
  <2>1. /\ UNCHANGED <<pc, fetching, emitted>> /\ pc = "level" /\ counted = {} /\ Room
        /\ \/ read' = read + 1 /\ counted' = {u}
           \/ UNCHANGED <<read, counted>>
    BY <1>3 DEF Consider, shared
  <2>2. CountIsEmitted'
    BY <1>2, <2>1, CountTypes DEF CountInv, CountIsEmitted, Room
  <2> QED
    BY <1>1, <2>1, <2>2 DEF CountInv
<1>4. ASSUME NEW u \in Url, Launch(u)
      PROVE  CountInv'
  <2>1. /\ UNCHANGED <<pc, read, emitted>> /\ pc = "level" /\ u \in counted
        /\ counted' = {} /\ fetching' = fetching \cup {u}
        /\ Cardinality(fetching) < Concurrency
    BY <1>4 DEF Launch, shared
  <2>2. counted = {u} /\ u \notin fetching
    BY <1>1, <2>1 DEF WalkTypeOK, Apart
  <2>3. Cardinality(fetching') = Cardinality(fetching) + 1
    BY <2>1, <2>2, CountTypes, FS_AddElement
  <2>4. CountIsEmitted'
    BY <1>2, <2>1, <2>2, <2>3, CountTypes DEF CountInv, CountIsEmitted
  <2> QED
    BY <1>1, <2>1, <2>4 DEF CountInv
<1>5. CASE EndLevel \/ NextLevel
  <2>1. /\ UNCHANGED <<read, counted, fetching, emitted>>
        /\ pc' = "wait" \/ (pc = "wait" /\ fetching = {})
        /\ pc = "level" => counted = {}
    BY <1>5 DEF EndLevel, NextLevel, shared
  <2>2. counted = {}
    BY <2>1 DEF CountInv
  <2>3. CountIsEmitted'
    BY <2>1, <2>2 DEF CountInv, CountIsEmitted
  <2> QED
    BY <1>1, <2>1, <2>2, <2>3 DEF CountInv
<1>6. CASE UNCHANGED <<pc, read, counted, fetching, emitted>>
  BY <1>1, <1>6 DEF CountInv, CountIsEmitted
<1>7. ASSUME NEW u \in Url, Landed(u)
      PROVE  CountInv'
  BY <1>1, <1>7, LandingIs, CountLanded
<1> QED
  BY <1>3, <1>4, <1>5, <1>6, <1>7
     DEF WalkNext, Loop, Cancel, Finished, walkVars, coordinator, shared

\* read, which bounds the walk and is what it returns, is the pages emitted and
\* those on their way, and never passes MaxPages (crawl/walk.go, Walk).
THEOREM CountsWhatIsEmitted == MapSpec => []CountIsEmitted
<1>1. CountInv => CountIsEmitted
  BY DEF CountInv
<1> QED
  BY <1>1, CountInit, CountStep, MapIsWalk, PTL

-----------------------------------------------------------------------------
(* How deep every page is: what is due at a level is linked to from the level *)
(* above and from none before it, and what was linked to before is known.     *)

DueAt(u, n) ==
    /\ n = 0 <=> Canonical[u] \in Seeds
    /\ n > 0 => \E p \in emitted : p.depth + 1 = n /\ LinksTo(p, u)
    /\ \A p \in emitted : LinksTo(p, u) => n <= p.depth + 1

DepthInv ==
    /\ CountInv
    /\ pc # "done" => depth <= MaxDepth
    /\ Seeds \subseteq seen
    /\ next # {} => depth < MaxDepth
    /\ \A e \in emitted : e.depth <= depth /\ e.depth <= MaxDepth
    /\ \A e \in emitted : e.ok /\ e.depth < MaxDepth => Keys(e.links \cap Admitted) \subseteq seen
    /\ \A e \in emitted : DueAt(e.url, e.depth)
    /\ \A u \in Current : DueAt(u, depth)
    /\ \A u \in next : DueAt(u, depth + 1)

LEMMA DepthInit == WalkInit => DepthInv
<1> SUFFICES ASSUME WalkInit PROVE DepthInv
  OBVIOUS
<1>1. PICK found \in Fresh(Declared, {Canonical[Start]}) :
        frontier = {Start} \cup found /\ seen = {Canonical[Start]} \cup Keys(found)
  BY DEF WalkInit
<1>2. found \subseteq Declared /\ Keys(found) = Keys(Declared) \ {Canonical[Start]}
  BY DEF Fresh
<1>3. Seeds \subseteq seen
  BY <1>1, <1>2 DEF Seeds, Keys
<1>4. Current = {Start} \cup found
  BY <1>1 DEF WalkInit, Current
<1>5. \A u \in Current : Canonical[u] \in Seeds
  BY <1>2, <1>4 DEF Seeds, Keys
<1>6. \A u \in Current : DueAt(u, depth)
  BY <1>5 DEF WalkInit, DueAt
<1>7. 0 <= MaxDepth
  BY WalkAssumption DEF WalkAssumption
<1> QED
  BY <1>3, <1>6, <1>7, CountInit DEF WalkInit, DepthInv

\* A page that lands takes nothing from what is due so far, at any depth a
\* page of the walk is due.
LEMMA DueStays ==
  ASSUME WalkTypeOK, NEW e \in Result, e.depth = depth, emitted' = emitted \cup {e},
         NEW v, NEW n \in Nat, n <= depth + 1, DueAt(v, n)
  PROVE  DueAt(v, n)'
<1>1. \A p \in emitted' : LinksTo(p, v) => n <= p.depth + 1
  BY DEF DueAt
<1>2. n > 0 => \E p \in emitted' : p.depth + 1 = n /\ LinksTo(p, v)
  BY DEF DueAt
<1> QED
  BY <1>1, <1>2 DEF DueAt

LEMMA DepthLanded ==
  ASSUME DepthInv, CountInv', NEW u \in Url, NEW e, NEW found, LandsAs(u, e, found)
  PROVE  DepthInv'
<1>1. /\ UNCHANGED <<pc, depth, frontier, counted>> /\ u \in fetching /\ fetching' = fetching \ {u}
      /\ emitted' = emitted \cup {e} /\ e \in Result /\ e.url = u /\ e.depth = depth
      /\ next' = next \cup found /\ seen' = seen \cup Keys(found)
      /\ found # {} => e.ok /\ Follows
      /\ found \subseteq e.links \cap Admitted /\ Keys(found) \cap seen = {}
      /\ e.ok /\ Follows => Keys(e.links \cap Admitted) \subseteq seen'
  BY DEF LandsAs, coordinator
<1>2. /\ WalkTypeOK /\ depth \in Nat /\ MaxDepth \in Nat /\ emitted \subseteq Result
      /\ \A p \in emitted : p.depth \in Nat
  BY WalkAssumption DEF DepthInv, CountInv, PlaceInv, WalkTypeOK, Result, WalkAssumption
<1>3. pc # "done" /\ depth <= MaxDepth
  BY <1>1 DEF DepthInv, CountInv, CountIsEmitted
<1>4. Follows <=> depth < MaxDepth
  BY <1>2, <1>3 DEF Follows
<1>5. \A f \in emitted' : f.depth <= depth /\ f.depth <= MaxDepth
  BY <1>1, <1>2, <1>3 DEF DepthInv
<1>6. \A f \in emitted' : f.ok /\ f.depth < MaxDepth => Keys(f.links \cap Admitted) \subseteq seen'
  BY <1>1, <1>4 DEF DepthInv
<1>7. ASSUME NEW v, NEW n \in Nat, n <= depth + 1, DueAt(v, n)
      PROVE  DueAt(v, n)'
  BY <1>1, <1>2, <1>7, DueStays
<1>8. \A v \in Current' : DueAt(v, depth)'
  <2>1. Current' \subseteq Current
    BY <1>1 DEF Current
  <2>2. depth \in Nat /\ depth <= depth + 1
    BY <1>2
  <2> QED
    BY <1>1, <1>7, <2>1, <2>2 DEF DepthInv
<1>9. \A f \in emitted' : DueAt(f.url, f.depth)'
  <2>1. DueAt(u, depth)
    BY <1>1 DEF DepthInv, Current
  <2>2. ASSUME NEW f \in emitted'
        PROVE  DueAt(f.url, f.depth) /\ f.depth \in Nat /\ f.depth <= depth + 1
    BY <1>1, <1>2, <2>1, <2>2 DEF DepthInv
  <2> QED
    BY <1>7, <2>2
<1>10. ASSUME NEW v \in next'
       PROVE  DueAt(v, depth + 1)'
  <2>1. CASE v \in next
    <3>1. depth + 1 \in Nat /\ depth + 1 <= depth + 1
      BY <1>2
    <3> QED
      BY <1>1, <1>7, <2>1, <3>1 DEF DepthInv
  <2>2. CASE v \in found
    <3>1. e.ok /\ depth < MaxDepth /\ v \in e.links \cap Admitted
      BY <1>1, <1>4, <2>2
    <3>2. Canonical[v] \notin seen
      BY <1>1, <2>2 DEF Keys
    <3>3. LinksTo(e, v)
      BY <3>1 DEF LinksTo
    <3>4. \A p \in emitted : ~LinksTo(p, v)
      <4> SUFFICES ASSUME NEW p \in emitted, LinksTo(p, v) PROVE FALSE
        OBVIOUS
      <4>1. p.depth < MaxDepth
        BY <1>2, <3>1, WalkAssumption DEF DepthInv, WalkAssumption
      <4>2. Canonical[v] \in Keys(p.links \cap Admitted) /\ p.ok
        BY DEF LinksTo, Keys
      <4> QED
        BY <3>2, <4>1, <4>2 DEF DepthInv
    <3>5. Canonical[v] \notin Seeds
      BY <3>2 DEF DepthInv
    <3>6. depth + 1 # 0 /\ depth + 1 > 0 /\ depth + 1 <= depth + 1
      BY <1>2
    <3>7. \A p \in emitted' : LinksTo(p, v) => p = e
      BY <1>1, <3>4
    <3> QED
      BY <1>1, <3>3, <3>5, <3>6, <3>7 DEF DueAt
  <2> QED
    BY <1>1, <2>1, <2>2
<1>11. (Seeds \subseteq seen)' /\ (next # {} => depth < MaxDepth)'
  BY <1>1, <1>4 DEF DepthInv, Seeds
<1> QED
  BY <1>1, <1>3, <1>5, <1>6, <1>8, <1>9, <1>10, <1>11 DEF DepthInv

\* The loop goes on within a level.
LEMMA DepthStill ==
  ASSUME DepthInv, CountInv', UNCHANGED <<depth, next, seen, emitted>>,
         Current' \subseteq Current, pc = "done" => pc' = "done"
  PROVE  DepthInv'
<1>1. \A v, n : DueAt(v, n)' <=> DueAt(v, n)
  BY DEF DueAt
<1>2. /\ \A e \in emitted' : DueAt(e.url, e.depth)'
      /\ \A u \in Current' : DueAt(u, depth)'
      /\ \A u \in next' : DueAt(u, depth + 1)'
  BY <1>1 DEF DepthInv
<1> QED
  BY <1>2 DEF DepthInv, Seeds

LEMMA DepthStep == DepthInv /\ [WalkNext]_walkVars => DepthInv'
<1> SUFFICES ASSUME DepthInv, [WalkNext]_walkVars PROVE DepthInv'
  OBVIOUS
<1>1. CountInv' /\ WalkTypeOK
  BY CountStep DEF DepthInv, CountInv, PlaceInv
<1>2. ASSUME NEW u \in Url, Consider(u) \/ Launch(u)
      PROVE  DepthInv'
  <2>1. /\ UNCHANGED <<pc, depth, next, seen, emitted>> /\ pc = "level"
        /\ Current' \subseteq Current
    BY <1>1, <1>2 DEF Consider, Launch, shared, Current
  <2> QED
    BY <1>1, <2>1, DepthStill
<1>3. CASE EndLevel
  <2>1. /\ UNCHANGED <<depth, next, seen, emitted>> /\ pc = "level" /\ pc' = "wait"
        /\ Current' = Current
    BY <1>3 DEF EndLevel, shared, Current
  <2> QED
    BY <1>1, <2>1, DepthStill
<1>4. CASE NextLevel
  <2>1. /\ UNCHANGED <<seen, emitted>> /\ fetching = {} /\ fetching' = {}
        /\ depth' = depth + 1 /\ frontier' = next /\ next' = {} /\ counted' = counted
        /\ pc' # "done" => depth + 1 <= MaxDepth
    BY <1>4 DEF NextLevel
  <2>2. \A v, n : DueAt(v, n)' <=> DueAt(v, n)
    BY <2>1 DEF DueAt
  <2>3. \A e \in emitted : e.depth \in Nat
    BY <1>1 DEF WalkTypeOK, Result
  <2>4. \A e \in emitted' : e.depth <= depth' /\ e.depth <= MaxDepth
    BY <1>1, <2>1, <2>3 DEF DepthInv, WalkTypeOK
  <2>5. Current' = next
    BY <1>4, <2>1 DEF Current, NextLevel, DepthInv, CountInv
  <2> QED
    BY <1>1, <2>1, <2>2, <2>4, <2>5 DEF DepthInv, Seeds
<1>5. CASE UNCHANGED <<pc, depth, frontier, counted, fetching, next, seen, emitted>>
  BY <1>1, <1>5, DepthStill DEF Current, DepthInv
<1>6. ASSUME NEW u \in Url, Landed(u)
      PROVE  DepthInv'
  BY <1>1, <1>6, LandingIs, DepthLanded
<1> QED
  BY <1>2, <1>3, <1>4, <1>5, <1>6
     DEF WalkNext, Loop, Cancel, Finished, walkVars, coordinator, shared

LEMMA DepthAlways == MapSpec => []DepthInv
  BY DepthInit, DepthStep, MapIsWalk, PTL

\* The walk is breadth-first (crawl/walk.go, Walk): a page is emitted at the
\* length of the shortest chain of links that leads to it.
THEOREM WalksBreadthFirst == MapSpec => []BreadthFirst
<1>1. DepthInv => BreadthFirst
  <2> SUFFICES ASSUME DepthInv, NEW e \in emitted
               PROVE  e.depth <= MaxDepth /\ DueAt(e.url, e.depth)
    BY DEF BreadthFirst, DueAt
  <2> QED
    BY DEF DepthInv
<1> QED
  BY <1>1, DepthAlways, PTL

-----------------------------------------------------------------------------
(* Nothing that is known is lost: unless the walk was broken off, a key that *)
(* was seen is a page the walk still has, or one that robots.txt forbids.    *)

Forbidden(k) == \E u \in Url \ Allowed : Canonical[u] = k

WholeWalk == ~cancelled /\ Room

KeptInv ==
    /\ DepthInv
    /\ WholeWalk => \A k \in seen : k \in Keys(Known) \/ Forbidden(k)
    /\ WholeWalk /\ pc # "level" => frontier = {}
    /\ pc = "done" => next = {}

LEMMA KeptInit == WalkInit => KeptInv
<1> SUFFICES ASSUME WalkInit PROVE KeptInv
  OBVIOUS
<1>1. seen = Keys(Known)
  BY DEF WalkInit, Known, Current, EmittedUrls, Keys
<1> QED
  BY <1>1, DepthInit DEF WalkInit, KeptInv

\* A walk that is not broken off was not before, and its pages are all there.
LEMMA KeptMore ==
  ASSUME KeptInv, DepthInv', WholeWalk' => WholeWalk, seen' = seen, Known \subseteq Known',
         WholeWalk' /\ pc' # "level" => frontier' = {},
         pc' = "done" => next' = {}
  PROVE  KeptInv'
<1>1. ASSUME WholeWalk', NEW k \in seen'
      PROVE  k \in Keys(Known)' \/ Forbidden(k)
  BY <1>1 DEF KeptInv, Keys
<1>2. WholeWalk' => \A k \in seen' : k \in Keys(Known)' \/ Forbidden(k)
  BY <1>1
<1> QED
  BY <1>2 DEF KeptInv, Forbidden

LEMMA KeptLanded ==
  ASSUME KeptInv, DepthInv', NEW u \in Url, NEW e, NEW found, LandsAs(u, e, found)
  PROVE  KeptInv'
<1>1. /\ UNCHANGED <<pc, read, frontier, counted>> /\ u \in fetching /\ fetching' = fetching \ {u}
      /\ emitted' = emitted \cup {e} /\ e.url = u
      /\ next' = next \cup found /\ seen' = seen \cup Keys(found)
      /\ cancelled => cancelled'
  BY DEF LandsAs, coordinator
<1>2. Known' = Known \cup found
  <2>1. EmittedUrls' = EmittedUrls \cup {u}
    BY <1>1 DEF EmittedUrls
  <2> QED
    BY <1>1, <2>1 DEF Known, Current
<1>3. WholeWalk' => WholeWalk
  BY <1>1 DEF WholeWalk, Room
<1>4. ASSUME WholeWalk', NEW k \in seen'
      PROVE  k \in Keys(Known') \/ Forbidden(k)
  BY <1>1, <1>2, <1>3, <1>4 DEF KeptInv, Keys
<1>5. pc # "done"
  BY <1>1 DEF KeptInv, DepthInv, CountInv, CountIsEmitted
<1>6. WholeWalk' => \A k \in seen' : k \in Keys(Known)' \/ Forbidden(k)
  BY <1>4 DEF Keys
<1> QED
  BY <1>1, <1>3, <1>5, <1>6 DEF KeptInv, Forbidden

LEMMA KeptStep == KeptInv /\ [WalkNext]_walkVars => KeptInv'
<1> SUFFICES ASSUME KeptInv, [WalkNext]_walkVars PROVE KeptInv'
  OBVIOUS
<1>1. DepthInv' /\ WalkTypeOK /\ (pc # "level" => counted = {})
  BY DepthStep DEF KeptInv, DepthInv, CountInv, PlaceInv
<1>2. ASSUME NEW u \in Url, Consider(u)
      PROVE  KeptInv'
  <2>1. /\ UNCHANGED <<pc, fetching, next, seen, emitted, cancelled>> /\ pc = "level"
        /\ u \in frontier /\ frontier' = frontier \ {u} /\ counted = {} /\ WholeWalk
        /\ EmittedUrls' = EmittedUrls
        /\ \/ u \in Allowed /\ counted' = {u}
           \/ u \notin Allowed /\ counted' = {}
    BY <1>2 DEF Consider, shared, WholeWalk, EmittedUrls
  <2>2. CASE u \in Allowed
    <3>1. Known' = Known
      BY <2>1, <2>2 DEF Known, Current
    <3> QED
      BY <1>1, <2>1, <3>1, KeptMore
  <2>3. CASE u \notin Allowed
    <3>1. Known \ {u} \subseteq Known'
      BY <2>1, <2>3 DEF Known, Current
    <3>2. Forbidden(Canonical[u])
      BY <2>3 DEF Forbidden
    <3>3. ASSUME NEW k \in seen
          PROVE  k \in Keys(Known') \/ Forbidden(k)
      BY <2>1, <3>1, <3>2 DEF KeptInv, Keys
    <3>4. WholeWalk' => \A k \in seen' : k \in Keys(Known)' \/ Forbidden(k)
      BY <2>1, <3>3 DEF Keys
    <3> QED
      BY <1>1, <2>1, <3>4 DEF KeptInv, Forbidden
  <2> QED
    BY <2>2, <2>3
<1>3. ASSUME NEW u \in Url, Launch(u)
      PROVE  KeptInv'
  <2>1. /\ UNCHANGED <<pc, read, frontier, next, seen, emitted, cancelled>> /\ pc = "level"
        /\ u \in counted /\ counted' = {} /\ fetching' = fetching \cup {u}
        /\ EmittedUrls' = EmittedUrls
    BY <1>3 DEF Launch, shared, EmittedUrls
  <2>2. counted = {u}
    BY <1>1, <2>1 DEF WalkTypeOK
  <2>3. Known' = Known
    BY <2>1, <2>2 DEF Known, Current
  <2> QED
    BY <1>1, <2>1, <2>3, KeptMore DEF WholeWalk, Room
<1>4. CASE EndLevel
  <2>1. /\ UNCHANGED <<read, frontier, counted, fetching, next, seen, emitted, cancelled>>
        /\ pc' = "wait" /\ (frontier = {} \/ ~WholeWalk) /\ EmittedUrls' = EmittedUrls
    BY <1>4 DEF EndLevel, shared, WholeWalk, EmittedUrls
  <2>2. Known' = Known /\ (WholeWalk' <=> WholeWalk)
    BY <2>1 DEF Known, Current, WholeWalk, Room
  <2> QED
    BY <1>1, <2>1, <2>2, KeptMore
<1>5. CASE NextLevel
  <2>1. /\ UNCHANGED <<read, counted, fetching, seen, emitted, cancelled>> /\ pc = "wait"
        /\ frontier' = next /\ next' = {} /\ EmittedUrls' = EmittedUrls
        /\ (WholeWalk' <=> WholeWalk)
        /\ pc' = "level" \/ depth + 1 > MaxDepth \/ next = {} \/ ~WholeWalk
    BY <1>1, <1>5, WalkAssumption
       DEF NextLevel, WholeWalk, EmittedUrls, Room, WalkTypeOK, WalkAssumption
  <2>2. WholeWalk => frontier = {}
    BY <2>1 DEF KeptInv
  <2>3. WholeWalk => Known' = Known
    BY <2>1, <2>2 DEF Known, Current
  <2>4. depth + 1 > MaxDepth => next = {}
    BY <1>1, WalkAssumption DEF KeptInv, DepthInv, WalkTypeOK, WalkAssumption
  <2>5. WholeWalk' => \A k \in seen' : k \in Keys(Known)' \/ Forbidden(k)
    BY <2>1, <2>3 DEF KeptInv, Keys
  <2> QED
    BY <1>1, <2>1, <2>4, <2>5 DEF KeptInv, Forbidden
<1>6. ASSUME NEW u \in Url, Landed(u)
      PROVE  KeptInv'
  BY <1>1, <1>6, LandingIs, KeptLanded
<1>7. CASE /\ UNCHANGED <<pc, read, frontier, counted, fetching, next, seen, emitted>>
           /\ cancelled => cancelled'
  <2>1. Known' = Known /\ (WholeWalk' => WholeWalk)
    BY <1>7 DEF Known, Current, EmittedUrls, WholeWalk, Room
  <2> QED
    BY <1>1, <1>7, <2>1, KeptMore DEF KeptInv
<1> QED
  BY <1>2, <1>3, <1>4, <1>5, <1>6, <1>7
     DEF WalkNext, Loop, Cancel, Finished, walkVars, coordinator, shared

LEMMA KeptAlways == MapSpec => []KeptInv
  BY KeptInit, KeptStep, MapIsWalk, PTL

\* A walk that is neither cancelled nor full has emitted every page its seeds
\* and links lead to within its depth, robots.txt allowing (crawl/walk.go).
THEOREM NoPageMissed == MapSpec => []NothingMissed
<1>1. KeptInv => NothingMissed
  <2> SUFFICES ASSUME KeptInv, pc = "done", ~cancelled, read < MaxPages,
                      NEW k \in Seeds \cup
                        {Canonical[l] : l \in UNION {p.links \cap Admitted :
                           p \in {q \in emitted : q.ok /\ q.depth < MaxDepth}}}
               PROVE  k \in Keys(EmittedUrls) \/ Forbidden(k)
    BY DEF NothingMissed, EmittedUrls, Forbidden
  <2>1. k \in seen
    BY DEF KeptInv, DepthInv, Keys
  <2>2. frontier = {} /\ next = {} /\ counted = {} /\ fetching = {} /\ WholeWalk
    BY DEF KeptInv, DepthInv, CountInv, CountIsEmitted, WholeWalk, Room
  <2>3. Known = EmittedUrls
    BY <2>2 DEF Known, Current
  <2> QED
    BY <2>1, <2>2, <2>3 DEF KeptInv
<1> QED
  BY <1>1, KeptAlways, PTL

-----------------------------------------------------------------------------
(* The list of a map: whatever the walk knows of is in it, or it is full.    *)

Holds(list, known) == Keys(known) \subseteq Keys(list) \/ Full(list)

GoodList(list) == list \subseteq Url /\ OneSpelling(list) /\ Fits(list)

ListInv ==
    /\ PlaceInv
    /\ caller # "crawl" =>
         /\ GoodList(urls)
         /\ Holds(urls, Known)
         /\ \A e \in emitted : Holds(urls, e.links \cap Admitted)

LEMMA ListGrows ==
  ASSUME NEW list, GoodList(list), NEW links, NEW found \in Kept(list, links)
  PROVE  /\ GoodList(list \cup found)
         /\ \A known : Holds(list, known) => Holds(list \cup found, known)
<1> DEFINE more == list \cup found
<1>1. found \subseteq Admitted /\ OneSpelling(found) /\ Keys(found) \cap Keys(list) = {} /\ Fits(more)
  BY DEF Kept
<1>2. more \subseteq Url
  BY <1>1, WalkAssumption DEF WalkAssumption, GoodList
<1>3. OneSpelling(more)
  <2>1. \A u \in found : \A v \in list : Canonical[u] # Canonical[v]
    BY <1>1 DEF Keys
  <2> QED
    BY <1>1, <2>1 DEF OneSpelling, GoodList
<1>4. Full(list) => Full(more)
  <2>1. IsFiniteSet(more)
    BY <1>2, WalkAssumption, FS_Subset DEF WalkAssumption
  <2>2. Cardinality(list) <= Cardinality(more) /\ Cardinality(more) \in Nat
    BY <2>1, FS_Subset, FS_CardinalityType
  <2> QED
    BY <1>1, <2>2, SiteMapAssumption DEF Full, Fits, SiteMapAssumption
<1>5. Keys(list) \subseteq Keys(more)
  BY DEF Keys
<1> QED
  BY <1>1, <1>2, <1>3, <1>4, <1>5 DEF GoodList, Holds

LEMMA ListInit == Declared = {} /\ MapInit => ListInv
<1> SUFFICES ASSUME Declared = {}, MapInit PROVE ListInv
  OBVIOUS
<1>1. WalkInit /\ PlaceInv
  BY PlaceInit DEF MapInit
<1>2. Known = {Start} /\ emitted = {}
  BY <1>1 DEF WalkInit, Fresh, Known, Current, EmittedUrls
<1>3. GoodList(FirstListed) /\ Holds(FirstListed, {Start})
  <2>1. Cardinality({Start}) = 1
    BY FS_Singleton
  <2> QED
    BY <2>1, WalkAssumption, SiteMapAssumption
       DEF WalkAssumption, SiteMapAssumption, GoodList, Holds, FirstListed, OneSpelling, Fits
<1>4. ASSUME FromSitemaps
      PROVE  GoodList(urls) /\ Holds(urls, {Start})
  <2>1. CASE UseSitemap
    <3>1. PICK read1 \in SUBSET InSitemaps : \E found \in Kept(FirstListed, read1) :
            urls = FirstListed \cup found
      BY <1>4, <2>1 DEF FromSitemaps
    <3> QED
      BY <1>3, <3>1, ListGrows
  <2>2. CASE ~UseSitemap
    BY <1>3, <1>4, <2>2 DEF FromSitemaps
  <2> QED
    BY <2>1, <2>2
<1> QED
  BY <1>1, <1>2, <1>4 DEF MapInit, ListInv

\* A page lands, and its links are listed.
LEMMA ListLanded ==
  ASSUME ListInv, PlaceInv', caller # "crawl", NEW u \in Url, NEW links, Land(u, links),
         NEW found \in Kept(urls, links), urls' = urls \cup found,
         Holds(urls', links \cap Admitted)
  PROVE  ListInv'
<1>1. /\ u \in fetching /\ fetching' = fetching \ {u} /\ UNCHANGED <<frontier, counted>>
      /\ emitted' = emitted \cup {[url |-> u, depth |-> depth, ok |-> TRUE, links |-> links]}
  BY DEF Land, coordinator
<1>2. next' \subseteq next \cup (links \cap Admitted)
  BY DEF Land, Collect, Fresh
<1>3. Known' \subseteq Known \cup (links \cap Admitted)
  BY <1>1, <1>2 DEF Known, Current, EmittedUrls
<1>4. GoodList(urls') /\ \A known : Holds(urls, known) => Holds(urls', known)
  BY ListGrows DEF ListInv
<1>5. Holds(urls', Known')
  <2>1. Holds(urls', Known)
    BY <1>4 DEF ListInv
  <2>2. Keys(Known') \subseteq Keys(Known) \cup Keys(links \cap Admitted)
    BY <1>3 DEF Keys
  <2> QED
    BY <2>1, <2>2 DEF Holds
<1>6. \A e \in emitted' : Holds(urls', e.links \cap Admitted)
  BY <1>1, <1>4 DEF ListInv
<1> QED
  BY <1>4, <1>5, <1>6 DEF ListInv, GoodList, Holds, OneSpelling, Fits, Full, Keys

\* Any other step: the list stays, and the walk knows of no more.
LEMMA ListStill ==
  ASSUME ListInv, PlaceInv', UNCHANGED <<caller, urls>>, Known' \subseteq Known,
         \A e \in emitted' \ emitted : e.links = {}
  PROVE  ListInv'
<1>1. Keys(Known') \subseteq Keys(Known) /\ \A list : Holds(list, {})
  BY DEF Keys, Holds
<1>2. \A e \in emitted' \ emitted : e.links \cap Admitted = {}
  OBVIOUS
<1> QED
  BY <1>1, <1>2 DEF ListInv, GoodList, Holds, OneSpelling, Fits, Full, Keys

LEMMA ListStep == ListInv /\ [MapNext]_mapVars => ListInv'
<1> SUFFICES ASSUME ListInv, [MapNext]_mapVars PROVE ListInv'
  OBVIOUS
<1>1. PlaceInv' /\ WalkTypeOK
  BY MapStepIsWalkStep, PlaceStep DEF ListInv, PlaceInv
<1>2. ASSUME NEW u \in Url, caller = "map", MapLand(u)
      PROVE  ListInv'
  <2>1. PICK links \in PageLinks : Land(u, links) /\ (ListWhole(links) \/ ListCut(links))
    BY <1>2 DEF MapLand
  <2>2. ASSUME NEW found \in Kept(urls, links), urls' = urls \cup found,
               Keys(found) = New(urls, links) \/ Full(urls')
        PROVE  ListInv'
    <3>1. Holds(urls', links \cap Admitted)
      BY <2>2 DEF Holds, New, Keys
    <3> QED
      BY <1>1, <1>2, <2>1, <2>2, <3>1, ListLanded
  <2> QED
    BY <2>1, <2>2 DEF ListWhole, ListCut
<1>3. ASSUME NEW u \in Url, caller = "map", MapLandFailed(u), UNCHANGED caller
      PROVE  ListInv'
  <2>1. /\ u \in fetching /\ fetching' = fetching \ {u} /\ UNCHANGED <<frontier, counted, next, urls>>
        /\ emitted' = emitted \cup {[url |-> u, depth |-> depth, ok |-> FALSE, links |-> {}]}
    BY <1>3 DEF MapLandFailed, LandFailed, coordinator
  <2>2. Known' \subseteq Known /\ \A e \in emitted' \ emitted : e.links = {}
    BY <2>1 DEF Known, Current, EmittedUrls
  <2> QED
    BY <1>1, <1>3, <2>1, <2>2, ListStill
<1>4. CASE caller' = "crawl"
  BY <1>1, <1>4 DEF ListInv
<1>5. CASE (Loop \/ Cancel \/ UNCHANGED walkVars) /\ UNCHANGED <<caller, urls>>
  <2>1. ASSUME NEW u \in Url, Consider(u) PROVE Known' \subseteq Known /\ emitted' = emitted
    BY <2>1 DEF Consider, shared, Known, Current, EmittedUrls
  <2>2. ASSUME NEW u \in Url, Launch(u) PROVE Known' \subseteq Known /\ emitted' = emitted
    BY <2>2 DEF Launch, shared, Known, Current, EmittedUrls
  <2>3. ASSUME EndLevel \/ NextLevel PROVE Known' \subseteq Known /\ emitted' = emitted
    BY <2>3 DEF EndLevel, NextLevel, shared, Known, Current, EmittedUrls
  <2>4. ASSUME Cancel \/ UNCHANGED walkVars PROVE Known' \subseteq Known /\ emitted' = emitted
    BY <2>4 DEF Cancel, walkVars, coordinator, shared, Known, Current, EmittedUrls
  <2>5. Known' \subseteq Known /\ emitted' = emitted
    BY <1>5, <2>1, <2>2, <2>3, <2>4 DEF Loop
  <2> QED
    BY <1>1, <1>5, <2>5, ListStill
<1>6. ASSUME NEW u \in Url, Landing(u) PROVE ListInv'
  <2>1. caller' = caller /\ (caller = "crawl" \/ (caller = "map" /\ (MapLand(u) \/ MapLandFailed(u))))
    BY <1>6 DEF Landing
  <2> QED
    BY <1>2, <1>3, <1>4, <2>1
<1>7. CASE UNCHANGED mapVars
  BY <1>5, <1>7 DEF mapVars
<1>8. CASE WalkLoop \/ WalkCancelled
  BY <1>5, <1>8 DEF WalkLoop, WalkCancelled
<1> QED
  BY <1>6, <1>7, <1>8 DEF MapNext

\* The list of a map is bounded and holds a page once, and every page read and
\* every admitted link found is in it unless it is full (crawl/map.go, Map),
\* where the walk begins at the start alone.
THEOREM NothingIsDropped ==
  ASSUME Declared = {}
  PROVE  MapSpec => []NothingDropped
<1>1. ListInv => NothingDropped
  <2> SUFFICES ASSUME ListInv, caller # "crawl" PROVE NothingDropped
    BY DEF NothingDropped
  <2>1. OneSpelling(urls) /\ Cardinality(urls) <= Limit
    BY DEF ListInv, GoodList, Fits
  <2>2. ASSUME NEW e \in emitted
        PROVE  Holds(urls, {e.url} \cup (e.links \cap Admitted))
    <3>1. Keys({e.url} \cup (e.links \cap Admitted)) \subseteq Keys(Known) \cup Keys(e.links \cap Admitted)
      BY DEF Keys, Known, EmittedUrls
    <3> QED
      BY <3>1 DEF ListInv, Holds
  <2> QED
    BY <2>1, <2>2 DEF NothingDropped, Holds
<1>2. MapInit => ListInv
  BY ListInit
<1> QED
  BY <1>1, <1>2, ListStep, PTL DEF MapSpec

-----------------------------------------------------------------------------
(***************************************************************************)
(* The reading of pages, for any readers and any pages.                    *)
(* Two things strengthen the properties: every challenge a reader holds,   *)
(* every mark and every use of the proxy goes back to a refusal of the     *)
(* direct address; and a reader that knows the host marked, because it was *)
(* as the read began or because it marked the host itself, is on its way   *)
(* through the proxy.                                                      *)
(***************************************************************************)

Fetching(r) == doing[r] \in {"fetching", "rendering"}

\* The cache holds no challenge; what is refused was refused to the direct address.
Earned ==
    /\ \A u \in Urls : cache[u] # "challenge"
    /\ preferred => refused
    /\ \A r \in Readers :
         /\ route[r] = "proxy" => refused
         /\ got[r] = "challenge" => refused
         /\ doing[r] = "marking" => got[r] = "challenge" /\ attempt[r] = 1

\* A reader that knows of the mark, and what it met since.
Informed ==
    \A r \in Readers :
      /\ began[r] => ProxyPreferred /\ "direct" \notin met[r]
      /\ attempt[r] = 2 => ProxyPreferred
      /\ Fetching(r) /\ (began[r] \/ attempt[r] = 2) => route[r] = "proxy"
      /\ attempt[r] = 2 /\ doing[r] \in {"judging", "answered"} /\ got[r] = "challenge" =>
           "proxy" \in met[r]

\* A reader of a host that stays open has met nothing else.
Welcome == \A r \in Readers : lifted[r] => site = "open" /\ got[r] # "challenge"

ReadInv == ReadTypeOK /\ Earned /\ Informed /\ Welcome

-----------------------------------------------------------------------------
LEMMA ReadStarts == ReadInit => ReadInv
<1> SUFFICES ASSUME ReadInit PROVE ReadInv
  OBVIOUS
<1>1. ReadTypeOK
  <2>1. met \in [Readers -> SUBSET Routes]
    BY DEF ReadInit
  <2>2. began \in [Readers -> BOOLEAN] /\ lifted \in [Readers -> BOOLEAN]
    BY DEF ReadInit
  <2>3. attempt \in [Readers -> 0 .. 2]
    BY DEF ReadInit
  <2> QED
    BY <2>1, <2>2, <2>3 DEF ReadInit, ReadTypeOK, Sites, Routes
<1>2. Earned
  BY DEF ReadInit, Earned
<1>3. Informed /\ Welcome
  BY DEF ReadInit, Informed, Welcome, Fetching
<1> QED
  BY <1>1, <1>2, <1>3 DEF ReadInv

LEMMA ReadTypeStep == ReadTypeOK /\ Earned /\ [ReadNext]_readVars => ReadTypeOK'
<1> SUFFICES ASSUME ReadTypeOK, Earned, [ReadNext]_readVars PROVE ReadTypeOK'
  OBVIOUS
<1> USE DEF ReadTypeOK, told, Sites, Routes
<1>1. ASSUME NEW r \in Readers, BeginRead(r) PROVE ReadTypeOK'
  <2>1. ProxyPreferred \in BOOLEAN /\ (site = "open") \in BOOLEAN
    BY DEF ProxyPreferred
  <2> QED
    BY <1>1, <2>1 DEF BeginRead
<1>2. ASSUME NEW r \in Readers, Refuse(r) PROVE ReadTypeOK'
  BY <1>2 DEF Refuse
<1>3. ASSUME NEW r \in Readers, Ask(r) PROVE ReadTypeOK'
  BY <1>3 DEF Ask, RouteNow
<1>4. ASSUME NEW r \in Readers, Fallback(r) PROVE ReadTypeOK'
  BY <1>4 DEF Fallback, RouteNow
<1>5. ASSUME NEW r \in Readers, Back(r) PROVE ReadTypeOK'
  <2> DEFINE page == Served(route[r])
  <2>1. page \in {"page", "challenge"}
    BY DEF Served
  <2>2. got' = [got EXCEPT ![r] = page] /\ cache' = Set(url[r], page)
    BY <1>5 DEF Back
  <2> HIDE DEF page
  <2>3. /\ got' \in [Readers -> {"none", "page", "challenge", "error"}]
        /\ cache' \in [Urls -> {"none", "page", "challenge"}]
    BY <2>1, <2>2 DEF Set
  <2>4. route[r] \in Routes /\ met[r] \subseteq Routes
    OBVIOUS
  <2>5. met' \in [Readers -> SUBSET Routes] /\ refused' \in BOOLEAN
    <3>1. CASE page = "challenge"
      <4>1. met' = [met EXCEPT ![r] = @ \union {route[r]}]
        BY <1>5, <3>1 DEF Back, page
      <4>2. met[r] \union {route[r]} \in SUBSET Routes
        BY <2>4
      <4>3. refused' = (refused \/ route[r] = "direct")
        BY <1>5, <3>1 DEF Back, page
      <4> QED
        BY <4>1, <4>2, <4>3
    <3>2. CASE page # "challenge"
      BY <1>5, <3>2 DEF Back, page
    <3> QED
      BY <3>1, <3>2
  <2> QED
    BY <1>5, <2>3, <2>5 DEF Back
<1>6. ASSUME NEW r \in Readers, Fail(r) PROVE ReadTypeOK'
  BY <1>6 DEF Fail
<1>7. ASSUME NEW r \in Readers, Judge(r) PROVE ReadTypeOK'
  BY <1>7 DEF Judge
<1>8. ASSUME NEW r \in Readers, Mark(r) PROVE ReadTypeOK'
  BY <1>8 DEF Mark, Earned
<1>9. CASE SiteTurns
  <2>1. \A r \in Readers : (lifted[r] /\ site' = "open") \in BOOLEAN
    OBVIOUS
  <2> QED
    BY <1>9, <2>1 DEF SiteTurns
<1>10. ASSUME NEW u \in Urls, CacheExpires(u) PROVE ReadTypeOK'
  BY <1>10 DEF CacheExpires
<1>11. CASE UNCHANGED readVars
  BY <1>11 DEF readVars
<1> QED
  BY <1>1, <1>2, <1>3, <1>4, <1>5, <1>6, <1>7, <1>8, <1>9, <1>10, <1>11
     DEF ReadNext, Reading

LEMMA EarnedStep == ReadTypeOK /\ Earned /\ [ReadNext]_readVars => Earned'
<1> SUFFICES ASSUME ReadTypeOK, Earned, [ReadNext]_readVars PROVE Earned'
  OBVIOUS
<1> USE DEF ReadTypeOK, Earned, told
<1>1. ASSUME NEW r \in Readers, BeginRead(r) PROVE Earned'
  BY <1>1 DEF BeginRead
<1>2. ASSUME NEW r \in Readers, Refuse(r) PROVE Earned'
  BY <1>2 DEF Refuse
<1>3. ASSUME NEW r \in Readers, Ask(r) PROVE Earned'
  BY <1>3 DEF Ask, RouteNow, ProxyPreferred
<1>4. ASSUME NEW r \in Readers, Fallback(r) PROVE Earned'
  BY <1>4 DEF Fallback, RouteNow, ProxyPreferred
<1>5. ASSUME NEW r \in Readers, Back(r) PROVE Earned'
  BY <1>5 DEF Back, Served, Set, Routes
<1>6. ASSUME NEW r \in Readers, Fail(r) PROVE Earned'
  BY <1>6 DEF Fail
<1>7. ASSUME NEW r \in Readers, Judge(r) PROVE Earned'
  BY <1>7 DEF Judge
<1>8. ASSUME NEW r \in Readers, Mark(r) PROVE Earned'
  BY <1>8 DEF Mark
<1>9. CASE SiteTurns
  BY <1>9 DEF SiteTurns
<1>10. ASSUME NEW u \in Urls, CacheExpires(u) PROVE Earned'
  BY <1>10 DEF CacheExpires
<1>11. CASE UNCHANGED readVars
  BY <1>11 DEF readVars
<1> QED
  BY <1>1, <1>2, <1>3, <1>4, <1>5, <1>6, <1>7, <1>8, <1>9, <1>10, <1>11
     DEF ReadNext, Reading

LEMMA InformedStep == ReadTypeOK /\ Earned /\ Informed /\ [ReadNext]_readVars => Informed'
<1> SUFFICES ASSUME ReadTypeOK, Earned, Informed, [ReadNext]_readVars PROVE Informed'
  OBVIOUS
<1> USE DEF ReadTypeOK, Informed, Fetching, ProxyPreferred, told
<1>1. ASSUME NEW r \in Readers, BeginRead(r) PROVE Informed'
  BY <1>1 DEF BeginRead
<1>2. ASSUME NEW r \in Readers, Refuse(r) PROVE Informed'
  BY <1>2 DEF Refuse
<1>3. ASSUME NEW r \in Readers, Ask(r) PROVE Informed'
  BY <1>3 DEF Ask, RouteNow, Earned
<1>4. ASSUME NEW r \in Readers, Fallback(r) PROVE Informed'
  BY <1>4 DEF Fallback, RouteNow
<1>5. ASSUME NEW r \in Readers, Back(r) PROVE Informed'
  BY <1>5 DEF Back, Served, Routes
<1>6. ASSUME NEW r \in Readers, Fail(r) PROVE Informed'
  BY <1>6 DEF Fail
<1>7. ASSUME NEW r \in Readers, Judge(r) PROVE Informed'
  BY <1>7 DEF Judge
<1>8. ASSUME NEW r \in Readers, Mark(r) PROVE Informed'
  BY <1>8 DEF Mark, Earned
<1>9. CASE SiteTurns
  BY <1>9 DEF SiteTurns
<1>10. ASSUME NEW u \in Urls, CacheExpires(u) PROVE Informed'
  BY <1>10 DEF CacheExpires
<1>11. CASE UNCHANGED readVars
  BY <1>11 DEF readVars
<1> QED
  BY <1>1, <1>2, <1>3, <1>4, <1>5, <1>6, <1>7, <1>8, <1>9, <1>10, <1>11
     DEF ReadNext, Reading

LEMMA WelcomeStep == ReadTypeOK /\ Earned /\ Welcome /\ [ReadNext]_readVars => Welcome'
<1> SUFFICES ASSUME ReadTypeOK, Earned, Welcome, [ReadNext]_readVars PROVE Welcome'
  OBVIOUS
<1> USE DEF ReadTypeOK, Welcome, told
<1>1. ASSUME NEW r \in Readers, BeginRead(r) PROVE Welcome'
  BY <1>1 DEF BeginRead
<1>2. ASSUME NEW r \in Readers, Ask(r) PROVE Welcome'
  BY <1>2 DEF Ask, Earned
<1>3. ASSUME NEW r \in Readers, Back(r) PROVE Welcome'
  BY <1>3 DEF Back, Served
<1>4. ASSUME NEW r \in Readers, Fail(r) PROVE Welcome'
  BY <1>4 DEF Fail
<1>5. CASE SiteTurns
  BY <1>5 DEF SiteTurns
<1>6. ASSUME NEW r \in Readers, Refuse(r) \/ Fallback(r) \/ Judge(r) \/ Mark(r)
      PROVE  Welcome'
  BY <1>6 DEF Refuse, Fallback, Judge, Mark
<1>7. ASSUME NEW u \in Urls, CacheExpires(u) PROVE Welcome'
  BY <1>7 DEF CacheExpires
<1>8. CASE UNCHANGED readVars
  BY <1>8 DEF readVars
<1> QED
  BY <1>1, <1>2, <1>3, <1>4, <1>5, <1>6, <1>7, <1>8 DEF ReadNext, Reading

LEMMA ReadAlways == ReadSpec => []ReadInv
<1>1. ReadInv /\ [ReadNext]_readVars => ReadInv'
  BY ReadTypeStep, EarnedStep, InformedStep, WelcomeStep DEF ReadInv
<1> QED
  BY <1>1, ReadStarts, PTL DEF ReadSpec

-----------------------------------------------------------------------------
\* Every variable keeps its type, and no page is read more than twice
\* (httpapi/page.go, readPage).
THEOREM ReadTypeCorrect == ReadSpec => []ReadTypeOK
<1>1. ReadInv => ReadTypeOK
  BY DEF ReadInv
<1> QED
  BY <1>1, ReadAlways, PTL

\* The metered route is taken of a host that refused the direct one, only
\* (render/browser.go, Render; httpapi/page.go, readPage).
THEOREM ProxyOnlyEarned == ReadSpec => []ProxyIsEarned
<1>1. ReadInv => ProxyIsEarned
  BY DEF ReadInv, Earned, ProxyIsEarned
<1> QED
  BY <1>1, ReadAlways, PTL

\* A host known to refuse the direct address is not asked by it, and a second
\* read goes through the proxy (render/browser.go, Render; httpapi/page.go,
\* readPage).
THEOREM MarkedAlwaysProxied == ReadSpec => []MarkedIsProxied
<1>1. ReadInv => MarkedIsProxied
  BY DEF ReadInv, Informed, MarkedIsProxied, Challenged
<1> QED
  BY <1>1, ReadAlways, PTL

\* A challenge that has lifted is seen to have (challenge/challenge.go, GuardCache).
THEOREM LiftedAlwaysSeen == ReadSpec => []LiftedIsSeen
<1>1. ReadInv => LiftedIsSeen
  BY DEF ReadInv, Welcome, LiftedIsSeen, Challenged
<1> QED
  BY <1>1, ReadAlways, PTL

-----------------------------------------------------------------------------
(***************************************************************************)
(* Theorems about the wait for a page to settle, for any window, grace and *)
(* timeout and any page.  The argument is one of ages: what the loop saw   *)
(* at its last turn bounds how long the page has been quiet, from below    *)
(* (unless something happened since that turn) and from above.             *)
(***************************************************************************)

QuietAge == Earlier(lastEvt, waited)

Counted ==
    /\ open <= inFlight /\ inFlight <= sent + redirected
    /\ redirected = 0 => inFlight = open
    /\ inFlight > 0 => started

\* From below: the lull the loop has seen is one, or is over since its last turn.
LullIsQuiet ==
    quietSince # Unset /\ phase = "waiting" =>
      /\ started
      /\ \/ lastEvt <= sinceTick
         \/ lastEvt >= quietSince + IdleWindow
         \/ lastEvt = Oldest

\* From above: a quiet page is in a lull the loop has seen, or soon will be, and
\* the loop was not through with it at its last turn.
QuietIsSeen ==
    phase = "waiting" =>
      /\ started /\ inFlight = 0 /\ quietSince = Unset => QuietAge <= IdleWindow + sinceTick
      /\ quietSince # Unset =>
           /\ QuietAge <= quietSince + IdleWindow + TickGap
           /\ quietSince <= SettleGrace + sinceTick

Unwaited ==
    phase = "navigating" => waited = 0 /\ quietSince = Unset /\ sinceTick = 0

RenderInv == RenderTypeOK /\ Counted /\ LullIsQuiet /\ QuietIsSeen /\ Unwaited

-----------------------------------------------------------------------------
LEMMA RenderStarts == RenderInit => RenderInv
<1> SUFFICES ASSUME RenderInit PROVE RenderInv
  OBVIOUS
<1> USE RendererAssumption DEF RendererAssumption, RenderInit, Unset, Oldest
<1>1. RenderTypeOK
  <2>1. Oldest \in Nat
    OBVIOUS
  <2>2. /\ gone \in BOOLEAN /\ started \in BOOLEAN
        /\ phase \in {"navigating", "waiting", "reading", "rendered", "failed"}
    OBVIOUS
  <2>3. lastEvt \in 0 .. Oldest /\ quietSince \in Unset .. Oldest /\ waited \in 0 .. Oldest
    BY <2>1
  <2>4. /\ left \in 0 .. Timeout /\ sinceTick \in 0 .. TickGap
        /\ inFlight \in 0 .. (MaxRequests + MaxRedirects) /\ redirected \in 0 .. MaxRedirects
        /\ open \in 0 .. sent /\ sent \in 0 .. MaxRequests
    OBVIOUS
  <2> QED
    BY <2>2, <2>3, <2>4 DEF RenderTypeOK
<1>2. Counted /\ LullIsQuiet /\ QuietIsSeen /\ Unwaited
  BY DEF Counted, LullIsQuiet, QuietIsSeen, Unwaited
<1> QED
  BY <1>1, <1>2 DEF RenderInv

\* An age and what it is a tick later.
LEMMA OlderIs ==
  ASSUME NEW age \in Unset .. Oldest
  PROVE  /\ age = Unset <=> Older(age) = Unset
         /\ age = Oldest => Older(age) = Oldest
         /\ age \notin {Unset, Oldest} => Older(age) = age + 1
         /\ Older(age) \in Unset .. Oldest
  BY RendererAssumption DEF RendererAssumption, Older, Oldest, Unset

LEMMA RenderStep == RenderInv /\ [RenderNext]_renderVars => RenderInv'
<1> SUFFICES ASSUME RenderInv, [RenderNext]_renderVars PROVE RenderInv'
  OBVIOUS
<1> USE RendererAssumption
    DEF RendererAssumption, RenderInv, RenderTypeOK, Counted, LullIsQuiet, QuietIsSeen, Unwaited,
        Unset, Oldest, QuietAge, Earlier, netVars, waitVars
<1>1. CASE PageRequests
  BY <1>1 DEF PageRequests, Request, Alive
<1>2. CASE PageRedirected
  BY <1>2 DEF PageRedirected, Request, Alive
<1>3. CASE PageAnswered
  BY <1>3 DEF PageAnswered, Done, Alive
<1>4. CASE Loaded
  BY <1>4 DEF Loaded
<1>5. CASE Turn
  BY <1>5 DEF Turn, QuietSince, QuietFor
<1>6. CASE GiveUp \/ ReadOut
  BY <1>6 DEF GiveUp, ReadOut
<1>7. CASE CallerLeaves
  BY <1>7 DEF CallerLeaves
<1>8. CASE Pass
  <2>1. RenderTypeOK' /\ Counted' /\ Unwaited'
    BY <1>8 DEF Pass, Alive, Older
  <2>2. LullIsQuiet'
    BY <1>8 DEF Pass, Alive, Older
  <2>3. QuietIsSeen'
    <3> SUFFICES ASSUME phase' = "waiting" PROVE QuietIsSeen'
      OBVIOUS
    <3>1. phase = "waiting" /\ sinceTick' = sinceTick + 1
      BY <1>8 DEF Pass
    <3>0. /\ lastEvt' = Older(lastEvt) /\ waited' = Older(waited)
          /\ quietSince' = Older(quietSince)
          /\ inFlight' = inFlight /\ started' = started
      BY <1>8, <3>1 DEF Pass
    <3>2. QuietAge' <= QuietAge + 1 /\ QuietAge' <= Oldest
      <4>1. lastEvt' <= lastEvt + 1 /\ lastEvt' \in 0 .. Oldest
        BY <3>0, OlderIs
      <4>2. waited' <= waited + 1 /\ waited' \in 0 .. Oldest
        BY <3>0, OlderIs
      <4> QED
        BY <4>1, <4>2
    <3>3. quietSince' = Unset <=> quietSince = Unset
      BY <3>0, OlderIs
    <3>4. CASE quietSince = Unset
      <4>1. started /\ inFlight = 0 => QuietAge <= IdleWindow + sinceTick
        BY <3>1, <3>4
      <4>2. QuietAge \in Int /\ QuietAge' \in Int
        BY <3>0, OlderIs
      <4> HIDE DEF QuietAge
      <4>3. started' /\ inFlight' = 0 => QuietAge' <= IdleWindow + sinceTick'
        BY <3>0, <3>1, <3>2, <4>1, <4>2
      <4> QED
        BY <3>3, <3>4, <4>3
    <3>5. CASE quietSince # Unset
      <4>1. quietSince' = quietSince + 1 \/ (quietSince' = Oldest /\ quietSince = Oldest)
        <5>1. CASE quietSince = Oldest
          BY <3>0, <5>1, OlderIs
        <5>2. CASE quietSince # Oldest
          BY <3>0, <3>5, <5>2, OlderIs
        <5> QED
          BY <5>1, <5>2
      <4>2. QuietAge <= quietSince + IdleWindow + TickGap /\ quietSince <= SettleGrace + sinceTick
        BY <3>1, <3>5
      <4>3. QuietAge \in Int /\ QuietAge' \in Int
        BY <3>0, OlderIs
      <4> HIDE DEF QuietAge
      <4>4. QuietAge' <= quietSince' + IdleWindow + TickGap
        BY <3>2, <4>1, <4>2, <4>3
      <4>5. quietSince' <= SettleGrace + sinceTick'
        BY <3>1, <4>1, <4>2
      <4> QED
        BY <3>3, <3>5, <4>4, <4>5
    <3> QED
      BY <3>4, <3>5
  <2> QED
    BY <2>1, <2>2, <2>3
<1>9. CASE UNCHANGED renderVars
  BY <1>9 DEF renderVars
<1> QED
  BY <1>1, <1>2, <1>3, <1>4, <1>5, <1>6, <1>7, <1>8, <1>9 DEF RenderNext, PageSteps, Run

LEMMA RenderAlways == RenderSpec => []RenderInv
  BY RenderStarts, RenderStep, PTL DEF RenderSpec

-----------------------------------------------------------------------------
\* Every variable keeps its type; the count of requests under way never goes below
\* those that are (render/networkidle.go, done).
THEOREM RenderTypeCorrect == RenderSpec => []RenderTypeOK
<1>1. RenderInv => RenderTypeOK
  BY DEF RenderInv
<1> QED
  BY <1>1, RenderAlways, PTL

\* A page taken for settled has been quiet for the window and the grace
\* (render/networkidle.go, wait).
THEOREM SettledHasBeenQuiet == RenderSpec => SettledIsQuiet
<1> DEFINE Settles == phase = "waiting" /\ phase' = "reading" /\ ~ Expired
           Quiet == started /\ open = 0 /\ lastEvt >= IdleWindow + SettleGrace
<1>1. RenderInv /\ [RenderNext]_renderVars => [Settles => Quiet]_renderVars
  <2> SUFFICES ASSUME RenderInv, RenderNext, Settles PROVE Quiet
    OBVIOUS
  <2>1. CASE Turn
    BY <2>1, RendererAssumption
       DEF Turn, QuietSince, QuietFor, RendererAssumption, RenderInv, RenderTypeOK, Counted,
           LullIsQuiet, Unset, Oldest
  <2>2. CASE GiveUp
    BY <2>2 DEF GiveUp
  <2> QED
    BY <2>1, <2>2
       DEF RenderNext, PageSteps, Run, PageRequests, PageRedirected, PageAnswered, Loaded, ReadOut,
           CallerLeaves, Pass
<1> QED
  BY <1>1, RenderAlways, PTL DEF RenderSpec, SettledIsQuiet

\* A page without redirections that is quiet is found to be in time
\* (render/networkidle.go, wait).
THEOREM StraightPagesSettle == RenderSpec => []StraightQuietSettles
<1>1. RenderInv => StraightQuietSettles
  BY RendererAssumption
     DEF RendererAssumption, RenderInv, RenderTypeOK, Counted, QuietIsSeen, QuietAge,
         StraightQuietSettles, QuietSettles, Earlier, Unset
<1> QED
  BY <1>1, RenderAlways, PTL
=============================================================================
