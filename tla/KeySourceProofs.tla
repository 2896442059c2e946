---------------------------- MODULE KeySourceProofs ----------------------------
(***************************************************************************)
(* Proofs about the registry and the keys the replicas go by: how long a   *)
(* key outlives its row, what an answer to an admin changes at once, and   *)
(* what alone can undo a revocation, for any number of requests, replicas  *)
(* and applications.                                                       *)
(***************************************************************************)
EXTENDS KeySource, TLAPS

Handling == [pc : {"get", "save", "answer", "ended"},
             answer : {"none", "ok", "refused", "error"}, copy : Row]

Shape ==
    /\ row \in [App -> Row]
    /\ request \in [Request -> Handling]
    /\ now \in Nat /\ now >= StartTime
    /\ faults \in Nat
    /\ cache \in [Replica -> Cache]
    /\ lastValid \in [Held -> Nat]
    /\ late \in SUBSET Request

\* What holds of a row and of the copy about to replace it: a revoked row is
\* there, and one that is there has a key.
Sane(a) ==
    /\ a.revoked => a.exists
    /\ a.exists <=> a.current \in Key

Saving(q) == request[q].pc = "save"

\* A copy names as its key the request that made it, unless it revokes.
RowsSane ==
    /\ \A a \in App : Sane(row[a])
    /\ \A q \in Request : Saving(q) =>
         /\ Sane(request[q].copy) /\ request[q].copy.exists
         /\ request[q].copy.revoked \/ request[q].copy.current = q
    /\ \A q \in Request : request[q].answer = "ok" => request[q].pc = "ended"

\* A copy made from the row as it still is neither brings a revoked row back
\* nor loses its key.
CopiesFollow ==
    \A q \in Request : Saving(q) /\ q \notin late =>
      LET a == row[Target[q]] IN
        /\ a.revoked => request[q].copy.revoked
        /\ a.exists => a.current \in {request[q].copy.current, request[q].copy.previous}

\* What counts now was seen to count now, and a replica's copy holds nothing
\* that had stopped counting when it was read.
Seen ==
    /\ \A h \in Held : lastValid[h] <= now
    /\ \A h \in FromRegistry(row, now) : lastValid[h] = now
    /\ \A r \in Replica : \A h \in cache[r].keys :
         h[2] # EnvKey => cache[r].at <= lastValid[h]

\* The answers a replica's copy can no longer miss.
Told ==
    /\ \A q \in standing : Kind[q] = "revoke" /\ row[Target[q]].revoked
    /\ \A q \in Request : Done(q, "revoke") /\ q \in standing /\ Fresh(AnsweredBy[q]) =>
         \A k \in Key : <<Target[q], k>> \notin cache[AnsweredBy[q]].keys
    /\ \A q \in Request :
         /\ faults = 0
         /\ Done(q, "register") \/ Done(q, "rotate")
         /\ row[Target[q]].current = q /\ ~row[Target[q]].revoked
         /\ Fresh(AnsweredBy[q])
         => <<Target[q], q>> \in cache[AnsweredBy[q]].keys

IInv == Shape /\ RowsSane /\ CopiesFollow /\ Seen /\ Told

-----------------------------------------------------------------------------
(* What a step can do to the rows, the requests and the replicas' copies. *)

\* Step leaves the history aside.
Step ==
    \/ \E q \in Request : Asked(q) \/ Answer(q)
    \/ Tick /\ UNCHANGED cache
    \/ \E r \in Replica : Snapshot(r) \/ SnapshotFails(r)

LEMMA NextIs == Next <=> Step /\ History
BY DEF Next, Step

LEMMA ChangedRow ==
  ASSUME NEW a \in Row, NEW q \in Request, now \in Nat, Sane(a), ~Refused(q, a)
  PROVE  LET c == Changed(q, a) IN
           /\ c \in Row /\ Sane(c) /\ c.exists
           /\ c.revoked \/ c.current = q
           /\ a.revoked => c.revoked
           /\ a.exists => a.current \in {c.current, c.previous}
<1> DEFINE c == Changed(q, a)
<1>0. /\ a.current \in Key \cup {NoKey} /\ a.previous \in Key \cup {NoKey}
      /\ a.rotated \in Nat /\ a.exists \in BOOLEAN /\ a.revoked \in BOOLEAN
      /\ a = [exists |-> a.exists, current |-> a.current, previous |-> a.previous,
              rotated |-> a.rotated, revoked |-> a.revoked]
      /\ q \in Key
  BY DEF Row, Key
<1>1. CASE Kind[q] = "register"
  <2>1. c = Registered(q) /\ ~a.exists /\ ~a.revoked
    BY <1>1 DEF Changed, Refused, Sane
  <2> HIDE DEF c
  <2> QED
    BY <1>0, <2>1 DEF Registered, Row, Sane, c
<1>2. CASE Kind[q] = "rotate"
  <2>1. c = Rotated(a, q) /\ a.exists /\ ~a.revoked
    BY <1>2 DEF Changed, Refused
  <2>2. c = [exists |-> a.exists, current |-> q, previous |-> a.current,
             rotated |-> now, revoked |-> a.revoked]
    BY <1>0, <2>1 DEF Rotated
  <2> HIDE DEF c
  <2> QED
    BY <1>0, <2>1, <2>2 DEF Row, Sane, c
<1>3. CASE Kind[q] = "revoke"
  <2>1. c = Revoked(a) /\ a.exists
    BY <1>3 DEF Changed, Refused
  <2>2. c = [exists |-> a.exists, current |-> a.current, previous |-> a.previous,
             rotated |-> a.rotated, revoked |-> TRUE]
    BY <1>0, <2>1 DEF Revoked
  <2> HIDE DEF c
  <2> QED
    BY <1>0, <2>1, <2>2 DEF Row, Sane, c
<1> QED
  BY <1>1, <1>2, <1>3, RegistryAssumption DEF RegistryAssumption

LEMMA NoRowType == NoRow \in Row /\ Sane(NoRow)
BY RegistryAssumption DEF NoRow, Row, Sane, Key, RegistryAssumption

\* The row of a request that saves becomes its copy; no other row changes.
Saves(q) ==
    /\ Saving(q) /\ ~Saving(q)'
    /\ row' = [row EXCEPT ![Target[q]] = request[q].copy]

LEMMA RowMoves ==
  ASSUME Shape, Step
  PROVE  UNCHANGED row \/ \E q \in Request : Saves(q)
<1>1. ASSUME NEW q \in Request, Asked(q) PROVE UNCHANGED row \/ Saves(q)
  <2>1. CASE Get(q) \/ GetFails(q)
    BY <2>1 DEF Get, GetFails
  <2>2. CASE Save(q)
    BY <2>2 DEF Save, Saves, Saving, Shape
  <2>3. CASE SaveFails(q)
    BY <2>3 DEF SaveFails, Saves, Saving, Shape, Ends
  <2> QED
    BY <1>1, <2>1, <2>2, <2>3 DEF Asked
<1>2. ASSUME NEW q \in Request, Answer(q) PROVE UNCHANGED row
  BY <1>2 DEF Answer
<1>3. CASE Tick
  BY <1>3 DEF Tick
<1>4. ASSUME NEW r \in Replica, Snapshot(r) \/ SnapshotFails(r) PROVE UNCHANGED row
  BY <1>4 DEF Snapshot, SnapshotFails, registryVars
<1> QED
  BY <1>1, <1>2, <1>3, <1>4 DEF Step

\* What becomes of one request.
Begins(q) ==
    /\ request[q].pc = "get" /\ ~Refused(q, row[Target[q]])
    /\ request' = [request EXCEPT ![q].pc = "save", ![q].copy = Changed(q, row[Target[q]])]
    /\ UNCHANGED row

EndsBadly(q) == \E answer \in {"refused", "error"} : Ends(q, answer)

Written(q) ==
    /\ request[q].pc = "save"
    /\ request' = [request EXCEPT ![q].pc = "answer", ![q].copy = NoRow]

LEMMA RequestMoves ==
  ASSUME Step
  PROVE  \/ UNCHANGED request
         \/ \E q \in Request :
              Begins(q) \/ EndsBadly(q) \/ Written(q) \/ Answer(q)
<1>1. ASSUME NEW q \in Request, Asked(q)
      PROVE  Begins(q) \/ EndsBadly(q) \/ Written(q)
  <2>1. CASE Get(q)
    <3>1. CASE Refused(q, row[Target[q]])
      BY <2>1, <3>1 DEF Get, EndsBadly
    <3>2. CASE ~Refused(q, row[Target[q]])
      BY <2>1, <3>2 DEF Get, Begins
    <3> QED
      BY <3>1, <3>2
  <2>2. CASE GetFails(q)
    BY <2>2 DEF GetFails, EndsBadly
  <2>3. CASE Save(q)
    BY <2>3 DEF Save, Written
  <2>4. CASE SaveFails(q)
    BY <2>4 DEF SaveFails, EndsBadly
  <2> QED
    BY <1>1, <2>1, <2>2, <2>3, <2>4 DEF Asked
<1>2. CASE Tick
  BY <1>2 DEF Tick
<1>3. ASSUME NEW r \in Replica, Snapshot(r) \/ SnapshotFails(r) PROVE UNCHANGED request
  BY <1>3 DEF Snapshot, SnapshotFails, registryVars
<1> QED
  BY <1>1, <1>2, <1>3 DEF Step

\* A request at its save was there before, or has just made its copy.
LEMMA SavingMoves ==
  ASSUME Shape, Step, NEW p \in Request, Saving(p)'
  PROVE  \/ Saving(p) /\ request'[p] = request[p]
         \/ /\ Begins(p) /\ UNCHANGED row /\ ~Saving(p)
            /\ request'[p].copy = Changed(p, row[Target[p]])
<1>1. request \in [Request -> Handling]
  BY DEF Shape
<1>2. CASE UNCHANGED request
  BY <1>2 DEF Saving
<1>3. ASSUME NEW q \in Request, Begins(q)
      PROVE  \/ Saving(p) /\ request'[p] = request[p]
             \/ /\ Begins(p) /\ UNCHANGED row /\ ~Saving(p)
                /\ request'[p].copy = Changed(p, row[Target[p]])
  <2>1. CASE q = p
    BY <1>1, <1>3, <2>1 DEF Begins, Saving, Handling
  <2>2. CASE q # p
    BY <1>1, <1>3, <2>2 DEF Begins, Saving
  <2> QED
    BY <2>1, <2>2
<1>4. ASSUME NEW q \in Request, EndsBadly(q) \/ Written(q) \/ Answer(q)
      PROVE  Saving(p) /\ request'[p] = request[p]
  <2>1. p # q
    BY <1>1, <1>4 DEF EndsBadly, Written, Answer, Ends, Saving, Handling
  <2> QED
    BY <1>1, <1>4, <2>1 DEF EndsBadly, Written, Answer, Ends, Saving
<1> QED
  BY <1>2, <1>3, <1>4, RequestMoves

\* A request that answers ok has just done so, or had.
LEMMA OkMoves ==
  ASSUME Shape, RowsSane, Step, NEW p \in Request, request'[p].answer = "ok"
  PROVE  /\ request'[p].pc = "ended"
         /\ \/ request[p].answer = "ok" /\ request'[p] = request[p]
            \/ Answer(p)
<1>1. request \in [Request -> Handling] /\ \A q \in Request : request[q].answer = "ok" => request[q].pc = "ended"
  BY DEF Shape, RowsSane
<1>2. CASE UNCHANGED request
  BY <1>1, <1>2
<1>3. ASSUME NEW q \in Request, Begins(q) \/ EndsBadly(q) \/ Written(q)
      PROVE  request[p].answer = "ok" /\ request'[p] = request[p]
  <2>1. p # q
    BY <1>1, <1>3 DEF EndsBadly, Written, Begins, Ends, Handling
  <2> QED
    BY <1>1, <1>3, <2>1 DEF EndsBadly, Written, Begins, Ends
<1>4. ASSUME NEW q \in Request, Answer(q)
      PROVE  /\ request'[p].pc = "ended"
             /\ Answer(p) \/ (request[p].answer = "ok" /\ request'[p] = request[p])
  <2>1. CASE p = q
    BY <1>1, <1>4, <2>1 DEF Answer, Ends, Handling
  <2>2. CASE p # q
    <3>1. request'[p] = request[p]
      BY <1>1, <1>4, <2>2 DEF Answer, Ends
    <3> QED
      BY <1>1, <3>1
  <2> QED
    BY <2>1, <2>2
<1> QED
  BY <1>1, <1>2, <1>3, <1>4, RequestMoves

LEMMA NowMoves ==
  ASSUME Shape, Step
  PROVE  /\ now' \in Nat /\ now' >= now
         /\ faults' \in Nat /\ faults' >= faults
<1>0. now \in Nat /\ faults \in Nat
  BY DEF Shape
<1>1. ASSUME NEW q \in Request, Asked(q) PROVE now' = now /\ faults' \in {faults, faults + 1}
  BY <1>1 DEF Asked, Get, GetFails, Save, SaveFails
<1>2. ASSUME NEW q \in Request, Answer(q) PROVE now' = now /\ faults' = faults
  BY <1>2 DEF Answer
<1>3. CASE Tick
  BY <1>0, <1>3 DEF Tick
<1>4. ASSUME NEW r \in Replica, Snapshot(r) \/ SnapshotFails(r)
      PROVE  now' = now /\ faults' \in {faults, faults + 1}
  BY <1>4 DEF Snapshot, SnapshotFails, registryVars
<1> QED
  BY <1>0, <1>1, <1>2, <1>3, <1>4 DEF Step

LEMMA KeysHeld ==
  ASSUME NEW rows \in [App -> Row], \A a \in App : Sane(rows[a]), NEW t
  PROVE  /\ FromRegistry(rows, t) \subseteq App \X Key
         /\ Merged(FromRegistry(rows, t)) \subseteq Held
         /\ Merged({}) \subseteq Held
<1>1. ASSUME NEW a \in App PROVE ValidKeys(rows[a], t) \subseteq Key
  <2>1. rows[a] \in Row /\ Sane(rows[a])
    OBVIOUS
  <2> QED
    BY <2>1 DEF Row, Sane, ValidKeys, PreviousValid
<1>2. FromRegistry(rows, t) \subseteq App \X Key
  BY <1>1 DEF FromRegistry
<1>3. \A keys : EnvServed(keys) \subseteq App \X {EnvKey}
  BY KeySourceAssumption DEF KeySourceAssumption, EnvServed
<1> QED
  BY <1>2, <1>3 DEF Merged, Held

\* The keys an application with a row serves, and what the environment adds.
LEMMA KeysServed ==
  ASSUME NEW a \in App, NEW k \in Key, NEW rows, NEW t
  PROVE  <<a, k>> \in Merged(FromRegistry(rows, t)) <=> k \in ValidKeys(rows[a], t)
<1>1. <<a, k>> \in FromRegistry(rows, t) <=> k \in ValidKeys(rows[a], t)
  BY DEF FromRegistry
<1>2. \A keys : <<a, k>> \notin EnvServed(keys)
  BY KeySourceAssumption DEF KeySourceAssumption, EnvServed, Key
<1> QED
  BY <1>1, <1>2 DEF Merged

\* What the environment serves alone is its own key.
LEMMA EnvironmentAlone ==
  ASSUME NEW keys, NEW h \in Merged(keys), h \notin keys
  PROVE  h[2] = EnvKey
BY DEF Merged, EnvServed

\* What becomes of a replica's copy.
ReadAgain(r) ==
    /\ cache'[r] = [filled |-> TRUE, keys |-> Merged(FromRegistry(row, now)), at |-> now]
    /\ UNCHANGED registryVars

DoneWithout(r) ==
    /\ cache'[r] = [filled |-> TRUE, keys |-> Merged({}), at |-> now]
    /\ faults' = faults + 1

Dropped(r) ==
    cache'[r] = [filled |-> cache[r].filled, keys |-> cache[r].keys, at |-> 0]

LEMMA CacheMoves ==
  ASSUME Shape, RowsSane, Step, NEW r \in Replica
  PROVE  \/ cache'[r] = cache[r]
         \/ ReadAgain(r) \/ DoneWithout(r) \/ Dropped(r)
<1>0. cache \in [Replica -> Cache]
  BY DEF Shape
<1>1. ASSUME NEW q \in Request, Answer(q) PROVE cache'[r] = cache[r] \/ Dropped(r)
  <2>1. cache' = [cache EXCEPT ![AnsweredBy[q]].at = 0]
    BY <1>1 DEF Answer, Invalidate
  <2>2. CASE AnsweredBy[q] = r
    <3>1. cache'[r] = [cache[r] EXCEPT !.at = 0]
      BY <1>0, <2>1, <2>2
    <3>2. cache[r] \in Cache
      BY <1>0
    <3> QED
      BY <3>1, <3>2 DEF Dropped, Cache
  <2>3. CASE AnsweredBy[q] # r
    BY <1>0, <2>1, <2>3
  <2> QED
    BY <2>2, <2>3
<1>2. ASSUME NEW p \in Replica, Snapshot(p) PROVE cache'[r] = cache[r] \/ ReadAgain(r)
  BY <1>0, <1>2 DEF Snapshot, ReadAgain
<1>3. ASSUME NEW p \in Replica, SnapshotFails(p) PROVE cache'[r] = cache[r] \/ DoneWithout(r)
  BY <1>0, <1>3 DEF SnapshotFails, DoneWithout
<1> QED
  BY <1>1, <1>2, <1>3 DEF Step, Asked

\* A replica that has just answered has no fresh copy.
LEMMA AnswerDrops ==
  ASSUME Shape, Step, NEW q \in Request, NEW r \in Replica, r = AnsweredBy[q], Answer(q)
  PROVE  ~Fresh(r)'
<1>1. cache \in [Replica -> Cache]
  BY DEF Shape
<1>2. cache'[r].at = 0
  BY <1>1 DEF Answer, Invalidate, Cache
<1>3. now' >= StartTime /\ now' \in Nat
  BY NowMoves, RegistryAssumption DEF Shape, RegistryAssumption
<1>4. Ttl \in Nat /\ StartTime \in Nat /\ StartTime >= Ttl
  BY KeySourceAssumption, RegistryAssumption DEF KeySourceAssumption, RegistryAssumption
<1>5. \A t \in Nat : t >= StartTime => ~(t - 0 < Ttl)
  BY <1>4
<1>6. ~(now' - cache'[r].at < Ttl)
  BY <1>2, <1>3, <1>5
<1> QED
  BY <1>6 DEF Fresh

\* A copy that was dropped is not fresh; one that is kept was already fresh.
LEMMA FreshMoves ==
  ASSUME Shape, RowsSane, Step, NEW r \in Replica, Fresh(r)'
  PROVE  \/ cache'[r] = cache[r] /\ Fresh(r)
         \/ ReadAgain(r) \/ DoneWithout(r)
<1>1. now' >= StartTime /\ now' \in Nat /\ now \in Nat /\ now' >= now
  BY NowMoves, RegistryAssumption DEF Shape, RegistryAssumption
<1>2. Ttl \in Nat /\ StartTime \in Nat /\ StartTime >= Ttl
  BY KeySourceAssumption, RegistryAssumption DEF KeySourceAssumption, RegistryAssumption
<1>3. cache[r].at \in Nat
  BY DEF Shape, Cache
<1>4. ~Dropped(r)
  BY <1>1, <1>2 DEF Dropped, Fresh
<1>5. ASSUME cache'[r] = cache[r] PROVE Fresh(r)
  BY <1>1, <1>2, <1>3, <1>5 DEF Fresh
<1> QED
  BY <1>4, <1>5, CacheMoves

-----------------------------------------------------------------------------
(* The invariant is inductive. *)

LEMMA InitOk == Init => IInv
<1> SUFFICES ASSUME Init PROVE IInv
  OBVIOUS
<1>1. Shape
  <2>1. \A q \in Request : request[q] \in Handling
    BY NoRowType DEF Init, RegistryInit, Handling
  <2>2. request \in [Request -> Handling]
    BY <2>1 DEF Init, RegistryInit
  <2>3. cache \in [Replica -> Cache]
    BY DEF Init, Cache
  <2>4. row \in [App -> Row]
    BY NoRowType DEF Init, RegistryInit
  <2> QED
    BY <2>2, <2>3, <2>4, RegistryAssumption DEF Init, RegistryInit, Shape, RegistryAssumption
<1>2. RowsSane
  BY NoRowType DEF Init, RegistryInit, RowsSane, Saving
<1>3. CopiesFollow
  BY DEF Init, RegistryInit, CopiesFollow, Saving
<1>4. Seen
  <2>1. FromRegistry(row, now) = {}
    BY DEF Init, RegistryInit, FromRegistry, ValidKeys, NoRow
  <2>2. now \in Nat /\ now >= 0
    BY RegistryAssumption DEF Init, RegistryInit, RegistryAssumption
  <2> QED
    BY <2>1, <2>2 DEF Init, Seen
<1>5. Told
  BY DEF Init, RegistryInit, Told, Done
<1> QED
  BY <1>1, <1>2, <1>3, <1>4, <1>5 DEF IInv

LEMMA RowsSaneStep ==
  ASSUME Shape, RowsSane, Step
  PROVE  RowsSane' /\ row' \in [App -> Row]
<1>0. /\ row \in [App -> Row] /\ request \in [Request -> Handling] /\ now \in Nat
      /\ Target \in [Request -> App]
  BY RegistryAssumption DEF Shape, RegistryAssumption
<1>1. row' \in [App -> Row] /\ \A a \in App : Sane(row'[a])
  <2>1. CASE UNCHANGED row
    BY <1>0, <2>1 DEF RowsSane
  <2>2. ASSUME NEW q \in Request, Saves(q)
        PROVE  row' \in [App -> Row] /\ \A a \in App : Sane(row'[a])
    <3>1. request[q].copy \in Row /\ Sane(request[q].copy)
      BY <1>0, <2>2 DEF Saves, RowsSane, Handling
    <3> QED
      BY <1>0, <2>2, <3>1 DEF Saves, RowsSane
  <2> QED
    BY <2>1, <2>2, RowMoves
<1>2. ASSUME NEW q \in Request, Saving(q)'
      PROVE  /\ Sane(request'[q].copy) /\ request'[q].copy.exists
             /\ request'[q].copy.revoked \/ request'[q].copy.current = q
  <2>1. CASE Saving(q) /\ request'[q] = request[q]
    BY <2>1 DEF RowsSane
  <2>2. CASE Begins(q) /\ request'[q].copy = Changed(q, row[Target[q]])
    BY <1>0, <2>2, ChangedRow DEF Begins, RowsSane
  <2> QED
    BY <1>2, <2>1, <2>2, SavingMoves
<1>3. ASSUME NEW q \in Request, request'[q].answer = "ok" PROVE request'[q].pc = "ended"
  BY <1>3, OkMoves
<1> QED
  BY <1>1, <1>2, <1>3 DEF RowsSane, Saving, Sane

LEMMA ShapeStep ==
  ASSUME Shape, RowsSane, Step, History
  PROVE  Shape'
<1>0. /\ row \in [App -> Row] /\ request \in [Request -> Handling] /\ now \in Nat
      /\ Target \in [Request -> App] /\ cache \in [Replica -> Cache]
      /\ lastValid \in [Held -> Nat]
  BY RegistryAssumption DEF Shape, RegistryAssumption
<1>1. row' \in [App -> Row]
  BY RowsSaneStep
<1>2. request' \in [Request -> Handling]
  <2>1. ASSUME NEW q \in Request, Begins(q) PROVE request' \in [Request -> Handling]
    <3>1. Changed(q, row[Target[q]]) \in Row
      BY <1>0, <2>1, ChangedRow DEF Begins, RowsSane
    <3> HIDE DEF Row
    <3> QED
      <4> DEFINE begun == [request[q] EXCEPT !.pc = "save", !.copy = Changed(q, row[Target[q]])]
      <4>1. begun \in Handling
        BY <1>0, <3>1 DEF Handling
      <4>2. request' = [request EXCEPT ![q] = begun]
        BY <2>1 DEF Begins
      <4> HIDE DEF begun
      <4> QED
        BY <1>0, <4>1, <4>2
  <2>2. ASSUME NEW q \in Request, NEW answer \in {"ok", "refused", "error"}, Ends(q, answer)
        PROVE  request' \in [Request -> Handling]
    <3>1. [pc |-> "ended", answer |-> answer, copy |-> NoRow] \in Handling
      BY NoRowType DEF Handling
    <3> QED
      BY <1>0, <2>2, <3>1 DEF Ends
  <2>3. ASSUME NEW q \in Request, Written(q) PROVE request' \in [Request -> Handling]
    <3> HIDE DEF Row
    <3> QED
      <4> DEFINE written == [request[q] EXCEPT !.pc = "answer", !.copy = NoRow]
      <4>1. written \in Handling
        BY <1>0, NoRowType DEF Handling
      <4>2. request' = [request EXCEPT ![q] = written]
        BY <2>3 DEF Written
      <4> HIDE DEF written
      <4> QED
        BY <1>0, <4>1, <4>2
  <2> QED
    BY <1>0, <2>1, <2>2, <2>3, RequestMoves DEF EndsBadly, Answer
<1>3. now' \in Nat /\ now' >= StartTime /\ faults' \in Nat
  BY NowMoves, RegistryAssumption DEF Shape, RegistryAssumption
<1>4. cache' \in [Replica -> Cache]
  <2>1. DOMAIN cache' = Replica /\ cache' = [r \in Replica |-> cache'[r]]
    BY <1>0 DEF Step, Asked, Answer, Invalidate, Snapshot, SnapshotFails
  <2>2. ASSUME NEW r \in Replica PROVE cache'[r] \in Cache
    <3>1. cache[r] \in Cache
      BY <1>0
    <3>2. Merged(FromRegistry(row, now)) \subseteq Held /\ Merged({}) \subseteq Held
      BY KeysHeld DEF Shape, RowsSane
    <3>3. CASE ReadAgain(r)
      BY <1>0, <3>2, <3>3 DEF ReadAgain, Cache
    <3>4. CASE DoneWithout(r)
      BY <1>0, <3>2, <3>4 DEF DoneWithout, Cache
    <3>5. CASE Dropped(r)
      BY <3>1, <3>5 DEF Dropped, Cache
    <3> QED
      BY <3>1, <3>3, <3>4, <3>5, CacheMoves
  <2> QED
    BY <2>1, <2>2
<1>5. lastValid' \in [Held -> Nat]
  BY <1>0, <1>3 DEF History
<1>6. late' \in SUBSET Request
  BY DEF History
<1> QED
  BY <1>1, <1>2, <1>3, <1>4, <1>5, <1>6 DEF Shape

LEMMA CopiesFollowStep ==
  ASSUME Shape, RowsSane, CopiesFollow, Step, History
  PROVE  CopiesFollow'
<1> SUFFICES ASSUME NEW q \in Request, Saving(q)', q \notin late'
             PROVE  /\ row'[Target[q]].revoked => request'[q].copy.revoked
                    /\ row'[Target[q]].exists =>
                         row'[Target[q]].current \in {request'[q].copy.current, request'[q].copy.previous}
  BY DEF CopiesFollow
<1>1. q \notin late /\ row'[Target[q]] = row[Target[q]]
  BY DEF History, Saving
<1>2. CASE Saving(q) /\ request'[q] = request[q]
  BY <1>1, <1>2 DEF CopiesFollow
<1>3. CASE Begins(q) /\ request'[q].copy = Changed(q, row[Target[q]])
  <2>1. row[Target[q]] \in Row /\ Sane(row[Target[q]]) /\ now \in Nat
    BY RegistryAssumption DEF Shape, RowsSane, RegistryAssumption
  <2> QED
    BY <1>1, <1>3, <2>1, ChangedRow DEF Begins
<1> QED
  BY <1>2, <1>3, SavingMoves

LEMMA SeenStep ==
  ASSUME Shape, RowsSane, Seen, Step, History
  PROVE  Seen'
<1>0. /\ now \in Nat /\ now' \in Nat /\ now' >= now
      /\ lastValid \in [Held -> Nat]
      /\ cache \in [Replica -> Cache]
  BY NowMoves DEF Shape
<1>1. \A h \in Held : lastValid'[h] = IF h \in FromRegistry(row', now') THEN now' ELSE lastValid[h]
  BY DEF History
<1>2. \A h \in Held : lastValid[h] <= now /\ lastValid[h] \in Nat
  BY <1>0 DEF Seen
<1>3. \A h \in Held : lastValid'[h] <= now' /\ lastValid[h] <= lastValid'[h] /\ lastValid'[h] \in Nat
  BY <1>0, <1>1, <1>2
<1>4. FromRegistry(row', now') \subseteq Held
  <2>1. row' \in [App -> Row] /\ \A a \in App : Sane(row'[a])
    BY RowsSaneStep DEF RowsSane, Sane
  <2> QED
    BY <2>1, KeysHeld DEF Held
<1>5. \A h \in FromRegistry(row', now') : lastValid'[h] = now'
  BY <1>1, <1>4
<1>6. ASSUME NEW r \in Replica, NEW h \in cache'[r].keys, h[2] # EnvKey
      PROVE  cache'[r].at <= lastValid'[h]
  <2>0. cache[r].keys \subseteq Held /\ cache[r].at \in Nat
    BY <1>0 DEF Cache
  <2>1. CASE cache'[r] = cache[r]
    <3>1. h \in Held /\ cache[r].at <= lastValid[h]
      BY <1>6, <2>0, <2>1 DEF Seen
    <3> QED
      BY <1>2, <1>3, <2>0, <2>1, <3>1
  <2>2. CASE ReadAgain(r)
    <3>1. h \in FromRegistry(row, now)
      BY <1>6, <2>2, EnvironmentAlone DEF ReadAgain
    <3>2. h \in Held /\ lastValid[h] = now
      BY <3>1, KeysHeld DEF Held, Seen, Shape, RowsSane
    <3> QED
      BY <1>0, <1>2, <1>3, <2>2, <3>2 DEF ReadAgain
  <2>3. CASE DoneWithout(r)
    BY <1>6, <2>3, EnvironmentAlone DEF DoneWithout
  <2>4. CASE Dropped(r)
    <3>1. h \in Held
      BY <1>6, <2>0, <2>4 DEF Dropped
    <3> QED
      BY <1>3, <2>4, <3>1 DEF Dropped
  <2> QED
    BY <2>1, <2>2, <2>3, <2>4, CacheMoves
<1>7. \A h \in Held : lastValid'[h] <= now'
  BY <1>3
<1> QED
  BY <1>5, <1>6, <1>7 DEF Seen

LEMMA ToldStep ==
  ASSUME Shape, RowsSane, Told, Step, History
  PROVE  Told'
<1>0. /\ request \in [Request -> Handling] /\ row \in [App -> Row]
      /\ Target \in [Request -> App] /\ AnsweredBy \in [Request -> Replica]
      /\ now \in Nat /\ faults \in Nat /\ faults' >= faults
  BY NowMoves, RegistryAssumption, KeySourceAssumption
     DEF Shape, RegistryAssumption, KeySourceAssumption
<1>1. \A q \in standing' : Kind[q] = "revoke" /\ row'[Target[q]].revoked
  BY DEF History
\* One that is done and whose replica has a fresh copy was done before.
<1>2. ASSUME NEW q \in Request, NEW r \in Replica, r = AnsweredBy[q],
             request'[q].answer = "ok", Fresh(r)'
      PROVE  request[q].answer = "ok" /\ request[q].pc = "ended"
  BY <1>2, OkMoves, AnswerDrops DEF RowsSane
<1>3. ASSUME NEW q \in Request, NEW r \in Replica, r = AnsweredBy[q],
             Kind[q] = "revoke", request'[q].answer = "ok", q \in standing', Fresh(r)'
      PROVE  \A k \in Key : <<Target[q], k>> \notin cache'[r].keys
  <2>1. Done(q, "revoke") /\ q \in standing
    BY <1>2, <1>3 DEF Done, History
  <2>2. row[Target[q]].revoked
    BY <2>1 DEF Told
  <2>3. CASE cache'[r] = cache[r] /\ Fresh(r)
    BY <1>3, <2>1, <2>3 DEF Told
  <2>4. CASE ReadAgain(r)
    BY <1>0, <2>2, <2>4, KeysServed DEF ReadAgain, ValidKeys
  <2>5. CASE DoneWithout(r)
    <3>1. \A k \in Key : k # EnvKey
      BY KeySourceAssumption DEF KeySourceAssumption, Key
    <3> QED
      BY <2>5, <3>1, EnvironmentAlone DEF DoneWithout
  <2> QED
    BY <1>3, <2>3, <2>4, <2>5, FreshMoves
<1>4. ASSUME NEW q \in Request, NEW r \in Replica, r = AnsweredBy[q], faults' = 0,
             Kind[q] \in {"register", "rotate"}, request'[q].answer = "ok", Fresh(r)',
             row'[Target[q]].current = q, ~row'[Target[q]].revoked
      PROVE  <<Target[q], q>> \in cache'[r].keys
  <2>1. faults = 0 /\ (Done(q, "register") \/ Done(q, "rotate")) /\ request[q].pc = "ended"
    BY <1>0, <1>2, <1>4 DEF Done
  <2>2. row'[Target[q]] = row[Target[q]]
    <3>1. ASSUME NEW p \in Request, Saves(p) PROVE row'[Target[q]] = row[Target[q]]
      <4>1. p # q
        BY <2>1, <3>1 DEF Saves, Saving
      <4>2. request[p].copy.revoked \/ request[p].copy.current = p
        BY <3>1 DEF Saves, RowsSane
      <4>3. Target[p] # Target[q]
        BY <1>0, <1>4, <3>1, <4>1, <4>2 DEF Saves
      <4> QED
        BY <1>0, <3>1, <4>3 DEF Saves
    <3> QED
      BY <3>1, RowMoves
  <2>3. CASE cache'[r] = cache[r] /\ Fresh(r)
    BY <1>4, <2>1, <2>2, <2>3 DEF Told
  <2>4. CASE ReadAgain(r)
    <3>1. row[Target[q]].exists
      BY <1>0, <1>4, <2>2 DEF RowsSane, Sane, Key
    <3>2. q \in ValidKeys(row[Target[q]], now)
      BY <1>4, <2>2, <3>1 DEF ValidKeys
    <3> QED
      BY <1>0, <2>4, <3>2, KeysServed DEF ReadAgain, Key
  <2>5. CASE DoneWithout(r)
    BY <1>0, <1>4, <2>5 DEF DoneWithout
  <2> QED
    BY <1>4, <2>3, <2>4, <2>5, FreshMoves
<1>5. \A q \in Request : Done(q, "revoke")' /\ q \in standing' /\ Fresh(AnsweredBy[q])' =>
        \A k \in Key : <<Target[q], k>> \notin cache'[AnsweredBy[q]].keys
  <2> SUFFICES ASSUME NEW q \in Request, NEW r \in Replica, r = AnsweredBy[q],
                      Done(q, "revoke")', q \in standing', Fresh(r)'
               PROVE  \A k \in Key : <<Target[q], k>> \notin cache'[r].keys
    BY <1>0
  <2> QED
    BY <1>3 DEF Done
<1>6. \A q \in Request :
         /\ faults' = 0
         /\ Done(q, "register")' \/ Done(q, "rotate")'
         /\ row'[Target[q]].current = q /\ ~row'[Target[q]].revoked
         /\ Fresh(AnsweredBy[q])'
         => <<Target[q], q>> \in cache'[AnsweredBy[q]].keys
  <2> SUFFICES ASSUME NEW q \in Request, NEW r \in Replica, r = AnsweredBy[q], faults' = 0,
                      Done(q, "register")' \/ Done(q, "rotate")', Fresh(r)',
                      row'[Target[q]].current = q, ~row'[Target[q]].revoked
               PROVE  <<Target[q], q>> \in cache'[r].keys
    BY <1>0
  <2> QED
    BY <1>4 DEF Done
<1> QED
  BY <1>1, <1>5, <1>6 DEF Told

LEMMA StutterOk == IInv /\ UNCHANGED vars => IInv'
<1> SUFFICES ASSUME IInv, UNCHANGED vars PROVE IInv'
  OBVIOUS
<1> USE DEF vars, registryVars
<1>1. Shape' /\ RowsSane' /\ CopiesFollow'
  BY DEF IInv, Shape, RowsSane, CopiesFollow, Saving
<1>2. Seen'
  BY DEF IInv, Seen, FromRegistry
<1>3. Told'
  BY DEF IInv, Told, Fresh, Done
<1> QED
  BY <1>1, <1>2, <1>3 DEF IInv

LEMMA InvAlways == Spec => []IInv
<1>1. IInv /\ [Next]_vars => IInv'
  <2>1. ASSUME IInv, Next PROVE IInv'
    BY <2>1, NextIs, ShapeStep, RowsSaneStep, CopiesFollowStep, SeenStep, ToldStep DEF IInv
  <2> QED
    BY <2>1, StutterOk
<1> QED
  BY <1>1, InitOk, PTL DEF Spec

-----------------------------------------------------------------------------
(* The theorems. *)

\* A replica that can read the registry goes by a registered key for less than
\* ttl after it stopped counting (KeySource.Allow in keys.go): its copy was
\* read less than ttl ago, and held no key that did not count then.
THEOREM KeysLagLessThanTtl == Spec => []GuardLag
<1>1. IInv => GuardLag
  <2> SUFFICES ASSUME IInv, NEW r \in Replica, NEW h \in Served(r), h[2] # EnvKey
               PROVE  now - lastValid[h] < Ttl
    BY DEF GuardLag
  <2>0. /\ now \in Nat /\ Ttl \in Nat \ {0}
        /\ cache[r] \in Cache /\ lastValid \in [Held -> Nat]
    BY KeySourceAssumption DEF IInv, Shape, KeySourceAssumption
  <2>1. CASE Fresh(r)
    <3>1. h \in Held /\ cache[r].at <= lastValid[h] /\ now - cache[r].at < Ttl
      BY <2>0, <2>1 DEF Served, Cache, IInv, Seen, Fresh
    <3> QED
      BY <2>0, <3>1 DEF Cache
  <2>2. CASE ~Fresh(r)
    <3>1. h \in FromRegistry(row, now)
      BY <2>2, EnvironmentAlone DEF Served
    <3>2. lastValid[h] = now
      BY <3>1 DEF IInv, Seen
    <3> QED
      BY <2>0, <3>2
  <2> QED
    BY <2>1, <2>2
<1> QED
  BY <1>1, InvAlways, PTL

\* The replica that answered a change goes by it at once (Invalidate in
\* keys.go, called by the handlers before they answer), whatever the other
\* requests and replicas do: a revocation until it is undone, a new key while
\* it is the row's.
THEOREM ChangesTakeEffect == Spec => []AnswersTakeEffect
<1>1. ASSUME IInv, NEW q \in Request, NEW r \in Replica, r = AnsweredBy[q],
             Done(q, "revoke"), q \in standing
      PROVE  \A k \in Key : <<Target[q], k>> \notin Served(r)
  <2>0. Target[q] \in App
    BY RegistryAssumption DEF RegistryAssumption
  <2>1. CASE Fresh(r)
    BY <1>1, <2>1 DEF IInv, Told, Served
  <2>2. CASE ~Fresh(r)
    <3>1. row[Target[q]].revoked
      BY <1>1 DEF IInv, Told
    <3> QED
      BY <2>0, <2>2, <3>1, KeysServed DEF Served, ValidKeys
  <2> QED
    BY <2>1, <2>2
<1>2. ASSUME IInv, NEW q \in Request, NEW r \in Replica, r = AnsweredBy[q], faults = 0,
             Done(q, "register") \/ Done(q, "rotate"),
             row[Target[q]].current = q, ~row[Target[q]].revoked
      PROVE  <<Target[q], q>> \in Served(r)
  <2>0. Target[q] \in App /\ q \in Key
    BY RegistryAssumption DEF RegistryAssumption, Key
  <2>1. CASE Fresh(r)
    BY <1>2, <2>1 DEF IInv, Told, Served
  <2>2. CASE ~Fresh(r)
    <3>1. row[Target[q]].exists
      BY <1>2, <2>0 DEF IInv, RowsSane, Sane
    <3>2. q \in ValidKeys(row[Target[q]], now)
      BY <1>2, <3>1 DEF ValidKeys
    <3> QED
      BY <2>0, <2>2, <3>2, KeysServed DEF Served
  <2> QED
    BY <2>1, <2>2
<1>3. IInv => AnswersTakeEffect
  <2> SUFFICES ASSUME IInv, NEW q \in Request, NEW r \in Replica, r = AnsweredBy[q]
               PROVE  /\ /\ faults = 0
                         /\ Done(q, "register") \/ Done(q, "rotate")
                         /\ row[Target[q]].current = q /\ ~row[Target[q]].revoked
                         => <<Target[q], q>> \in Served(r)
                      /\ Done(q, "revoke") /\ q \in standing =>
                           \A k \in Key : <<Target[q], k>> \notin Served(r)
    BY KeySourceAssumption DEF AnswersTakeEffect, KeySourceAssumption
  <2> QED
    BY <1>1, <1>2
<1> QED
  BY <1>3, InvAlways, PTL

\* Nothing but the write of a copy older than the row (the handlers of
\* registry/http read the row, change it in memory and write it back whole)
\* makes a revoked application active again or drops the key it has.
THEOREM NothingElseUndoes == Spec => OnlyLateCopiesUndo
<1> DEFINE Kept(a) == /\ row[a].revoked => row'[a].revoked
                      /\ row[a].exists => row[a].current \in {row'[a].current, row'[a].previous}
<1>1. ASSUME IInv, Next, NEW a \in App PROVE WritesLate(a) \/ Kept(a)
  <2>0. row \in [App -> Row] /\ Target \in [Request -> App]
    BY <1>1, RegistryAssumption DEF IInv, Shape, RegistryAssumption
  <2>1. CASE UNCHANGED row
    BY <2>1
  <2>2. ASSUME NEW q \in Request, Saves(q) PROVE WritesLate(a) \/ Kept(a)
    <3>1. CASE Target[q] # a
      BY <2>0, <2>2, <3>1 DEF Saves
    <3>2. CASE Target[q] = a /\ q \in late
      BY <2>2, <3>2 DEF Saves, Saving, WritesLate
    <3>3. CASE Target[q] = a /\ q \notin late
      <4>1. row'[a] = request[q].copy
        BY <2>0, <2>2, <3>3 DEF Saves
      <4> QED
        BY <1>1, <2>2, <3>3, <4>1 DEF Saves, IInv, CopiesFollow
    <3> QED
      BY <3>1, <3>2, <3>3
  <2> QED
    BY <1>1, <2>1, <2>2, NextIs, RowMoves DEF IInv
<1>2. ASSUME UNCHANGED vars PROVE \A a \in App : Kept(a)
  BY <1>2 DEF vars, registryVars
<1>3. IInv /\ [Next]_vars => [\A a \in App : WritesLate(a) \/ Kept(a)]_vars
  BY <1>1, <1>2
<1> QED
  BY <1>3, InvAlways, PTL DEF Spec, OnlyLateCopiesUndo
=============================================================================
