------------------------------- MODULE KeySource -------------------------------
(***************************************************************************)
(* The keys the guards of each replica go by (core/registry/keys.go): a    *)
(* copy of the registry's keys merged with the environment's pairs, read   *)
(* again when it is older than ttl or when the replica itself answered an  *)
(* admin's request.                                                        *)
(***************************************************************************)
EXTENDS Registry

CONSTANTS
    Replica,
    AnsweredBy,  \* the replica each request reaches
    EnvApp,      \* the issuers the environment has a pair for
    EnvKey,      \* their key
    Ttl          \* ttl, in ticks

ASSUME KeySourceAssumption ==
    /\ AnsweredBy \in [Request -> Replica]
    /\ EnvApp \subseteq App
    /\ EnvKey \notin Request \cup {NoKey}
    /\ Ttl \in Nat \ {0}
    /\ StartTime >= Ttl  \* fetchedAt's zero is older than ttl

VARIABLES
    cache,      \* keys and fetchedAt of each replica
    lastValid,  \* history: when each key last counted in the registry
    late,       \* history: the requests whose copy is older than the row
    standing    \* history: the revocations never undone since they saved

vars == <<registryVars, cache, lastValid, late, standing>>

Held == App \X (Key \cup {EnvKey})
Cache == [filled : BOOLEAN, keys : SUBSET Held, at : Nat]

\* The environment's pairs for the issuers that have no key in the registry.
EnvServed(keys) ==
    {e \in EnvApp \X {EnvKey} : \A k \in keys : k[1] # e[1]}

FromRegistry(rows, t) ==
    UNION {{a} \X ValidKeys(rows[a], t) : a \in App}

Merged(keys) == keys \cup EnvServed(keys)

Init ==
    /\ RegistryInit
    /\ cache = [r \in Replica |-> [filled |-> FALSE, keys |-> {}, at |-> 0]]
    /\ lastValid = [h \in Held |-> 0]
    /\ late = {}
    /\ standing = {}

\* Mutant: off by one.
FreshLonger(r) == cache[r].filled /\ now - cache[r].at <= Ttl

Fresh(r) == cache[r].filled /\ now - cache[r].at < Ttl

\* A guard asks and the copy is not fresh: it is read again.
Snapshot(r) ==
    /\ ~Fresh(r)
    /\ cache' = [cache EXCEPT ![r] =
                   [filled |-> TRUE, keys |-> Merged(FromRegistry(row, now)), at |-> now]]
    /\ UNCHANGED registryVars

\* The registry cannot be read: the old copy goes on, or without one the
\* environment's pairs alone.
SnapshotFails(r) ==
    /\ ~Fresh(r)
    /\ CanFail
    /\ faults' = faults + 1
    /\ cache' = IF cache[r].filled THEN cache
                ELSE [cache EXCEPT ![r] =
                        [filled |-> TRUE, keys |-> Merged({}), at |-> now]]
    /\ UNCHANGED <<row, request, now>>

\* Mutant: the copy is kept.
InvalidateNothing(r) == cache' = cache

Invalidate(r) == cache' = [cache EXCEPT ![r].at = 0]

\* The handler drops its replica's copy, then answers.
Answer(q) ==
    /\ request[q].pc = "answer"
    /\ Ends(q, "ok")
    /\ Invalidate(AnsweredBy[q])
    /\ UNCHANGED <<row, now, faults>>

Asked(q) == (Get(q) \/ GetFails(q) \/ Save(q) \/ SaveFails(q)) /\ UNCHANGED cache

History ==
    /\ lastValid' = [h \in Held |->
         IF h \in FromRegistry(row', now') THEN now' ELSE lastValid[h]]
    /\ late' = {q \in Request : /\ request'[q].pc = "save"
                                /\ q \in late \/ row'[Target[q]] # row[Target[q]]}
    /\ standing' = {q \in Request : /\ Kind[q] = "revoke" /\ row'[Target[q]].revoked
                                    /\ request'[q].pc \in {"answer", "ended"}
                                    /\ q \in standing \/ request[q].pc = "save"}

Next ==
    /\ \/ \E q \in Request : Asked(q) \/ Answer(q)
       \/ Tick /\ UNCHANGED cache
       \/ \E r \in Replica : Snapshot(r) \/ SnapshotFails(r)
    /\ History

Spec == Init /\ [][Next]_vars

\* What a replica answers to key k now: from its copy, or from the one it
\* reads first when that is not fresh.
Served(r) == IF Fresh(r) THEN cache[r].keys ELSE Merged(FromRegistry(row, now))

-----------------------------------------------------------------------------
(* Properties *)

\* A replica that can read the registry goes by a registered key for less than
\* ttl after it stopped counting, whoever changed the registry and through
\* which replica, and whatever failed before.
GuardLag ==
    \A r \in Replica : \A h \in Served(r) :
      h[2] # EnvKey => now - lastValid[h] < Ttl

Done(q, kind) == Kind[q] = kind /\ request[q].answer = "ok"

\* The replica that answered a registration or a rotation goes by the new key
\* at once while it is the row's ("honoured on the next request", keys.go,
\* Invalidate), and by no registered key after a revocation, until that one is
\* undone: another revocation after that takes effect through the replica that
\* answers it.  A first reading that failed may leave a replica with the
\* environment's pairs for ttl.
AnswersTakeEffect ==
    \A q \in Request :
      LET a == Target[q]
          served == Served(AnsweredBy[q])
      IN  /\ /\ faults = 0
             /\ Done(q, "register") \/ Done(q, "rotate")
             /\ row[a].current = q /\ ~row[a].revoked
             => <<a, q>> \in served
          /\ Done(q, "revoke") /\ q \in standing =>
             \A k \in Key : <<a, k>> \notin served

WritesLate(a) ==
    \E q \in late : Target[q] = a /\ request[q].pc = "save" /\ request'[q].pc # "save"

\* Only a copy older than the row makes a revoked application active again,
\* or drops the key it has without keeping it as the previous one (handlers of
\* rotate and register): nothing but the lost update does either.
OnlyLateCopiesUndo ==
    [][\A a \in App : WritesLate(a) \/
         /\ row[a].revoked => row'[a].revoked
         /\ row[a].exists => row[a].current \in {row'[a].current, row'[a].previous}]_vars
=============================================================================
