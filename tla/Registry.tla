------------------------------- MODULE Registry -------------------------------
(***************************************************************************)
(* The registry of applications (core/registry): the admin's requests, one *)
(* handler each, which read the application's row, change it in memory     *)
(* (domain/app.go) and write it back whole (infrastructure/postgres.go),   *)
(* with nothing to keep two of them apart.                                 *)
(***************************************************************************)
EXTENDS Naturals, FiniteSets

CONSTANTS
    App,        \* the names applications are registered under
    Request,    \* the admin's requests
    Kind,       \* "register", "rotate" or "revoke"
    Target,     \* the application each is about
    NoKey,
    Grace,      \* domain.Grace, in ticks
    StartTime, MaxTime,  \* bound: the clock
    MaxFaults            \* bound: the failures of a behaviour

ASSUME RegistryAssumption ==
    /\ Kind \in [Request -> {"register", "rotate", "revoke"}]
    /\ Target \in [Request -> App]
    /\ NoKey \notin Request
    /\ Grace \in Nat \ {0}
    /\ StartTime \in Nat /\ MaxTime \in Nat /\ MaxFaults \in Nat

VARIABLES row, request, now, faults

registryVars == <<row, request, now, faults>>

\* A key is named by the request that mints it.
Key == Request

Row == [exists : BOOLEAN, current : Key \cup {NoKey}, previous : Key \cup {NoKey},
        rotated : Nat, revoked : BOOLEAN]

NoRow == [exists |-> FALSE, current |-> NoKey, previous |-> NoKey,
          rotated |-> 0, revoked |-> FALSE]

RegistryInit ==
    /\ row = [a \in App |-> NoRow]
    /\ request = [q \in Request |-> [pc |-> "get", answer |-> "none", copy |-> NoRow]]
    /\ now = StartTime
    /\ faults = 0

CanFail == faults < MaxFaults

Ends(q, answer) ==
    request' = [request EXCEPT ![q] =
                  [pc |-> "ended", answer |-> answer, copy |-> NoRow]]

\* domain.Register, App.Rotate and App.Revoke.
Registered(q) ==
    [exists |-> TRUE, current |-> q, previous |-> NoKey, rotated |-> 0, revoked |-> FALSE]

\* Mutant: the key that was in use is not kept.
RotatedForgetting(a, q) == [a EXCEPT !.current = q, !.rotated = now]

Rotated(a, q) == [a EXCEPT !.previous = a.current, !.current = q, !.rotated = now]

Revoked(a) == [a EXCEPT !.revoked = TRUE]

Changed(q, a) ==
    CASE Kind[q] = "register" -> Registered(q)
      [] Kind[q] = "rotate" -> Rotated(a, q)
      [] Kind[q] = "revoke" -> Revoked(a)

Refused(q, a) ==
    \/ Kind[q] = "register" /\ a.exists
    \/ Kind[q] # "register" /\ ~a.exists
    \/ Kind[q] = "rotate" /\ a.revoked

\* Repository.Get, and what the handler makes of the row.
Get(q) ==
    LET a == row[Target[q]] IN
      /\ request[q].pc = "get"
      /\ IF Refused(q, a)
         THEN Ends(q, "refused")
         ELSE request' = [request EXCEPT ![q].pc = "save", ![q].copy = Changed(q, a)]
      /\ UNCHANGED <<row, now, faults>>

\* The row could not be read, or a key not be minted.
GetFails(q) ==
    /\ request[q].pc = "get"
    /\ CanFail
    /\ faults' = faults + 1
    /\ Ends(q, "error")
    /\ UNCHANGED <<row, now>>

Save(q) ==
    /\ request[q].pc = "save"
    /\ row' = [row EXCEPT ![Target[q]] = request[q].copy]
    /\ request' = [request EXCEPT ![q].pc = "answer", ![q].copy = NoRow]
    /\ UNCHANGED <<now, faults>>

\* The write failed, or was done without the handler hearing of it.
SaveFails(q) ==
    /\ request[q].pc = "save"
    /\ CanFail
    /\ faults' = faults + 1
    /\ row' \in {row, [row EXCEPT ![Target[q]] = request[q].copy]}
    /\ Ends(q, "error")
    /\ UNCHANGED now

Tick ==
    /\ now < MaxTime
    /\ now' = now + 1
    /\ UNCHANGED <<row, request, faults>>

\* PreviousValidAt.
PreviousValid(a, t) ==
    /\ a.exists /\ ~a.revoked
    /\ a.previous # NoKey
    /\ t < a.rotated + Grace

\* The keys of an application that count at time t: none once it is revoked.
ValidKeys(a, t) ==
    IF ~a.exists \/ a.revoked THEN {}
    ELSE {a.current} \cup (IF PreviousValid(a, t) THEN {a.previous} ELSE {})

\* "Revoke ends the application's access" (domain/app.go): nothing gives it
\* back to the row.
RevokedForGood ==
    [][\A a \in App : row[a].revoked => row'[a].revoked]_registryVars
=============================================================================
