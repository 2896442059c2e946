------------------------------ MODULE MCKeySource ------------------------------
(* One application: its registration, a rotation and two revocations that      *)
(* reach two replicas, in every order and at every time.                      *)
EXTENDS KeySource

CONSTANTS app, r1, r2

MCRequest == {"register", "rotate", "revoke1", "revoke2"}
MCKind ==
    [q \in MCRequest |-> IF q \in {"revoke1", "revoke2"} THEN "revoke" ELSE q]
MCTarget == [q \in MCRequest |-> app]
MCAnsweredBy == [q \in MCRequest |-> IF q = "revoke2" THEN r2 ELSE r1]
=============================================================================
