------------------------------ MODULE Admission ------------------------------
(***************************************************************************)
(* What admission promises to the callers of the TTS server, whatever the  *)
(* engine does inside (the head comment of server/src/engine.rs): a        *)
(* reading holds one of its class's slots or is refused at once, it is     *)
(* refused only while every slot of its class is held, and whoever sees    *)
(* the end of a reading can have its slot.                                 *)
(***************************************************************************)
EXTENDS Naturals, FiniteSets

CONSTANTS Job, Class, ClassOf, Slots

VARIABLE status  \* "new", "held", "released", "ended" or "refused"

Held(c) == {j \in Job : ClassOf[j] = c /\ status[j] = "held"}

Init == status = [j \in Job |-> "new"]

Admit(j) ==
    /\ status[j] = "new"
    /\ Cardinality(Held(ClassOf[j])) < Slots[ClassOf[j]]
    /\ status' = [status EXCEPT ![j] = "held"]

Refuse(j) ==
    /\ status[j] = "new"
    /\ Cardinality(Held(ClassOf[j])) >= Slots[ClassOf[j]]
    /\ status' = [status EXCEPT ![j] = "refused"]

\* The readings js give their slots back, before any of them is seen to end.
GiveBack(js) ==
    /\ \A j \in js : status[j] = "held"
    /\ status' = [j \in Job |-> IF j \in js THEN "released" ELSE status[j]]

End(j) ==
    /\ status[j] = "released"
    /\ status' = [status EXCEPT ![j] = "ended"]

Next ==
    \/ \E j \in Job : Admit(j) \/ Refuse(j) \/ End(j)
    \/ \E js \in SUBSET Job : GiveBack(js)

Spec == Init /\ [][Next]_status
=============================================================================
