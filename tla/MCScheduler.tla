----------------------------- MODULE MCScheduler -----------------------------
(* Small instances of the scheduler for TLC. *)
EXTENDS Scheduler, TLC

CONSTANTS l1, l2, l3, b1   \* readings: l* are live, b1 is a background one

Classes == {"live", "background"}
ClassOfJob == [j \in Job |-> IF j = b1 THEN "background" ELSE "live"]
OneSlotEach == [c \in Class |-> 1]
TwoLiveOneBackground == [c \in Class |-> IF c = "live" THEN 2 ELSE 1]
OneSegment == [j \in Job |-> 1]
TwoSegments == [j \in Job |-> 2]

\* Live readings can be exchanged.
SameClass == Permutations({l1, l2, l3})
=============================================================================
