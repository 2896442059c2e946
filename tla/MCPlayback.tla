----------------------------- MODULE MCPlayback -----------------------------
(* A body of two pieces, one of one, an empty one, one that is cut short.    *)
EXTENDS Playback

MCBodies ==
    {[pieces |-> <<1, 1>>, cut |-> 0], [pieces |-> <<1>>, cut |-> 0],
     [pieces |-> <<>>, cut |-> 0], [pieces |-> <<1, 1>>, cut |-> 1]}
=============================================================================
