------------------------------ MODULE MCSpeech ------------------------------
(* Every text of up to five words of five kinds, at most four tokens and     *)
(* three words to a batch; hops that do not divide frames.                   *)
EXTENDS Speech

W(ends, tokens) == [ends |-> ends, tokens |-> tokens]
MCWords == {W("letter", 1), W("mark", 1), W("other", 2), W("mark", 3), W("letter", 5),
            W("pause", 0)}
MCTexts == UNION {[1 .. n -> MCWords] : n \in 0 .. 5}
=============================================================================
