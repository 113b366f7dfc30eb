------------------------------- MODULE Lists --------------------------------
(***************************************************************************)
(* What is left of a list when some of its elements are taken out.  The     *)
(* standard SelectSeq is about an operator; a set can be reasoned about.    *)
(***************************************************************************)
EXTENDS Integers, Sequences

(* The elements of s that are in P, in their order. *)
Kept(s, P) ==
    LET kept[n \in 0..Len(s)] ==
            IF n = 0 THEN <<>>
            ELSE IF s[n] \in P THEN Append(kept[n - 1], s[n]) ELSE kept[n - 1]
    IN  kept[Len(s)]
=============================================================================
