------------------------------- MODULE Retain -------------------------------
(***************************************************************************)
(* Vec::retain and its like: the entries of a sequence at the positions    *)
(* that are kept, in order.  It is SelectSeq with a set of positions in    *)
(* place of a test, so that it can be reasoned about (see RetainProofs).   *)
(***************************************************************************)
EXTENDS Naturals, Sequences

Retain(s, keep) ==
    LET kept[i \in 0..Len(s)] ==
            IF i = 0 THEN <<>>
            ELSE IF i \in keep THEN Append(kept[i - 1], s[i]) ELSE kept[i - 1]
    IN  kept[Len(s)]
=============================================================================
