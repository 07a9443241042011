----------------------------- MODULE MCAdapters -----------------------------
(***************************************************************************)
(* Instances of Adapters for TLC.                                          *)
(***************************************************************************)
EXTENDS Adapters

CONSTANTS a1, a2, m1, m2

\* a1 has a mailbox of capacity 1, a2 an unbounded one, and a2 watches a1.
OneBounded == [a \in Actors |-> IF a = a1 THEN 1 ELSE 0]
Supervises == {<<a2, a1>>}

\* Both messages go to a1: an ask, and one that is sent in any other way.
Modes == [p \in Actors \X Msgs |->
             CASE p = <<a1, m1>> -> {"ask"}
               [] p = <<a1, m2>> -> {"tell", "expand", "reduce", "transform"}
               [] OTHER -> {}]
=============================================================================
