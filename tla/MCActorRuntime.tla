--------------------------- MODULE MCActorRuntime ---------------------------
(***************************************************************************)
(* Instances of ActorRuntime for TLC.                                      *)
(***************************************************************************)
EXTENDS ActorRuntime, TLC

CONSTANTS a1, a2

\* All mailboxes unbounded: the actors are interchangeable.
Unbounded == [a \in Actors |-> 0]
ActorSymmetry == Permutations(Actors)

\* a1 has an unbounded mailbox, a2 one of capacity 1.
MixedCapacity == [a \in Actors |-> IF a = a1 THEN 0 ELSE 1]

\* Two actors that watch each other, and every possible watch.
Mutual == {<<a1, a2>>, <<a2, a1>>}
AllPairs == Actors \X Actors
============================================================================
