--------------------------- MODULE MCCoordination ---------------------------
(***************************************************************************)
(* An instance of Coordination for TLC.                                    *)
(***************************************************************************)
EXTENDS Coordination

CONSTANTS o1, o2, o3, e1, e2, e3, n1, n2, a, b, q1, q2, q3, q4

\* Three operations: a tell that may carry a key, an ask, and a stream or a tell.
Kinds == [o \in Ops |-> CASE o = o1 -> {"tell", "keyed"} [] o = o2 -> {"ask"} [] OTHER -> {"stream", "tell"}]
Keys1 == [o \in Ops |-> 1]

\* Three envelopes, of which two may be batched for one node and one goes to another,
\* which has no route; the first one is registered twice.
Targets3 == [e \in Envelopes |-> IF e = e3 THEN n2 ELSE n1]
Modes3 == [e \in Envelopes |-> CASE e = e1 -> {"ask", "batch", "stream"} [] e = e2 -> {"tell", "batch"}
                                  [] OTHER -> {"batch", "registry"}]
Twice == [n \in Nodes |-> IF n = n1 THEN 2 ELSE 0]

\* Two nodes; two that share a port; two of one id.
TwoNodes == {<<[id |-> a, port |-> 1], [id |-> b, port |-> 2]>>,
             <<[id |-> a, port |-> 1], [id |-> b, port |-> 1]>>,
             <<[id |-> a, port |-> 1], [id |-> a, port |-> 2]>>}

\* Four calls of a test node, one of them to stop the actor a.
Op(o, name, to) == [op |-> o, name |-> name, to |-> to]
FourCalls == [r \in Rpcs |->
    CASE r = q1 -> {Op("spawn", a, a)}
      [] r = q2 -> {Op("spawn", a, a), Op("spawn", b, b), Op("tell", a, a), Op("ask", a, a),
                    Op("forward", a, a), Op("clear", a, a), Op("query", a, a)}
      [] r = q3 -> {Op("watch", b, a), Op("watch", b, b), Op("stop", b, b), Op("inject", a, a),
                    Op("shutdown", a, a)}
      [] OTHER  -> {Op("stop", a, a)}]
=============================================================================
